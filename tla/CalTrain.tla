-------------------------------- MODULE CalTrain --------------------------------
(***************************************************************************)
(* cs140-ps0/caltrain.c: a station where passengers wait for a train, a    *)
(* monitor with one lock and two condition variables.  All the state is    *)
(* read and written under the lock, so that a step is the code from where  *)
(* a thread gets the lock to where it gives it back, by lock_release or in *)
(* cond_wait.  A woken thread competes for the lock with every other.      *)
(***************************************************************************)
EXTENDS Integers, FiniteSets

CONSTANTS
  Passengers,   \* threads that each take one train
  Train,        \* the thread that runs station_load_train
  MaxSeats,     \* a train comes with 0 .. MaxSeats free seats
  Spurious      \* cond_wait may return with no signal, as pthread_cond_wait may

ASSUME TrainAssumption == Train \notin Passengers
ASSUME SeatsAssumption == MaxSeats \in Nat
ASSUME PassengersAssumption == IsFiniteSet(Passengers)
ASSUME SpuriousAssumption == Spurious \in BOOLEAN

VARIABLES
  seat_num, wait_passengers, board_passengers,    \* struct station
  pc,        \* pc[t]: where thread t is
  places,    \* history: the seats that the train in the station came with
  aboard     \* history: the passengers let on that train

station == << seat_num, wait_passengers, board_passengers >>
station_vars == << station, pc, places, aboard >>

\* A thread is out of the station, on the list of its condition variable,
\* woken and about to take the lock again, let on a train, or in its seat.
States == {"away", "waiting", "woken", "boarded", "seated"}

\* station_init, and the passengers still on their way.
StationInit ==
  /\ seat_num = 0
  /\ wait_passengers = 0
  /\ board_passengers = 0
  /\ pc = [t \in Passengers \union {Train} |-> "away"]
  /\ places = 0
  /\ aboard = 0

-------------------------------------------------------------------------------
\* cond_broadcast (cond_train): every passenger who waits is woken.
Broadcast == [t \in DOMAIN pc |->
                IF t \in Passengers /\ pc[t] = "waiting" THEN "woken" ELSE pc[t]]

\* Mutant of CallPassengers: it wakes one passenger, with cond_signal.
CallOne(seats) ==
  /\ seats > 0
  /\ wait_passengers > 0
  /\ seat_num' = seats
  /\ \/ \E p \in Passengers : /\ pc[p] = "waiting"
                              /\ pc' = [pc EXCEPT ![p] = "woken", ![Train] = "waiting"]
     \/ /\ \A p \in Passengers : pc[p] # "waiting"
        /\ pc' = [pc EXCEPT ![Train] = "waiting"]
  /\ UNCHANGED << wait_passengers, board_passengers, aboard >>

\* The loop test holds: the train calls the passengers and waits on cond_full.
CallPassengers(seats) ==
  /\ seats > 0
  /\ wait_passengers > 0
  /\ seat_num' = seats
  /\ pc' = [Broadcast EXCEPT ![Train] = "waiting"]
  /\ UNCHANGED << wait_passengers, board_passengers, aboard >>

\* The loop ends and station_load_train returns.
Leave(seats) ==
  /\ ~ (seats > 0 /\ wait_passengers > 0)
  /\ seat_num' = 0
  /\ board_passengers' = 0
  /\ pc' = [pc EXCEPT ![Train] = "away"]
  /\ aboard' = 0
  /\ UNCHANGED wait_passengers

\* A train with count free seats comes in; one that leaves takes its places.
LoadTrain(count) ==
  /\ pc[Train] = "away"
  /\ \/ CallPassengers(seat_num + count) /\ places' = count
     \/ Leave(seat_num + count) /\ places' = 0

\* The train has the lock again and tests the loop's condition.
TrainWakes ==
  /\ pc[Train] = "woken"
  /\ \/ CallPassengers(seat_num) /\ UNCHANGED places
     \/ Leave(seat_num) /\ places' = 0

\* A passenger finds no free seat, and waits on cond_train.
NoSeat(p) ==
  /\ board_passengers = seat_num
  /\ pc' = [pc EXCEPT ![p] = "waiting"]
  /\ UNCHANGED << board_passengers, aboard >>

\* A passenger finds a free seat, and station_wait_for_train returns.
Board(p) ==
  /\ board_passengers # seat_num
  /\ board_passengers' = board_passengers + 1
  /\ aboard' = aboard + 1
  /\ pc' = [pc EXCEPT ![p] = "boarded"]

\* station_wait_for_train, up to its return or its first cond_wait.
WaitForTrain(p) ==
  /\ pc[p] = "away"
  /\ \/ NoSeat(p) /\ wait_passengers' = wait_passengers + 1
     \/ Board(p) /\ UNCHANGED wait_passengers
  /\ UNCHANGED << seat_num, places >>

\* A woken passenger tests again.
PassengerWakes(p) ==
  /\ pc[p] = "woken"
  /\ \/ NoSeat(p) /\ UNCHANGED wait_passengers
     \/ Board(p) /\ wait_passengers' = wait_passengers - 1
  /\ UNCHANGED << seat_num, places >>

\* Mutant of OnBoard: it does not take the seat.
OnBoardKeepsSeat(p) ==
  /\ pc[p] = "boarded"
  /\ board_passengers' = board_passengers - 1
  /\ seat_num' = seat_num
  /\ LET full == seat_num' = 0 \/ board_passengers' = 0
     IN pc' = [pc EXCEPT ![p] = "seated",
                         ![Train] = IF full /\ @ = "waiting" THEN "woken" ELSE @]
  /\ UNCHANGED << wait_passengers, places, aboard >>

\* station_on_board, with the signal of cond_full that wakes a waiting train.
OnBoard(p) ==
  /\ pc[p] = "boarded"
  /\ board_passengers' = board_passengers - 1
  /\ seat_num' = seat_num - 1
  /\ LET full == seat_num' = 0 \/ board_passengers' = 0
     IN pc' = [pc EXCEPT ![p] = "seated",
                         ![Train] = IF full /\ @ = "waiting" THEN "woken" ELSE @]
  /\ UNCHANGED << wait_passengers, places, aboard >>

\* cond_wait returns with no signal.
Wakes(t) ==
  /\ Spurious
  /\ pc[t] = "waiting"
  /\ pc' = [pc EXCEPT ![t] = "woken"]
  /\ UNCHANGED << station, places, aboard >>

PassengerStep(p) == PassengerWakes(p) \/ OnBoard(p)

StationNext ==
  \/ \E count \in 0 .. MaxSeats : LoadTrain(count)
  \/ TrainWakes
  \/ \E p \in Passengers : WaitForTrain(p) \/ PassengerStep(p)
  \/ \E t \in Passengers \union {Train} : Wakes(t)

StationSpec == StationInit /\ [][StationNext]_station_vars

\* A woken thread gets the lock in the end, and a boarded passenger sits.
StationFairSpec ==
  /\ StationSpec
  /\ WF_station_vars(TrainWakes)
  /\ \A p \in Passengers : WF_station_vars(PassengerStep(p))

-------------------------------------------------------------------------------
\* The types.  The counts of seats and of boarders go below zero: a passenger
\* may sit after his train has left.
StationTypeOK ==
  /\ seat_num \in - Cardinality(Passengers) .. MaxSeats
  /\ board_passengers \in - Cardinality(Passengers) .. MaxSeats
  /\ wait_passengers \in 0 .. Cardinality(Passengers)
  /\ pc \in [Passengers \union {Train} -> States]
  /\ places \in 0 .. MaxSeats
  /\ aboard \in Nat

\* No more passengers are let on a train than it came with free seats, and none
\* when there is no train: the test of station_wait_for_train compares two
\* counts that other passengers lower together, also after their train has left.
NeverOverfull == aboard <= places

\* While a train waits with a place left, no passenger sleeps on cond_train:
\* each has been called, or found a place.
NoneOverlooked ==
  (pc[Train] = "waiting" /\ aboard < places)
    => \A p \in Passengers : pc[p] # "waiting"

\* A passenger between boarding and sitting has the train in the station:
\* station_load_train does not return early (caltrain-runner.c:136).
BoardedHaveTrain ==
  pc[Train] = "away" => \A p \in Passengers : pc[p] # "boarded"

\* station_load_train returns (caltrain-runner.c:159), as long as each passenger
\* who boards sits.
TrainLeaves == pc[Train] # "away" ~> pc[Train] = "away"
===============================================================================
