-------------------------------- MODULE Reaction --------------------------------
(***************************************************************************)
(* cs140-ps0/reaction.c: threads of hydrogen and oxygen that meet in a     *)
(* monitor to make water.  As in CalTrain, a step is the code from where a *)
(* thread gets the lock to where it gives it back.  cond_wait may return  *)
(* without a signal, as pthread_cond_wait may.                             *)
(***************************************************************************)
EXTENDS Integers, FiniteSets

CONSTANTS
  Hydrogen,     \* threads that run reaction_h once
  Oxygen        \* threads that run reaction_o once

ASSUME AtomsAssumption == IsFiniteSet(Hydrogen) /\ Hydrogen \intersect Oxygen = {}

VARIABLES
  h_num,     \* struct reaction: hydrogen atoms that have not reacted
  atom,      \* atom[a]: where thread a is
  water,     \* calls of make_water
  early      \* history: hydrogen threads that woke without a signal

reaction_vars == << h_num, atom, water, early >>

Atoms == Hydrogen \union Oxygen

\* A thread has not come, is on the list of its condition variable, has been
\* woken and is about to take the lock again, or has returned.
AtomStates == {"away", "waiting", "woken", "returned"}

\* reaction_init.
ReactionInit ==
  /\ h_num = 0
  /\ atom = [a \in Atoms |-> "away"]
  /\ water = 0
  /\ early = 0

At(S, where) == {a \in S : atom[a] = where}

-------------------------------------------------------------------------------
\* cond_signal wakes one of those that wait, if any does: n signals in a row.
Signalled(S, n) ==
  {W \in SUBSET At(S, "waiting") :
     \/ Cardinality(W) = n
     \/ Cardinality(W) < n /\ W = At(S, "waiting")}

Woken(W, f) == [a \in Atoms |-> IF a \in W THEN "woken" ELSE f[a]]

\* Mutant of ReactionH: it signals for the first pair only.
ReactionHPairs(h) ==
  /\ atom[h] = "away"
  /\ h_num' = h_num + 1
  /\ \E W \in Signalled(Oxygen, IF h_num' = 2 THEN 1 ELSE 0) :
       atom' = [Woken(W, atom) EXCEPT ![h] = "waiting"]
  /\ UNCHANGED << water, early >>

\* reaction_h up to its cond_wait.
ReactionH(h) ==
  /\ atom[h] = "away"
  /\ h_num' = h_num + 1
  /\ \E W \in Signalled(Oxygen, IF h_num' >= 2 THEN 1 ELSE 0) :
       atom' = [Woken(W, atom) EXCEPT ![h] = "waiting"]
  /\ UNCHANGED << water, early >>

\* reaction_h from its cond_wait, which no loop surrounds, to its return.
HydrogenReturns(h) ==
  /\ atom[h] = "woken"
  /\ atom' = [atom EXCEPT ![h] = "returned"]
  /\ UNCHANGED << h_num, water, early >>

\* reaction_o finds fewer than two atoms of hydrogen, and waits.
OxygenWaits(o) ==
  /\ atom[o] \in {"away", "woken"}
  /\ h_num < 2
  /\ atom' = [atom EXCEPT ![o] = "waiting"]
  /\ UNCHANGED << h_num, water, early >>

\* Mutant of MakeWater: it signals once.
MakeWaterOne(o) ==
  /\ atom[o] \in {"away", "woken"}
  /\ h_num >= 2
  /\ h_num' = h_num - 2
  /\ water' = water + 1
  /\ \E W \in Signalled(Hydrogen, 1) :
       atom' = [Woken(W, atom) EXCEPT ![o] = "returned"]
  /\ UNCHANGED early

\* reaction_o finds two, makes water and signals twice.
MakeWater(o) ==
  /\ atom[o] \in {"away", "woken"}
  /\ h_num >= 2
  /\ h_num' = h_num - 2
  /\ water' = water + 1
  /\ \E W \in Signalled(Hydrogen, 2) :
       atom' = [Woken(W, atom) EXCEPT ![o] = "returned"]
  /\ UNCHANGED early

\* cond_wait returns with no signal: the loop of reaction_o tests again,
\* reaction_h returns.
AtomWakes(a) ==
  /\ atom[a] = "waiting"
  /\ atom' = [atom EXCEPT ![a] = "woken"]
  /\ early' = IF a \in Hydrogen THEN early + 1 ELSE early
  /\ UNCHANGED << h_num, water >>

OxygenStep(o) == OxygenWaits(o) \/ MakeWater(o)

ReactionNext ==
  \/ \E h \in Hydrogen : ReactionH(h) \/ HydrogenReturns(h)
  \/ \E o \in Oxygen : OxygenStep(o)
  \/ \E a \in Atoms : AtomWakes(a)

ReactionSpec == ReactionInit /\ [][ReactionNext]_reaction_vars

\* A woken thread gets the lock in the end.
ReactionFairSpec ==
  /\ ReactionSpec
  /\ \A o \in Oxygen : WF_reaction_vars(atom[o] = "woken" /\ OxygenStep(o))
  /\ \A h \in Hydrogen : WF_reaction_vars(HydrogenReturns(h))

-------------------------------------------------------------------------------
\* The types: in particular the count of hydrogen never falls below zero.
ReactionTypeOK ==
  /\ h_num \in Nat
  /\ atom \in [Atoms -> AtomStates]
  /\ water \in Nat
  /\ early \in Nat

Left == At(Hydrogen, "woken") \union At(Hydrogen, "returned")

\* Two threads of hydrogen leave the reaction for each water made, although
\* reaction_o does not say whom it wakes; those in excess are the ones that
\* cond_wait let go without a signal.
HydrogenBonded ==
  /\ Cardinality(Left) >= 2 * water
  /\ Cardinality(Left) <= 2 * water + early

\* No thread of hydrogen leaves without a water of its own
\* (reaction-runner.c:125).
NoneEarly == Cardinality(Left) = 2 * water

\* Two free atoms of hydrogen and one of oxygen that came before them make
\* water: the signal of reaction_h is not lost, whatever comes in between.
EveryWater ==
  \A n \in 0 .. Cardinality(Oxygen) :
    (water = n /\ h_num >= 2 /\ At(Oxygen, "waiting") # {}) ~> water > n
===============================================================================
