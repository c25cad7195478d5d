------------------------------ MODULE SectorStore ------------------------------
(***************************************************************************)
(* What flash_write promises its caller: sectors are replaced one after    *)
(* the other, in ascending order, each by the contents asked for.  Losing  *)
(* power ends the job and costs at most the sector in work.  An operation  *)
(* of the flash that fails may spoil the sector it was meant for, never    *)
(* another one, and the job goes on: flash_write returns no status.        *)
(***************************************************************************)
EXTENDS Integers

CONSTANTS SectorIds,   \* the sectors of the bank: natural numbers
          Contents     \* what a sector can hold

VARIABLES store,   \* contents of each sector, the one in work as it was
          job,     \* the sectors still to be replaced, and by what
          clean    \* no operation of this job failed

storeVars == <<store, job, clean>>

Pending == DOMAIN job
InWork(s) == s \in Pending /\ \A t \in Pending : s <= t

StoreInit ==
  /\ store \in [SectorIds -> Contents]
  /\ job = << >> /\ clean = TRUE

\* A job covers consecutive sectors.
Begin ==
  /\ Pending = {}
  /\ \E S \in SUBSET SectorIds :
       /\ \A s, t \in S : s .. t \subseteq S
       /\ job' \in [S -> Contents]
  /\ clean' \in BOOLEAN
  /\ UNCHANGED store

Finish(s, contents) ==
  /\ InWork(s)
  /\ store' = [store EXCEPT ![s] = contents]
  /\ job' = [t \in Pending \ {s} |-> job[t]]

Commit == \E s \in Pending : Finish(s, job[s]) /\ UNCHANGED clean

Fail == Pending # {} /\ clean' = FALSE /\ UNCHANGED <<store, job>>

Spoil ==
  /\ ~clean
  /\ \E s \in Pending, contents \in Contents : Finish(s, contents)
  /\ UNCHANGED clean

Crash ==
  /\ Pending # {} /\ job' = << >> /\ clean' = FALSE
  /\ \E s \in Pending, contents \in Contents :
       InWork(s) /\ store' = [store EXCEPT ![s] = contents]

StoreNext == Begin \/ Commit \/ Fail \/ Spoil \/ Crash

StoreSpec == StoreInit /\ [][StoreNext]_storeVars
=============================================================================
