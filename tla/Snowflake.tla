----------------------------- MODULE Snowflake -----------------------------
(***************************************************************************)
(* The ID generator of a gateway process (pkg/utils/id.go).  Connection,   *)
(* message, session and command IDs all come from one generator, which its *)
(* callers share under a mutex.  An ID packs the millisecond, the node and *)
(* a sequence number.  The millisecond is read from the wall clock, which  *)
(* an administrator or a time service may set back; what the generator     *)
(* remembers does not survive a restart of the process.                    *)
(*                                                                         *)
(* Generate holds the mutex from beginning to end, so it is one step,      *)
(* unless the sequence numbers of a millisecond are used up: then the      *)
(* caller waits, mutex in hand, for the clock.                             *)
(***************************************************************************)
EXTENDS Naturals, Sequences

CONSTANTS
  SeqSize,      \* sequence numbers per millisecond (4096)
  NodeSize,     \* nodes that IDs tell apart (1024)
  NodeID,       \* GenerateNodeID(): 16 bits of a hash of the MAC address
  Epoch,        \* first millisecond of 2024
  MaxMillis,    \* bound: IDs are asked for up to this millisecond
  MaxSetBacks,  \* bound: how often the clock is set back
  MaxRestarts   \* bound: how often the process starts again

ASSUME SnowflakeAssumption ==
  /\ SeqSize \in Nat \ {0}
  /\ NodeSize \in Nat \ {0}
  /\ NodeID \in Nat
  /\ Epoch \in Nat \ {0}
  /\ MaxMillis \in Nat
  /\ MaxSetBacks \in Nat
  /\ MaxRestarts \in Nat

VARIABLES
  millis,    \* the wall clock in milliseconds
  idgen,     \* lastTime and sequence of the generator
  idWaits,   \* does a caller wait in waitNextMillis?
  issued,    \* history: the IDs in the order they were issued, with the run
             \* of the process that issued them
  setBacks,  \* history: how often the clock was set back
  idRun      \* history: the current run of the process

idVars == <<millis, idgen, idWaits, issued, setBacks, idRun>>

IssuedID == [id : Nat, run : Nat]

-----------------------------------------------------------------------------
\* NewSnowflakeGenerator.
NewGenerator == [last |-> 0, seq |-> 0]

IdInit ==
  /\ millis = Epoch
  /\ idgen = NewGenerator
  /\ idWaits = FALSE
  /\ issued = <<>>
  /\ setBacks = 0
  /\ idRun = 0

\* The fields of an ID do not overlap: only ten bits of the node are used.
Pack(time, seq) ==
  (time - Epoch) * (NodeSize * SeqSize) + (NodeID % NodeSize) * SeqSize + seq

Issue(time, seq) ==
  /\ idgen' = [last |-> time, seq |-> seq]
  /\ issued' = Append(issued, [id |-> Pack(time, seq), run |-> idRun])

\* Mutant: a clock that was set back is believed.
ReadClockUnchecked == millis

\* The clock as Generate sees it: never before the last ID's.
ReadClock == IF millis < idgen.last THEN idgen.last ELSE millis

\* Generate, while the millisecond has sequence numbers left.
Generate ==
  /\ ~idWaits
  /\ idgen.last < MaxMillis
  /\ LET time == ReadClock
         seq  == IF time = idgen.last THEN (idgen.seq + 1) % SeqSize ELSE 0
     IN \/ /\ time # idgen.last \/ seq # 0
           /\ Issue(time, seq)
           /\ UNCHANGED idWaits
        \/ /\ time = idgen.last /\ seq = 0
           /\ idgen' = [idgen EXCEPT !.seq = 0]
           /\ idWaits' = TRUE
           /\ UNCHANGED issued
  /\ UNCHANGED <<millis, setBacks, idRun>>

\* Mutant: the loop of waitNextMillis does not read the clock again.
GenerateWakesStale ==
  /\ idWaits
  /\ idgen.last > idgen.last
  /\ Issue(millis, 0)
  /\ idWaits' = FALSE
  /\ UNCHANGED <<millis, setBacks, idRun>>

\* waitNextMillis returns, and Generate with it.
GenerateWakes ==
  /\ idWaits
  /\ millis > idgen.last
  /\ Issue(millis, idgen.seq)
  /\ idWaits' = FALSE
  /\ UNCHANGED <<millis, setBacks, idRun>>

-----------------------------------------------------------------------------
(* The clock and the process *)

ClockTicks ==
  /\ millis <= MaxMillis
  /\ millis' = millis + 1
  /\ UNCHANGED <<idgen, idWaits, issued, setBacks, idRun>>

ClockSetBack ==
  /\ setBacks < MaxSetBacks
  /\ millis > Epoch
  /\ \E t \in Epoch .. (millis - 1) : millis' = t
  /\ setBacks' = setBacks + 1
  /\ UNCHANGED <<idgen, idWaits, issued, idRun>>

\* A process that ends and starts again does not do so within the
\* millisecond of its last ID.
Restart ==
  /\ idRun < MaxRestarts
  /\ millis <= MaxMillis
  /\ millis' = millis + 1
  /\ idgen' = NewGenerator
  /\ idWaits' = FALSE
  /\ idRun' = idRun + 1
  /\ UNCHANGED <<issued, setBacks>>

IdNext ==
  Generate \/ GenerateWakes \/ ClockTicks \/ ClockSetBack \/ Restart

IdSpec == IdInit /\ [][IdNext]_idVars

\* The clock runs, and a caller that sleeps wakes up.
IdFairness == WF_idVars(ClockTicks) /\ WF_idVars(GenerateWakes)

-----------------------------------------------------------------------------
(* Properties *)

\* Type invariant.
IdTypeOK ==
  /\ millis \in Nat
  /\ idgen \in [last : Nat, seq : 0 .. SeqSize - 1]
  /\ idWaits \in BOOLEAN
  /\ issued \in Seq(IssuedID)
  /\ setBacks \in Nat
  /\ idRun \in Nat

\* No ID is issued twice, and each is larger than the ones before it: within
\* one run of the process whatever the clock does, and across restarts as
\* long as the clock was never set back (SnowflakeGenerator.Generate, which
\* command IDs and with them the duplicate filter of the piles rely on).
IdsIncrease ==
  \A i, j \in DOMAIN issued :
    /\ i < j
    /\ issued[i].run = issued[j].run \/ setBacks = 0
    => issued[i].id < issued[j].id

\* A caller that waits for the next millisecond, and with it every other
\* caller of the generator, which wait for its mutex, gets an ID at last,
\* also when the clock is set back while it sleeps (waitNextMillis).
WaitEnds == idWaits ~> ~idWaits
=============================================================================
