------------------------ MODULE ReleaseFlusherProofs ------------------------
(***************************************************************************)
(* Proofs about ReleaseFlusher for every number of groups, sequences and   *)
(* lifetimes and every timing: the types, the soundness of what the        *)
(* flusher believes and tells, and that it implements CumulativeLink.      *)
(***************************************************************************)
EXTENDS ReleaseFlusher, TLAPS

-----------------------------------------------------------------------------
(* Type correctness                                                        *)

(* A sequence recorded for a group keeps the tables of sequences.          *)
LEMMA TableUpdate ==
  ASSUME NEW T \in [Groups -> 0 .. MaxSequence], NEW g,
         NEW n \in 0 .. MaxSequence
  PROVE  [T EXCEPT ![g] = Larger(T[g], n)] \in [Groups -> 0 .. MaxSequence]
<1>1. g \in Groups => Larger(T[g], n) \in 0 .. MaxSequence
  BY DEF Larger
<1>2. QED
  BY <1>1

(* What timings() returns: a positive interval and a backoff that is no    *)
(* shorter.                                                                *)
LEMMA TimingsType ==
  ASSUME NEW t \in Timings
  PROVE  /\ t.flushInterval \in Nat \ {0} /\ t.maxBackoff \in Nat
         /\ t.flushInterval <= t.maxBackoff
BY TimingAssumption DEF Timings, Larger

(* Run's delay and its timer are numbers of ticks.                         *)
LEMMA DelayType ==
  ASSUME TypeOK
  PROVE  delay \in Nat /\ timer \in Nat /\ timer <= delay
<1>1. PICK t \in Timings : delay \in t.flushInterval .. t.maxBackoff
  BY DEF TypeOK
<1>2. delay \in Nat
  BY <1>1, TimingsType
<1>3. QED
  BY <1>2 DEF TypeOK

(* A new delay obeys the configuration of that moment, whichever the delay *)
(* before it was chosen under, and after a failure only the longest backoff*)
(* makes it shorter.                                                       *)
LEMMA NextDelayBounds ==
  ASSUME timings \in Timings, NEW d \in Nat, NEW isFailed \in BOOLEAN
  PROVE  /\ NextDelay(d, isFailed) \in timings.flushInterval .. timings.maxBackoff
         /\ isFailed => \/ NextDelay(d, isFailed) >= d
                        \/ NextDelay(d, isFailed) = timings.maxBackoff
<1>0. /\ timings.flushInterval \in Nat \ {0} /\ timings.maxBackoff \in Nat
      /\ timings.flushInterval <= timings.maxBackoff
  BY TimingsType
<1>1. CASE isFailed
  BY <1>0, <1>1 DEF NextDelay, Larger
<1>2. CASE ~isFailed
  BY <1>0, <1>2 DEF NextDelay
<1>3. QED
  BY <1>1, <1>2

(* MarkDirty keeps the types: it records a sequence that exists.           *)
LEMMA MarkDirtyTypeOK ==
  ASSUME TypeOK, NEW g \in Groups, NEW n \in Sequences, MarkDirty(g, n)
  PROVE  TypeOK'
<1>1. latest' \in [Groups -> 0 .. MaxSequence]
  <2>1. n \in 0 .. MaxSequence
    BY SequenceAssumption DEF Sequences
  <2>2. latest \in [Groups -> 0 .. MaxSequence]
    BY DEF TypeOK
  <2>3. latest' = latest \/ latest' = [latest EXCEPT ![g] = Larger(latest[g], n)]
    BY DEF MarkDirty
  <2>4. QED
    BY <2>1, <2>2, <2>3, TableUpdate
<1>2. ticket' \in [Groups -> [Sequences -> {"none", "waiting", "done"}]]
  <2>1. ticket \in [Groups -> [Sequences -> {"none", "waiting", "done"}]]
    BY DEF TypeOK
  <2>2. PICK t \in {"waiting", "done"} : ticket' = [ticket EXCEPT ![g][n] = t]
    BY DEF MarkDirty
  <2>3. [ticket[g] EXCEPT ![n] = t]
          \in [Sequences -> {"none", "waiting", "done"}]
    BY <2>1
  <2>4. QED
    BY <2>1, <2>2, <2>3
<1>3. QED
  BY <1>1, <1>2 DEF MarkDirty, TypeOK, runVars, flushVars, homeVars

(* Sending one group keeps the types, whatever Home replies (flush).       *)
LEMMA SendTypeOK ==
  ASSUME TypeOK, NEW g \in Groups, SendAcked(g) \/ SendFailed(g)
  PROVE  TypeOK'
<1>1. batch[g] \in Sequences /\ batch[g] \in 0 .. MaxSequence
  BY SequenceAssumption DEF SendAcked, SendFailed, TypeOK, Sequences
<1>2. batch' \in [Groups -> 0 .. MaxSequence]
  BY SequenceAssumption DEF SendAcked, SendFailed, TypeOK
<1>3. CASE SendAcked(g)
  <2>1. homeSequence' \in [Groups -> 0 .. MaxSequence]
    BY <1>1, <1>3, TableUpdate DEF SendAcked, HomeRecord, TypeOK
  <2>2. acked' \in [Groups -> 0 .. MaxSequence]
    BY <1>1, <1>3 DEF SendAcked, Acknowledge, TypeOK
  <2>3. ticket' \in [Groups -> [Sequences -> {"none", "waiting", "done"}]]
    <3>1. CASE batch[g] > acked[g]
      <4>1. [m \in Sequences |->
               IF m <= batch[g] /\ ticket[g][m] = "waiting" THEN "done"
                                                            ELSE ticket[g][m]]
              \in [Sequences -> {"none", "waiting", "done"}]
        BY DEF TypeOK
      <4>2. QED
        BY <1>3, <3>1, <4>1 DEF SendAcked, Acknowledge, TypeOK
    <3>2. CASE ~(batch[g] > acked[g])
      BY <1>3, <3>2 DEF SendAcked, Acknowledge, TypeOK
    <3>3. QED
      BY <3>1, <3>2
  <2>4. QED
    BY <1>2, <1>3, <2>1, <2>2, <2>3 DEF SendAcked, TypeOK, flushVars
<1>4. CASE SendFailed(g)
  <2>1. wire' \subseteq Groups \X Sequences
    BY <1>1, <1>4 DEF SendFailed, TypeOK
  <2>2. QED
    BY <1>2, <1>4, <2>1 DEF SendFailed, TypeOK, markVars, flushVars
<1>5. QED
  BY <1>3, <1>4

(* The steps of Run keep the types; delay and timer stay within timings(). *)
LEMMA RunTypeOK ==
  ASSUME TypeOK, Start \/ Cancel \/ Stop \/ WakeUp \/ Tick \/ FlushStart
                   \/ FlushEnd
  PROVE  TypeOK'
<1> USE DEF TypeOK, markVars, flushVars, homeVars
<1>1. CASE Start
  <2>1. /\ lifetimes' \in 0 .. MaxLifetimes
        /\ delay' \in timings.flushInterval .. timings.maxBackoff
        /\ timer' \in 0 .. delay'
    BY <1>1, TimingsType, LifetimeAssumption DEF Start
  <2>2. /\ run' \in {"stopped", "select", "sending"}
        /\ sender' \in BOOLEAN /\ cancelled' \in BOOLEAN
        /\ backingOff' \in BOOLEAN /\ wake' \in BOOLEAN
    BY <1>1 DEF Start
  <2>3. QED
    BY <1>1, <2>1, <2>2 DEF Start
<1>2. CASE Cancel \/ Stop
  <2>1. run' \in {"stopped", "select", "sending"} /\ cancelled' \in BOOLEAN
    BY <1>2 DEF Cancel, Stop
  <2>2. UNCHANGED <<markVars, sender, batch, failed, delay, timer, backingOff,
                    wake, force, flushVars, lifetimes, homeVars>>
    BY <1>2 DEF Cancel, Stop
  <2>3. QED
    BY <2>1, <2>2
<1>3. CASE WakeUp
  <2>1. timer' \in 0 .. delay' /\ wake' \in BOOLEAN
    <3>1. wake' \in BOOLEAN /\ (timer' = timer \/ timer' = 0)
      BY <1>3, Zenon DEF WakeUp
    <3>2. delay' = delay
      BY <1>3 DEF WakeUp
    <3>3. QED
      BY <3>1, <3>2, DelayType
  <2>2. QED
    BY <1>3, <2>1 DEF WakeUp
<1>4. CASE Tick
  BY <1>4, DelayType DEF Tick
<1>5. CASE FlushStart
  <2>1. batch' \in [Groups -> 0 .. MaxSequence]
    BY <1>5, SequenceAssumption DEF FlushStart
  <2>2. QED
    BY <1>5, <2>1 DEF FlushStart
<1>6. CASE FlushEnd
  <2>1. delay' \in timings.flushInterval .. timings.maxBackoff
    BY <1>6, DelayType, NextDelayBounds DEF FlushEnd
  <2>2. timer' \in 0 .. delay'
    BY <1>6, <2>1, TimingsType DEF FlushEnd
  <2>3. QED
    BY <1>6, <2>1, <2>2 DEF FlushEnd
<1>7. QED
  BY <1>1, <1>2, <1>3, <1>4, <1>5, <1>6

(* Flush, a new configuration and a late frame keep the types.             *)
LEMMA OtherTypeOK ==
  ASSUME TypeOK, \/ Flush \/ FlushPoll \/ FlushExpire
                 \/ \E new \in Timings : Configure(new)
                 \/ \E f \in wire : LateArrival(f)
  PROVE  TypeOK'
<1>1. CASE Flush
  BY <1>1 DEF Flush, TypeOK, markVars, runVars, homeVars
<1>2. CASE FlushPoll \/ FlushExpire
  BY <1>2 DEF FlushPoll, FlushExpire, TypeOK, markVars, runVars, homeVars
<1>3. ASSUME NEW f \in wire, LateArrival(f)
      PROVE  TypeOK'
  <2>1. f[2] \in 0 .. MaxSequence
    BY SequenceAssumption DEF TypeOK, Sequences
  <2>2. homeSequence' \in [Groups -> 0 .. MaxSequence]
    BY <1>3, <2>1, TableUpdate DEF LateArrival, HomeRecord, TypeOK
  <2>3. QED
    BY <1>3, <2>2 DEF LateArrival, TypeOK, markVars, runVars, flushVars
<1>4. ASSUME NEW new \in Timings, Configure(new)
      PROVE  TypeOK'
  BY <1>4 DEF Configure, TypeOK, markVars, runVars, flushVars
<1>5. QED
  BY <1>1, <1>2, <1>3, <1>4

(* The types, and the bounds of Run's delay (timings, nextDelay).          *)
THEOREM FlusherTypes == Spec => []TypeOK
<1>1. Init => TypeOK
  <2> SUFFICES ASSUME Init PROVE TypeOK
    OBVIOUS
  <2>1. Nothing \in [Groups -> 0 .. MaxSequence]
    BY SequenceAssumption DEF Nothing
  <2>2. ticket \in [Groups -> [Sequences -> {"none", "waiting", "done"}]]
    BY DEF Init
  <2>3. QED
    <3>1. /\ timings \in Timings
          /\ delay \in timings.flushInterval .. timings.maxBackoff
          /\ timer \in 0 .. delay
          /\ lifetimes \in 0 .. MaxLifetimes
      BY TimingsType, LifetimeAssumption DEF Init
    <3>2. QED
      BY <2>1, <2>2, <3>1 DEF Init, TypeOK
<1>2. TypeOK /\ [Next]_vars => TypeOK'
  <2> SUFFICES ASSUME TypeOK, [Next]_vars PROVE TypeOK'
    OBVIOUS
  <2>1. CASE UNCHANGED vars
    BY <2>1 DEF TypeOK, vars, markVars, runVars, flushVars, homeVars
  <2>2. QED
    BY <2>1, MarkDirtyTypeOK, SendTypeOK, RunTypeOK, OtherTypeOK
       DEF Next, RunStep
<1>3. QED
  BY <1>1, <1>2, PTL DEF Spec

-----------------------------------------------------------------------------
(* Safety                                                                  *)

(* What is on its way to Home, or awaited by Flush, was marked dirty.      *)
WireInv ==
  /\ \A g \in Groups : batch[g] <= latest[g]
  /\ \A f \in wire : f[2] <= latest[f[1]]
  /\ \A g \in Groups : dirtyAtFlush[g] <= latest[g]

FlusherInv == AckSound /\ TicketSound /\ FlushComplete /\ WireInv

(* The types, entry by entry.                                              *)
LEMMA Entries ==
  ASSUME TypeOK
  PROVE  /\ \A g \in Groups : /\ latest[g] \in Nat
                              /\ acked[g] \in Nat
                              /\ batch[g] \in Nat
                              /\ dirtyAtFlush[g] \in Nat
                              /\ homeSequence[g] \in Nat
         /\ \A f \in wire : f[1] \in Groups /\ f[2] \in Nat
         /\ \A n \in Sequences : n \in Nat
BY SequenceAssumption DEF TypeOK, Sequences

(* Home's record of one group grows to n, if n is larger, and no other     *)
(* record changes.                                                         *)
LEMMA HomeRecordResult ==
  ASSUME TypeOK, NEW g \in Groups, NEW n \in Nat, HomeRecord(g, n)
  PROVE  /\ homeSequence[g] <= homeSequence'[g]
         /\ n <= homeSequence'[g]
         /\ homeSequence'[g] = n \/ homeSequence'[g] = homeSequence[g]
         /\ \A h \in Groups : h # g => homeSequence'[h] = homeSequence[h]
<1>1. homeSequence \in [Groups -> 0 .. MaxSequence]
  BY DEF TypeOK
<1>2. /\ homeSequence'[g] = Larger(homeSequence[g], n)
      /\ \A h \in Groups : h # g => homeSequence'[h] = homeSequence[h]
  BY <1>1 DEF HomeRecord
<1>3. homeSequence[g] \in Nat
  BY Entries
<1>4. QED
  BY <1>2, <1>3 DEF Larger

(* MarkDirty only raises Latest and adds a ticket above Acked.             *)
LEMMA MarkDirtyKeeps ==
  ASSUME TypeOK, FlusherInv, NEW g \in Groups, NEW n \in Sequences,
         MarkDirty(g, n)
  PROVE  FlusherInv'
<1>1. UNCHANGED <<acked, batch, flush, dirtyAtFlush, homeSequence, wire>>
  BY DEF MarkDirty, runVars, flushVars, homeVars
<1>2. \A h \in Groups : latest[h] <= latest'[h]
  <2>1. latest' = latest \/ latest' = [latest EXCEPT ![g] = Larger(latest[g], n)]
    BY DEF MarkDirty
  <2>2. latest \in [Groups -> 0 .. MaxSequence] /\ n \in Nat
    BY Entries DEF TypeOK
  <2>3. Larger(latest[g], n) >= latest[g]
    BY <2>2, Entries DEF Larger
  <2>4. QED
    BY <2>1, <2>2, <2>3, Entries
<1>3. n > acked[g] => n <= latest'[g]
  <2>1. n > acked[g] => latest' = [latest EXCEPT ![g] = Larger(latest[g], n)]
    BY Entries DEF MarkDirty
  <2>2. latest \in [Groups -> 0 .. MaxSequence]
    BY DEF TypeOK
  <2>3. n <= Larger(latest[g], n)
    BY Entries DEF Larger
  <2>4. QED
    BY <2>1, <2>2, <2>3
<1>4. \A h \in Groups : latest'[h] \in Nat
  <2>1. TypeOK'
    BY MarkDirtyTypeOK
  <2>2. QED
    BY <2>1, SequenceAssumption DEF TypeOK
<1>5. /\ ticket'[g][n] = IF n <= acked[g] THEN "done" ELSE "waiting"
      /\ \A h \in Groups, m \in Sequences :
           h # g \/ m # n => ticket'[h][m] = ticket[h][m]
  BY DEF MarkDirty, TypeOK
<1>6. AckSound'
  BY <1>1, <1>2, <1>4, Entries DEF FlusherInv, AckSound
<1>7. TicketSound'
  <2> SUFFICES ASSUME NEW h \in Groups, NEW m \in Sequences
               PROVE  /\ ticket'[h][m] = "done" => m <= homeSequence[h]
                      /\ ticket'[h][m] = "waiting" =>
                           acked[h] < m /\ m <= latest'[h]
    BY <1>1 DEF TicketSound
  <2>1. CASE h = g /\ m = n
    <3>1. n <= acked[g] => n <= homeSequence[g]
      BY Entries DEF FlusherInv, AckSound
    <3>2. QED
      BY <2>1, <3>1, <1>3, <1>5, Entries
  <2>2. CASE h # g \/ m # n
    BY <2>2, <1>2, <1>4, <1>5, Entries DEF FlusherInv, TicketSound
  <2>3. QED
    BY <2>1, <2>2
<1>8. WireInv'
  BY <1>1, <1>2, <1>4, Entries DEF FlusherInv, WireInv
<1>9. QED
  BY <1>1, <1>6, <1>7, <1>8 DEF FlusherInv, FlushComplete

(* A reply of Home acknowledges what was sent, and nothing above it.       *)
LEMMA SendAckedKeeps ==
  ASSUME TypeOK, FlusherInv, NEW g \in Groups, SendAcked(g)
  PROVE  FlusherInv'
<1>1. UNCHANGED <<latest, flush, dirtyAtFlush, wire>>
  BY DEF SendAcked, flushVars
<1>2. /\ homeSequence[g] <= homeSequence'[g]
      /\ batch[g] <= homeSequence'[g]
      /\ homeSequence'[g] = batch[g] \/ homeSequence'[g] = homeSequence[g]
      /\ \A h \in Groups : h # g => homeSequence'[h] = homeSequence[h]
  BY HomeRecordResult, Entries DEF SendAcked
<1>3. /\ batch'[g] = 0
      /\ \A h \in Groups : h # g => batch'[h] = batch[h]
  BY DEF SendAcked, TypeOK
<1>4. /\ acked'[g] = IF batch[g] > acked[g] THEN batch[g] ELSE acked[g]
      /\ \A h \in Groups : h # g => acked'[h] = acked[h]
  BY DEF SendAcked, Acknowledge, TypeOK
<1>5. /\ \A m \in Sequences :
           ticket'[g][m] = IF /\ batch[g] > acked[g]
                              /\ m <= batch[g]
                              /\ ticket[g][m] = "waiting"
                             THEN "done" ELSE ticket[g][m]
      /\ \A h \in Groups : h # g => ticket'[h] = ticket[h]
  BY DEF SendAcked, Acknowledge, TypeOK
<1>6. AckSound'
  <2> SUFFICES ASSUME NEW h \in Groups
               PROVE  acked'[h] <= homeSequence'[h] /\ homeSequence'[h] <= latest[h]
    BY <1>1 DEF AckSound
  <2>1. /\ acked[h] <= homeSequence[h] /\ homeSequence[h] <= latest[h]
        /\ batch[h] <= latest[h]
    BY DEF FlusherInv, AckSound, WireInv
  <2>2. QED
    BY <2>1, <1>2, <1>4, Entries
<1>7. TicketSound'
  <2> SUFFICES ASSUME NEW h \in Groups, NEW m \in Sequences
               PROVE  /\ ticket'[h][m] = "done" => m <= homeSequence'[h]
                      /\ ticket'[h][m] = "waiting" =>
                           acked'[h] < m /\ m <= latest[h]
    BY <1>1 DEF TicketSound
  <2>1. /\ ticket[h][m] = "done" => m <= homeSequence[h]
        /\ ticket[h][m] = "waiting" => acked[h] < m /\ m <= latest[h]
    BY DEF FlusherInv, TicketSound
  <2>2. CASE h = g
    BY <2>1, <2>2, <1>2, <1>4, <1>5, Entries
  <2>3. CASE h # g
    BY <2>1, <2>3, <1>2, <1>4, <1>5
  <2>4. QED
    BY <2>2, <2>3
<1>8. FlushComplete'
  BY <1>1, <1>2, Entries DEF FlusherInv, FlushComplete
<1>9. WireInv'
  BY <1>1, <1>3, Entries DEF FlusherInv, WireInv
<1>10. QED
  BY <1>6, <1>7, <1>8, <1>9 DEF FlusherInv

(* A late frame can only tell Home what was marked before.                 *)
LEMMA LateArrivalKeeps ==
  ASSUME TypeOK, FlusherInv, NEW f \in wire, LateArrival(f)
  PROVE  FlusherInv'
<1>1. /\ UNCHANGED <<latest, acked, ticket, batch, flush, dirtyAtFlush>>
      /\ wire' \subseteq wire
  BY DEF LateArrival, markVars, runVars, flushVars
<1>2. f[1] \in Groups /\ f[2] \in Nat /\ f[2] <= latest[f[1]]
  BY Entries DEF FlusherInv, WireInv
<1>3. \A h \in Groups : /\ homeSequence[h] <= homeSequence'[h]
                        /\ homeSequence'[h] <= latest[h]
                        /\ homeSequence'[h] \in Nat
  BY <1>2, HomeRecordResult, Entries DEF LateArrival, FlusherInv, AckSound
<1>4. AckSound' /\ TicketSound' /\ FlushComplete'
  BY <1>1, <1>3, Entries DEF FlusherInv, AckSound, TicketSound, FlushComplete
<1>5. WireInv'
  BY <1>1 DEF FlusherInv, WireInv
<1>6. QED
  BY <1>4, <1>5 DEF FlusherInv

(* The variables the safety properties speak of.                           *)
dataVars == <<latest, acked, ticket, batch, flush, dirtyAtFlush, homeSequence,
              wire>>

(* Every step keeps the invariant.                                         *)
LEMMA FlusherStep == TypeOK /\ FlusherInv /\ [Next]_vars => FlusherInv'
<1> SUFFICES ASSUME TypeOK, FlusherInv, [Next]_vars PROVE FlusherInv'
  OBVIOUS
<1>1. ASSUME UNCHANGED dataVars
      PROVE  FlusherInv'
  BY <1>1 DEF dataVars, FlusherInv, AckSound, TicketSound, FlushComplete,
              WireInv
<1>2. CASE \/ Start \/ Cancel \/ Stop \/ WakeUp \/ Tick \/ FlushEnd
           \/ \E new \in Timings : Configure(new)
           \/ UNCHANGED vars
  <2>1. UNCHANGED dataVars
    BY <1>2 DEF Configure, Start, Cancel, Stop, WakeUp, Tick, FlushEnd, vars, dataVars,
                markVars, runVars, flushVars, homeVars
  <2>2. QED
    BY <1>1, <2>1
<1>3. CASE FlushStart
  <2>1. /\ UNCHANGED <<latest, acked, ticket, flush, dirtyAtFlush,
                       homeSequence, wire>>
        /\ \A g \in Groups : batch'[g] = latest[g] \/ batch'[g] = 0
    BY <1>3 DEF FlushStart, markVars, flushVars, homeVars
  <2>2. WireInv'
    BY <2>1, Entries DEF FlusherInv, WireInv
  <2>3. QED
    BY <2>1, <2>2 DEF FlusherInv, AckSound, TicketSound, FlushComplete
<1>4. ASSUME NEW g \in Groups, SendFailed(g)
      PROVE  FlusherInv'
  <2>1. /\ UNCHANGED <<latest, acked, ticket, flush, dirtyAtFlush,
                       homeSequence>>
        /\ \A h \in Groups : batch'[h] = batch[h] \/ batch'[h] = 0
        /\ \A f \in wire' : f \in wire \/ f = <<g, batch[g]>>
    BY <1>4 DEF SendFailed, TypeOK, markVars, flushVars
  <2>2. WireInv'
    BY <2>1, Entries DEF FlusherInv, WireInv
  <2>3. QED
    BY <2>1, <2>2 DEF FlusherInv, AckSound, TicketSound, FlushComplete
<1>5. CASE Flush
  <2>1. /\ UNCHANGED <<latest, acked, ticket, batch, homeSequence, wire>>
        /\ flush' = "polling" /\ dirtyAtFlush' = latest
    BY <1>5 DEF Flush, markVars, runVars, homeVars
  <2>2. QED
    BY <2>1, Entries
       DEF FlusherInv, AckSound, TicketSound, FlushComplete, WireInv
<1>6. CASE FlushPoll
  <2>1. UNCHANGED <<latest, acked, ticket, batch, dirtyAtFlush, homeSequence,
                    wire>>
    BY <1>6 DEF FlushPoll, markVars, runVars, homeVars
  <2>2. \A g \in Groups : dirtyAtFlush[g] <= homeSequence[g]
    BY <1>6, Entries DEF FlushPoll, Dirty, FlusherInv, AckSound, WireInv
  <2>3. QED
    BY <2>1, <2>2 DEF FlusherInv, AckSound, TicketSound, FlushComplete, WireInv
<1>7. CASE FlushExpire
  <2>1. /\ UNCHANGED <<latest, acked, ticket, batch, dirtyAtFlush,
                       homeSequence, wire>>
        /\ flush' = "expired"
    BY <1>7 DEF FlushExpire, markVars, runVars, homeVars
  <2>2. QED
    BY <2>1 DEF FlusherInv, AckSound, TicketSound, FlushComplete, WireInv
<1>8. QED
  BY <1>2, <1>3, <1>4, <1>5, <1>6, <1>7, MarkDirtyKeeps, SendAckedKeeps,
     LateArrivalKeeps DEF Next, RunStep

(* The invariant of the flusher holds from its start (flush, MarkDirty).   *)
LEMMA FlusherCorrect == Spec => []FlusherInv
<1>1. Init => FlusherInv
  BY DEF Init, FlusherInv, AckSound, TicketSound, FlushComplete, WireInv,
         Nothing
<1>2. QED
  BY <1>1, FlusherStep, FlusherTypes, PTL DEF Spec

(* The flusher believes acknowledged only what Home knows, and Home is     *)
(* told only what was released (flush, MarkDirty).                         *)
THEOREM AcknowledgementsSound == Spec => []AckSound
<1>1. FlusherInv => AckSound
  BY DEF FlusherInv
<1>2. QED
  BY <1>1, FlusherCorrect, PTL

(* A ticket that completed is a release that Home has recorded             *)
(* (ReleaseTicket.complete, MarkDirty, flush).                             *)
THEOREM TicketsSound == Spec => []TicketSound
<1>1. FlusherInv => TicketSound
  BY DEF FlusherInv
<1>2. QED
  BY <1>1, FlusherCorrect, PTL

(* A Flush that returned nil left nothing behind (Flush, idle).            *)
THEOREM FlushIsComplete == Spec => []FlushComplete
<1>1. FlusherInv => FlushComplete
  BY DEF FlusherInv
<1>2. QED
  BY <1>1, FlusherCorrect, PTL

-----------------------------------------------------------------------------
(* Refinement                                                              *)

(* A record of Home that grows to a released sequence is a step of the     *)
(* link, or none.                                                          *)
LEMMA HomeRecordLinks ==
  ASSUME TypeOK, NEW g \in Groups, NEW n \in Nat, n <= latest[g],
         HomeRecord(g, n), UNCHANGED latest
  PROVE  Link!Record(g) \/ UNCHANGED <<latest, homeSequence>>
<1>1. homeSequence \in [Groups -> 0 .. MaxSequence]
  BY DEF TypeOK
<1>2. homeSequence' = [homeSequence EXCEPT ![g] = Larger(homeSequence[g], n)]
  BY DEF HomeRecord
<1>3. CASE homeSequence[g] < n
  <2>1. homeSequence' = [homeSequence EXCEPT ![g] = n]
    BY <1>2, <1>3 DEF Larger
  <2>2. homeSequence'[g] = n
    BY <1>1, <2>1
  <2>3. n \in homeSequence[g] + 1 .. latest[g]
    BY <1>3, Entries
  <2>4. QED
    BY <2>1, <2>2, <2>3 DEF Link!Record
<1>4. CASE ~(homeSequence[g] < n)
  BY <1>1, <1>2, <1>4 DEF Larger
<1>5. QED
  BY <1>3, <1>4

(* MarkDirty is a release, or no step of the link.                         *)
LEMMA MarkDirtyLinks ==
  ASSUME TypeOK, NEW g \in Groups, NEW n \in Sequences, MarkDirty(g, n)
  PROVE  Link!Release(g) \/ UNCHANGED <<latest, homeSequence>>
<1>1. /\ UNCHANGED homeSequence
      /\ latest' = latest \/ latest' = [latest EXCEPT ![g] = Larger(latest[g], n)]
  BY DEF MarkDirty, homeVars
<1>2. latest \in [Groups -> 0 .. MaxSequence] /\ latest[g] \in Nat /\ n \in Nat
  BY Entries DEF TypeOK
<1>3. CASE latest' = latest
  BY <1>1, <1>3
<1>4. CASE latest' = [latest EXCEPT ![g] = Larger(latest[g], n)]
  <2>1. CASE latest[g] < n
    <3>1. latest' = [latest EXCEPT ![g] = n] /\ latest'[g] = n
      BY <1>2, <1>4, <2>1 DEF Larger
    <3>2. QED
      BY <1>1, <1>2, <2>1, <3>1 DEF Link!Release
  <2>2. CASE ~(latest[g] < n)
    BY <1>1, <1>2, <1>4, <2>2 DEF Larger
  <2>3. QED
    BY <2>1, <2>2
<1>5. QED
  BY <1>1, <1>3, <1>4

(* The flusher implements the link the composition relies on: Home's       *)
(* record follows the released sequence, never ahead and never backwards,  *)
(* whatever is lost, late or repeated.                                     *)
THEOREM FlusherImplementsLink == Spec => LinkSpec
<1>1. Init => Link!Init
  BY DEF Init, Link!Init, Nothing
<1>2. TypeOK /\ FlusherInv /\ [Next]_vars
        => [Link!Next]_<<latest, homeSequence>>
  <2> SUFFICES ASSUME TypeOK, FlusherInv, [Next]_vars
               PROVE  Link!Next \/ UNCHANGED <<latest, homeSequence>>
    OBVIOUS
  <2>1. ASSUME NEW g \in Groups, NEW n \in Sequences, MarkDirty(g, n)
        PROVE  Link!Next \/ UNCHANGED <<latest, homeSequence>>
    BY <2>1, MarkDirtyLinks DEF Link!Next
  <2>2. ASSUME NEW g \in Groups, SendAcked(g)
        PROVE  Link!Next \/ UNCHANGED <<latest, homeSequence>>
    BY <2>2, HomeRecordLinks, Entries
       DEF SendAcked, FlusherInv, WireInv, Link!Next
  <2>3. ASSUME NEW f \in wire, LateArrival(f)
        PROVE  Link!Next \/ UNCHANGED <<latest, homeSequence>>
    <3>1. f[1] \in Groups /\ f[2] \in Nat /\ f[2] <= latest[f[1]]
      BY Entries DEF FlusherInv, WireInv
    <3>2. HomeRecord(f[1], f[2]) /\ UNCHANGED latest
      BY <2>3 DEF LateArrival, markVars
    <3>3. QED
      BY <3>1, <3>2, HomeRecordLinks DEF Link!Next
  <2>4. CASE \/ Start \/ Cancel \/ WakeUp \/ Tick \/ FlushStart \/ FlushEnd
             \/ Stop \/ Flush \/ FlushPoll \/ FlushExpire
             \/ \E new \in Timings : Configure(new)
             \/ \E g \in Groups : SendFailed(g)
             \/ UNCHANGED vars
    BY <2>4 DEF Configure, Start, Cancel, WakeUp, Tick, FlushStart, FlushEnd, Stop, Flush,
                FlushPoll, FlushExpire, SendFailed, vars, markVars, homeVars
  <2>5. QED
    BY <2>1, <2>2, <2>3, <2>4 DEF Next, RunStep
<1>3. QED
  BY <1>1, <1>2, FlusherTypes, FlusherCorrect, PTL DEF Spec, LinkSpec, Link!Spec

-----------------------------------------------------------------------------
(* The backoff                                                             *)

(* While Run backs off, neither a release nor a wake-up shortens the wait: *)
(* only Tick and a wake-up concern the timer of a Run that waits (Run).    *)
LEMMA WaitKept ==
  ASSUME TypeOK, [Next]_vars,
         backingOff, run = "select", run' = "select", backingOff'
  PROVE  timer' >= timer - 1
<1>1. timer' = timer \/ timer' = timer - 1
  <2>1. CASE RunStep
    BY <2>1 DEF RunStep, WakeUp, Tick, FlushStart, SendAcked, SendFailed,
                FlushEnd, Stop
  <2>2. CASE Start
    BY <2>2 DEF Start
  <2>3. CASE UNCHANGED runVars \/ Cancel \/ UNCHANGED vars
    BY <2>3 DEF runVars, Cancel, vars
  <2>4. QED
    BY <2>1, <2>2, <2>3
       DEF Next, MarkDirty, LateArrival, Configure, Flush, FlushPoll, FlushExpire
<1>2. QED
  BY <1>1, DelayType

(* Only FlushEnd brings Run back from sending, and it asks nextDelay.      *)
LEMMA DelayChosen ==
  ASSUME TypeOK, [Next]_vars, run = "sending", run' = "select", backingOff'
  PROVE  /\ timer' = delay'
         /\ delay' \in timings'.flushInterval .. timings'.maxBackoff
         /\ delay' >= delay \/ delay' = timings'.maxBackoff
<1>1. FlushEnd
  <2>1. CASE RunStep
    BY <2>1 DEF RunStep, WakeUp, Tick, FlushStart, SendAcked, SendFailed, Stop
  <2>2. CASE Start
    BY <2>2 DEF Start
  <2>3. CASE UNCHANGED runVars \/ Cancel \/ UNCHANGED vars
    BY <2>3 DEF runVars, Cancel, vars
  <2>4. QED
    BY <2>1, <2>2, <2>3
       DEF Next, MarkDirty, LateArrival, Configure, Flush, FlushPoll, FlushExpire
<1>2. /\ delay' = NextDelay(delay, failed) /\ timer' = delay' /\ failed
      /\ timings' = timings /\ timings \in Timings
  BY <1>1 DEF FlushEnd, homeVars, TypeOK
<1>3. QED
  BY <1>2, DelayType, NextDelayBounds

(* While Run backs off from Home no release and no wake-up makes it send   *)
(* earlier, and every backoff obeys the configuration it is chosen under   *)
(* (Run, nextDelay), for every set of configurations.                      *)
THEOREM BackoffIsHeld == Spec => BackoffHeld
BY WaitKept, DelayChosen, FlusherTypes, PTL DEF Spec, BackoffHeld
=============================================================================
