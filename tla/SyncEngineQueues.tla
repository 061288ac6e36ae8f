-------------------------- MODULE SyncEngineQueues --------------------------
(***************************************************************************)
(* AckInv is preserved when the session delivers a revision: as an item of *)
(* a stream, as a live event that is deferred, or as one that is handed to *)
(* the engine, from the connection or out of deferred_events.              *)
(***************************************************************************)
EXTENDS SyncEngineData

USE ConstantsAssumption
USE DEF server, user, cursor, inbound, tables, local, apply, process, wire, drain, aux

-----------------------------------------------------------------------------
\* Sequences in increasing order, and the sets of their elements.
LEMMA RangeEmpty == Range(<<>>) = {} /\ Increasing(<<>>)
  BY DEF Range, Increasing

LEMMA RangeAppend ==
    ASSUME NEW s \in Seq(Nat), NEW e \in Nat PROVE Range(Append(s, e)) = Range(s) \cup {e}
  <1>1. /\ DOMAIN s = 1..Len(s) /\ DOMAIN Append(s, e) = 1..(Len(s) + 1) /\ Len(s) \in Nat
        /\ \A i \in 1..Len(s) : Append(s, e)[i] = s[i]
        /\ Append(s, e)[Len(s) + 1] = e
    OBVIOUS
  <1>2. \A i \in 1..(Len(s) + 1) : i \in 1..Len(s) \/ i = Len(s) + 1 BY <1>1
  <1>3. 1..Len(s) \subseteq 1..(Len(s) + 1) /\ Len(s) + 1 \in 1..(Len(s) + 1) BY <1>1
  <1> QED BY <1>1, <1>2, <1>3, ZenonT(30) DEF Range

LEMMA RangeTail ==
    ASSUME NEW s \in Seq(Nat), s # <<>>
    PROVE  Range(s) = {Head(s)} \cup Range(Tail(s)) /\ Head(s) \in Range(s)
  <1>1. /\ DOMAIN s = 1..Len(s) /\ Len(s) \in Nat /\ Len(s) >= 1 /\ Head(s) = s[1]
        /\ DOMAIN Tail(s) = 1..(Len(s) - 1)
        /\ \A i \in 1..(Len(s) - 1) : Tail(s)[i] = s[i + 1]
    OBVIOUS
  <1>2. \A i \in 1..Len(s) : i = 1 \/ (i - 1 \in 1..(Len(s) - 1) /\ (i - 1) + 1 = i) BY <1>1
  <1>3. \A i \in 1..(Len(s) - 1) : i + 1 \in 1..Len(s) BY <1>1
  <1>4. 1 \in 1..Len(s) BY <1>1
  <1>5. Range(s) \subseteq {Head(s)} \cup Range(Tail(s))
    <2> SUFFICES ASSUME NEW e \in Range(s) PROVE e \in {Head(s)} \cup Range(Tail(s))
      OBVIOUS
    <2> PICK i \in 1..Len(s) : e = s[i] BY <1>1 DEF Range
    <2>1. CASE i = 1 BY <1>1, <2>1, Zenon
    <2>2. CASE i # 1
      <3>1. i - 1 \in 1..(Len(s) - 1) /\ s[i] = Tail(s)[i - 1] BY <1>1, <1>2, <2>2
      <3> QED BY <1>1, <3>1, Zenon DEF Range
    <2> QED BY <2>1, <2>2
  <1>6. Range(Tail(s)) \subseteq Range(s)
    <2> SUFFICES ASSUME NEW e \in Range(Tail(s)) PROVE e \in Range(s)
      OBVIOUS
    <2> PICK i \in 1..(Len(s) - 1) : e = Tail(s)[i] BY <1>1 DEF Range
    <2>1. i + 1 \in DOMAIN s /\ e = s[i + 1] BY <1>1, <1>3
    <2> QED BY <2>1, Zenon DEF Range
  <1>7. Head(s) \in Range(s) BY <1>1, <1>4, Zenon DEF Range
  <1> QED BY <1>5, <1>6, <1>7

LEMMA IncreasingTail ==
    ASSUME NEW s \in Seq(Nat), s # <<>>, Increasing(s)
    PROVE  Increasing(Tail(s)) /\ \A e \in Range(s) : Head(s) <= e
  <1>1. /\ DOMAIN s = 1..Len(s) /\ Len(s) \in Nat /\ Len(s) >= 1 /\ Head(s) = s[1]
        /\ Len(Tail(s)) = Len(s) - 1
        /\ \A i \in 1..(Len(s) - 1) : Tail(s)[i] = s[i + 1] /\ i + 1 \in 1..Len(s)
        /\ \A i \in 1..Len(s) : s[i] \in Nat
    OBVIOUS
  <1>2. Increasing(Tail(s)) BY <1>1 DEF Increasing
  <1>3. \A i \in 1..Len(s) : s[1] <= s[i]
    <2> TAKE i \in 1..Len(s)
    <2>1. CASE i = 1 BY <1>1, <2>1
    <2>2. CASE i # 1
      <3>1. 1 \in 1..Len(s) /\ 1 < i BY <1>1, <2>2
      <3>2. s[1] < s[i] BY <3>1 DEF Increasing
      <3> QED BY <1>1, <3>1, <3>2
    <2> QED BY <2>1, <2>2
  <1>4. \A e \in Range(s) : Head(s) <= e BY <1>1, <1>3, ZenonT(30) DEF Range
  <1> QED BY <1>2, <1>4

LEMMA IncreasingAppend ==
    ASSUME NEW s \in Seq(Nat), NEW e \in Nat, Increasing(s), s # <<>> => s[Len(s)] < e
    PROVE  Increasing(Append(s, e))
  <1>1. /\ Len(s) \in Nat /\ Len(Append(s, e)) = Len(s) + 1
        /\ \A i \in 1..Len(s) : Append(s, e)[i] = s[i] /\ s[i] \in Nat
        /\ Append(s, e)[Len(s) + 1] = e
    OBVIOUS
  <1>2. ASSUME NEW i \in 1..Len(s) PROVE s[i] < e
    <2>1. s # <<>> /\ Len(s) \in 1..Len(s) BY <1>1
    <2>2. i = Len(s) \/ s[i] < s[Len(s)] BY <1>1, <2>1 DEF Increasing
    <2> QED BY <1>1, <2>1, <2>2
  <1>3. ASSUME NEW i \in 1..(Len(s) + 1), NEW j \in 1..(Len(s) + 1), i < j
        PROVE  Append(s, e)[i] < Append(s, e)[j]
    <2>1. i \in 1..Len(s) BY <1>1, <1>3
    <2>2. CASE j = Len(s) + 1 BY <1>1, <1>2, <2>1, <2>2
    <2>3. CASE j \in 1..Len(s) BY <1>1, <1>3, <2>1, <2>3 DEF Increasing
    <2> QED BY <1>1, <2>2, <2>3
  <1> QED BY <1>1, <1>3 DEF Increasing

\* What the last element bounds.
LEMMA LastBelow ==
    ASSUME NEW s \in Seq(Nat), s # <<>>
    PROVE  s[Len(s)] \in Range(s)
  <1>1. DOMAIN s = 1..Len(s) /\ Len(s) \in 1..Len(s) OBVIOUS
  <1> QED BY <1>1, Zenon DEF Range

LEMMA QueueNats ==
    ASSUME SyncTypes
    PROVE  /\ live \in Seq(Nat) /\ deferred \in Seq(Nat) /\ Len(log) \in Nat
           /\ Range(live) \subseteq 1..Len(log) /\ Range(deferred) \subseteq 1..Len(log)
  <1>1. live \in Seq(1..Len(log)) /\ deferred \in Seq(1..Len(log)) /\ Len(log) \in Nat
    BY DEF SyncTypes
  <1>2. \A i \in DOMAIN live : live[i] \in 1..Len(log) BY <1>1
  <1>3. \A i \in DOMAIN deferred : deferred[i] \in 1..Len(log) BY <1>1
  <1>4. Range(live) \subseteq 1..Len(log) /\ Range(deferred) \subseteq 1..Len(log)
    BY <1>2, <1>3, Zenon DEF Range
  <1>5. 1..Len(log) \subseteq Nat BY <1>1
  <1>6. live \in Seq(Nat) /\ deferred \in Seq(Nat) BY <1>1, <1>5
  <1> QED BY <1>1, <1>4, <1>6

LEMMA CursorNats ==
    ASSUME SyncTypes
    PROVE  /\ lastAck \in Nat /\ lastApplied \in Nat /\ pendingAck \in Nat /\ segmentAck \in Nat
           /\ serverAck \in Nat /\ ackSent \in Nat /\ next \in Nat
           /\ stream.from \in Nat /\ stream.final \in Nat
  <1>1. SyncScalars /\ Len(log) \in Nat BY SyncParts, LogNat
  <1> QED BY <1>1 DEF SyncScalars

-----------------------------------------------------------------------------
\* What each part of AckInv depends on.  A receipt more breaks none of the
\* first three, a revision overtaken none of them.
LEMMA CursorFrame ==
    ASSUME CursorInv, receipts \subseteq receipts', overtaken \subseteq overtaken',
           UNCHANGED <<serverAck, cursor, stream, conn, ackSent, ackStored>>
    PROVE  CursorInv'
  BY DEF CursorInv, Settled

LEMMA StreamFrame ==
    ASSUME StreamInv, receipts \subseteq receipts',
           UNCHANGED <<lastApplied, stream, item, conn, next>>
    PROVE  StreamInv'
  BY DEF StreamInv

LEMMA LiveKept ==
    ASSUME LiveInv, receipts \subseteq receipts', overtaken \subseteq overtaken',
           UNCHANGED <<stream, live, deferred, conn, next>>,
           call' = call \/ call' \notin {"deferred", "replaying"} \/ ~stream.on
    PROVE  LiveInv'
  BY DEF LiveInv, Settled

LEMMA JournalFrame ==
    ASSUME JournalInv, overtaken \subseteq overtaken',
           UNCHANGED <<journal, outcome, engine, call, live, conn, receipts, stream, item>>
    PROVE  JournalInv'
  BY DEF JournalInv, Settled

\* The connection is lost, alone or with the process.
LEMMA DisconnectedAck ==
    ASSUME AckInv, conn' = "off", ackSent' = 0, ackStored' = FALSE, deferred' = <<>>,
           UNCHANGED <<serverAck, cursor, stream, item, receipts, overtaken>>,
           live' \in {<<>>, live}, call' \notin {"deferred", "replaying"}
    PROVE  CursorInv' /\ StreamInv' /\ LiveInv'
  <1>1. CursorInv' BY DEF AckInv, CursorInv, Settled
  <1>2. StreamInv' BY DEF AckInv, StreamInv
  <1>3. LiveInv' BY RangeEmpty DEF AckInv, LiveInv, Settled
  <1> QED BY <1>1, <1>2, <1>3

LEMMA ExitAck ==
    ASSUME AckInv, Exit, UNCHANGED <<serverAck, cursor, stream, item, receipts, journal, overtaken>>
    PROVE  AckInv'
  <1>1. CursorInv' /\ StreamInv' /\ LiveInv' BY DisconnectedAck DEF Exit
  <1>2. JournalInv' BY DEF AckInv, JournalInv, Exit, Settled
  <1> QED BY <1>1, <1>2 DEF AckInv

LEMMA HangUpAck ==
    ASSUME AckInv, Disconnected,
           UNCHANGED <<serverAck, cursor, inbound, receipts, journal, outcome, overtaken>>
    PROVE  AckInv'
  <1>1. call' \notin {"deferred", "replaying"} BY DEF Disconnected
  <1>2. CursorInv' /\ StreamInv' /\ LiveInv' BY <1>1, DisconnectedAck DEF Disconnected
  <1>3. /\ call \in {"handler", "poll", "replaying"} => call' \in {"handler", "poll"}
        /\ call = "idle" => call' = "idle"
    BY DEF Disconnected
  <1>4. JournalInv' BY <1>3 DEF AckInv, JournalInv, Disconnected, Settled
  <1> QED BY <1>2, <1>4 DEF AckInv

LEMMA EndAck == ASSUME AckInv, Dies \/ HangsUp PROVE AckInv'
  BY ExitAck, HangUpAck DEF Dies, HangsUp

\* Steps that touch none of AckInv's variables but journal, outcome, engine, call.
LEMMA OnlyJournalAck ==
    ASSUME AckInv, JournalInv',
           UNCHANGED <<serverAck, cursor, inbound, receipts, wire, overtaken>>,
           call' = call \/ call' \notin {"deferred", "replaying"} \/ ~stream.on
    PROVE  AckInv'
  <1>1. CursorInv' /\ StreamInv' BY CursorFrame, StreamFrame DEF AckInv
  <1>2. LiveInv' BY LiveKept DEF AckInv
  <1> QED BY <1>1, <1>2 DEF AckInv
-----------------------------------------------------------------------------
\* The items of a stream.
LEMMA WorkspaceEventAck == ASSUME SyncTypes, AckInv, WorkspaceEvent PROVE AckInv'
  <1>1. /\ engine = "open" /\ call = "idle" /\ conn = "items" /\ next <= stream.final
        /\ next' = next + 1 /\ call' = "handler"
        /\ UNCHANGED <<serverAck, cursor, stream, live, receipts, journal, outcome, engine, conn,
                       ackSent, ackStored, deferred, overtaken>>
    BY DEF WorkspaceEvent, Resume, Idle
  <1>2. CursorInv' BY <1>1, CursorFrame DEF AckInv
  <1>3. next \in Revs /\ stream.from < next /\ stream.on /\ next \in Nat
    <2>1. stream.from < next /\ stream.on BY <1>1 DEF AckInv, StreamInv
    <2>2. stream.final <= MaxRev /\ stream.from \in Nat /\ stream.final \in Nat /\ next \in Nat
      <3>1. SyncScalars /\ Len(log) \in Nat BY SyncParts, LogNat
      <3>2. stream.final \in 0..Len(log) /\ Len(log) <= MaxRev BY <3>1 DEF SyncScalars
      <3> QED BY <3>1, <3>2, CursorNats
    <2> QED BY <1>1, <2>1, <2>2 DEF Revs
  <1>4. StreamInv'
    <2> DEFINE status == IF next \in receipts THEN "applied"
                         ELSE IF EventIsDiverged(next) \/ ContentAvailable(next) THEN "ready"
                         ELSE "waiting_blob"
    <2>2. status # "absent" /\ (status \in {"applied", "preserved"} => next \in receipts)
      OBVIOUS
    <2> HIDE DEF status
    <2>3. \A r \in Revs : item'[r] = IF r = next THEN status ELSE item[r]
      BY DEF status, WorkspaceEvent, SyncTypes
    <2>5. \A r \in Revs : item'[r] # "absent" => stream.on /\ stream.from < r /\ r <= stream.final
      BY <1>1, <1>3, <2>3 DEF AckInv, StreamInv
    <2>6. \A r \in Revs : item'[r] \in {"applied", "preserved"} => r \in receipts
      BY <2>2, <2>3 DEF AckInv, StreamInv
    <2>7. \A r \in Revs : stream.from < r /\ r < next + 1 => item'[r] # "absent"
      BY <1>1, <1>3, <2>2, <2>3 DEF AckInv, StreamInv, Revs
    <2>8. \A r, q \in Revs : item'[r] # "absent" /\ stream.from < q /\ q < r => item'[q] # "absent"
      BY <1>1, <1>3, <2>2, <2>3 DEF AckInv, StreamInv, Revs
    <2>9. stream.from < next + 1 /\ next + 1 <= stream.final + 1 BY <1>1, <1>3, CursorNats
    <2> QED BY <1>1, <1>3, <2>5, <2>6, <2>7, <2>8, <2>9 DEF AckInv, StreamInv
  <1>5. deferred = <<>> BY <1>1 DEF AckInv, LiveInv
  <1>6. LiveInv' BY <1>1, <1>5, RangeEmpty DEF AckInv, LiveInv, Settled
  <1>7. JournalInv' BY <1>1 DEF AckInv, JournalInv
  <1> QED BY <1>2, <1>4, <1>6, <1>7 DEF AckInv

-----------------------------------------------------------------------------
\* Live events.
LEMMA DeferEventAck == ASSUME SyncTypes, AckInv, DeferEvent PROVE AckInv'
  <1>1. /\ conn = "tail" /\ stream.on /\ next' = next + 1 /\ deferred' = Append(deferred, next)
        /\ UNCHANGED <<serverAck, cursor, inbound, receipts, journal, outcome, engine, call, conn,
                       ackSent, ackStored, overtaken>>
    BY DEF DeferEvent, LiveFrame
  <1>2. CursorInv' BY <1>1, CursorFrame DEF AckInv
  <1>3. StreamInv' BY <1>1, CursorNats DEF AckInv, StreamInv
  <1>4. deferred \in Seq(Nat) /\ next \in Nat /\ Range(deferred) \subseteq Nat
    BY QueueNats, CursorNats
  <1>5. Range(deferred') = Range(deferred) \cup {next} BY <1>1, <1>4, RangeAppend
  <1>6. \A r \in Range(deferred) : r < next BY DEF AckInv, LiveInv
  <1>7. Increasing(deferred')
    <2>1. Increasing(deferred) BY DEF AckInv, LiveInv
    <2>2. deferred # <<>> => deferred[Len(deferred)] < next BY <1>4, <1>6, LastBelow
    <2> QED BY <1>1, <1>4, <2>1, <2>2, IncreasingAppend
  <1>8. \A r \in Range(deferred') : r < next' BY <1>1, <1>4, <1>5, <1>6
  <1>9. 1..(next' - 1) \subseteq 1..(next - 1) \cup {next} BY <1>1, <1>4
  <1>10. 1..(next - 1) \subseteq Settled \cup Range(live) \cup Range(deferred) \cup 1..stream.final
    BY <1>1 DEF AckInv, LiveInv
  <1>11. 1..(next' - 1) \subseteq Settled \cup Range(live) \cup Range(deferred') \cup 1..stream.final
    BY <1>5, <1>9, <1>10, ZenonT(30)
  <1>12. LiveInv' BY <1>1, <1>7, <1>8, <1>11, ZenonT(30), SMTT(30) DEF AckInv, LiveInv, Settled
  <1>13. JournalInv' BY <1>1, JournalFrame DEF AckInv
  <1> QED BY <1>2, <1>3, <1>12, <1>13 DEF AckInv

\* Every revision before the one handed over is settled, overtaken or queued
\* before it, wherever it comes from.
LEMMA HandedCovered ==
    ASSUME SyncTypes, AckInv, NEW r \in 1..Len(log), Handed(r), Taken
    PROVE  /\ r \in Nat /\ r # 0
           /\ engine = "open" /\ call \in {"idle", "deferred"} /\ ~stream.on /\ conn = "tail"
           /\ UNCHANGED <<conn, ackSent, ackStored>> /\ overtaken \subseteq overtaken'
           /\ 1..(r - 1) \subseteq receipts \cup overtaken' \cup Range(live)
           /\ 1..(next' - 1) \subseteq receipts \cup overtaken' \cup Range(live)
                                        \cup Range(deferred') \cup {r}
           /\ Increasing(deferred') /\ next' # 0 /\ \A d \in Range(deferred') : d < next'
  <1>0. /\ r \in Nat /\ r # 0 /\ next \in Nat /\ deferred \in Seq(Nat) /\ Range(deferred) \subseteq Nat
    BY QueueNats, CursorNats
  <1>i. /\ Increasing(deferred) /\ \A d \in Range(deferred) : d < next
        /\ conn = "tail" => next # 0
    BY DEF AckInv, LiveInv, StreamInv
  <1>u. UNCHANGED <<conn, ackSent, ackStored>> BY DEF Taken
  <1>1. CASE call = "idle"
    <2>1. /\ engine = "open" /\ ~stream.on /\ conn = "tail" /\ r = next
      BY <1>1 DEF Handed, LiveFrame, DrainReplay, Idle
    <2>2. /\ next' = next + 1 /\ overtaken' = overtaken \cup Range(deferred)
          /\ UNCHANGED <<deferred, budget>>
      BY <1>1 DEF Taken
    <2>3. 1..(next - 1) \subseteq Settled \cup Range(live) \cup Range(deferred)
      BY <2>1 DEF AckInv, LiveInv
    <2>4. 1..(r - 1) \subseteq receipts \cup overtaken' \cup Range(live)
      BY <2>1, <2>2, <2>3, ZenonT(30) DEF Settled
    <2>5. 1..(next' - 1) \subseteq 1..(r - 1) \cup {r} BY <1>0, <2>1, <2>2
    <2>6. \A d \in Range(deferred) : d < next' BY <1>0, <1>i, <2>2
    <2>7. next' # 0 BY <1>0, <2>2
    <2> QED BY <1>0, <1>1, <1>i, <1>u, <2>1, <2>2, <2>4, <2>5, <2>6, <2>7, ZenonT(30)
  <1>2. CASE call # "idle"
    <2>1. engine = "open" /\ call = "deferred" /\ deferred # <<>> /\ r = Head(deferred)
      BY <1>2 DEF Handed, LiveFrame, DrainReplay, Idle
    <2>2. deferred' = Tail(deferred) /\ UNCHANGED <<next, overtaken>>
      BY <1>2 DEF Taken
    <2>3. conn = "tail" /\ ~stream.on BY <2>1 DEF AckInv, LiveInv
    <2>4. 1..(next - 1) \subseteq Settled \cup Range(live) \cup Range(deferred)
      BY <2>3 DEF AckInv, LiveInv
    <2>5. /\ Range(deferred) = {r} \cup Range(deferred') /\ r \in Range(deferred)
          /\ Increasing(deferred') /\ \A d \in Range(deferred) : r <= d
      BY <1>0, <1>i, <2>1, <2>2, RangeTail, IncreasingTail
    <2>6. r < next BY <1>i, <2>5
    <2>7. ASSUME NEW q \in 1..(r - 1) PROVE q \in receipts \cup overtaken' \cup Range(live)
      <3>1. q \in 1..(next - 1) /\ ~(r <= q) BY <1>0, <2>6
      <3>2. q \notin Range(deferred) BY <2>5, <3>1
      <3> QED BY <2>2, <2>4, <3>1, <3>2, ZenonT(30) DEF Settled
    <2>8. 1..(next' - 1) \subseteq receipts \cup overtaken' \cup Range(live)
                                   \cup Range(deferred') \cup {r}
      BY <2>2, <2>4, <2>5, ZenonT(30) DEF Settled
    <2>9. \A d \in Range(deferred') : d < next' BY <1>i, <2>2, <2>5, Zenon
    <2> QED BY <1>0, <1>i, <1>u, <2>1, <2>2, <2>3, <2>5, <2>7, <2>8, <2>9, ZenonT(30)
  <1> QED BY <1>1, <1>2

\* mark_live_event_applied moves the cursors to a revision settled before.
LEMMA MarkLiveCursor ==
    ASSUME SyncTypes, AckInv, NEW r \in Nat, r \in receipts, ~stream.on,
           1..r \subseteq receipts \cup overtaken', overtaken \subseteq overtaken',
           MarkLiveEventApplied(r), UNCHANGED <<serverAck, stream, receipts, conn, ackSent, ackStored>>
    PROVE  CursorInv'
  <1>0. /\ lastAck \in Nat /\ lastApplied \in Nat /\ pendingAck \in Nat
        /\ serverAck \in Nat /\ ackSent \in Nat
        /\ pendingAck <= lastApplied /\ ackSent <= lastApplied /\ lastAck <= lastApplied
        /\ pendingAck # 0 => lastAck < pendingAck
    BY CursorNats DEF AckInv, CursorInv
  <1>s. 1..lastApplied \subseteq Settled' /\ 1..serverAck \subseteq Settled'
    BY Zenon DEF AckInv, CursorInv, Settled
  <1>1. /\ lastApplied' \in {r, lastApplied} /\ lastApplied' \in Nat /\ lastApplied <= lastApplied'
        /\ UNCHANGED <<lastAck, segmentAck>>
    BY <1>0 DEF MarkLiveEventApplied
  <1>2. 1..lastApplied' \subseteq Settled' BY <1>1, <1>s, Zenon DEF Settled
  <1>3. /\ pendingAck' \in {r, pendingAck}
        /\ pendingAck' \in Nat /\ pendingAck <= pendingAck' /\ pendingAck' <= lastApplied'
        /\ pendingAck' # 0 => lastAck < pendingAck'
    BY <1>0 DEF MarkLiveEventApplied
  <1>4. segmentAck = 0 BY DEF AckInv, CursorInv
  <1>5. {lastAck, lastApplied', ackSent, pendingAck', segmentAck} \subseteq receipts \cup {0}
    BY <1>1, <1>3, Zenon DEF AckInv, CursorInv
  <1>6. overtaken' = {} => overtaken = {} OBVIOUS
  <1>7. ackSent <= lastApplied' /\ lastAck <= lastApplied' /\ segmentAck <= lastApplied'
    BY <1>0, <1>1, <1>4
  <1>8. overtaken' = {} =>
         /\ serverAck <= lastApplied' /\ (ackSent # 0 => serverAck <= ackSent)
         /\ \A a \in {serverAck, ackSent} : a <= lastAck \/ a <= pendingAck' \/ a <= segmentAck
    BY <1>0, <1>1, <1>3, <1>4, <1>6 DEF AckInv, CursorInv
  <1> QED BY <1>1, <1>2, <1>3, <1>4, <1>5, <1>7, <1>8, <1>s, ZenonT(30), SMTT(30) DEF AckInv, CursorInv

LEMMA LiveEventExactAck ==
    ASSUME SyncTypes, AckInv, NEW r \in 1..Len(log), LiveEventExact(r)
    PROVE  AckInv'
  <1>1. /\ Handed(r) /\ Taken /\ MarkLiveEventApplied(r) /\ r \in receipts
        /\ ~PendingLivePrecedes(r)
        /\ UNCHANGED <<server, inbound, receipts, journal, outcome, engine, call>>
    BY DEF LiveEventExact, EventExact
  <1>2. /\ r \in Nat /\ r # 0
        /\ engine = "open" /\ call \in {"idle", "deferred"} /\ ~stream.on /\ conn = "tail"
        /\ UNCHANGED <<conn, ackSent, ackStored>> /\ overtaken \subseteq overtaken'
        /\ 1..(r - 1) \subseteq receipts \cup overtaken' \cup Range(live)
        /\ 1..(next' - 1) \subseteq receipts \cup overtaken' \cup Range(live)
                                     \cup Range(deferred') \cup {r}
        /\ Increasing(deferred') /\ next' # 0 /\ \A d \in Range(deferred') : d < next'
    BY <1>1, HandedCovered
  <1>3. \A q \in 1..(r - 1) : q \notin Range(live)
    <2>0. live \in Seq(Nat) /\ Range(live) \subseteq Nat BY QueueNats
    <2>1. CASE live = <<>> BY <2>1, RangeEmpty
    <2>2. CASE live # <<>>
      <3>1. \A e \in Range(live) : Head(live) <= e
        BY <2>0, <2>2, IncreasingTail DEF AckInv, LiveInv
      <3>2. Head(live) \in Nat /\ ~(Head(live) <= r)
        BY <1>1, <2>0, <2>2, RangeTail DEF PendingLivePrecedes
      <3> QED BY <1>2, <2>0, <3>1, <3>2
    <2> QED BY <2>1, <2>2
  <1>4. 1..r \subseteq receipts \cup overtaken'
    <2>1. \A q \in 1..r : q = r \/ q \in 1..(r - 1) BY <1>2
    <2> QED BY <1>1, <1>2, <1>3, <2>1, ZenonT(30)
  <1>5. CursorInv' BY <1>1, <1>2, <1>4, MarkLiveCursor
  <1>6. StreamInv'
    <2>1. UNCHANGED <<stream, item, receipts, conn>> BY <1>1, <1>2
    <2> QED BY <1>2, <2>1 DEF AckInv, StreamInv
  <1>7. LiveInv'
    <2>1. 1..(next' - 1) \subseteq Settled' \cup Range(live) \cup Range(deferred')
      BY <1>1, <1>2, ZenonT(30) DEF Settled
    <2>2. \A e \in Range(live) : 1..(e - 1) \subseteq Settled' \cup Range(live)
      BY <1>1, <1>2, ZenonT(30) DEF AckInv, LiveInv, Settled
    <2>3. Increasing(live) BY DEF AckInv, LiveInv
    <2> QED BY <1>1, <1>2, <2>1, <2>2, <2>3, ZenonT(30), SMTT(30) DEF LiveInv
  <1>8. JournalInv' BY <1>1, <1>2, JournalFrame DEF AckInv
  <1> QED BY <1>5, <1>6, <1>7, <1>8 DEF AckInv

LEMMA LiveEventAck ==
    ASSUME SyncTypes, AckInv, NEW r \in 1..Len(log), LiveEvent(r)
    PROVE  AckInv'
  <1>1. /\ Handed(r) /\ Taken /\ ~EventExact(r) /\ ~EventRefused(r)
        /\ live' = IF InLive(r) THEN live ELSE Append(live, r)
        /\ call' \in {"handler", "replaying"}
        /\ UNCHANGED <<server, cursor, stream, item, receipts, journal, outcome, engine>>
    BY DEF LiveEvent, Resume
  <1>2. /\ r \in Nat /\ r # 0
        /\ engine = "open" /\ call \in {"idle", "deferred"} /\ ~stream.on /\ conn = "tail"
        /\ UNCHANGED <<conn, ackSent, ackStored>> /\ overtaken \subseteq overtaken'
        /\ 1..(r - 1) \subseteq receipts \cup overtaken' \cup Range(live)
        /\ 1..(next' - 1) \subseteq receipts \cup overtaken' \cup Range(live)
                                     \cup Range(deferred') \cup {r}
        /\ Increasing(deferred') /\ next' # 0 /\ \A d \in Range(deferred') : d < next'
    BY <1>1, HandedCovered
  <1>3. live \in Seq(Nat) /\ Increasing(live) BY QueueNats DEF AckInv, LiveInv
  <1>4. Range(live') = Range(live) \cup {r} /\ Increasing(live')
    <2>1. CASE InLive(r) BY <1>1, <1>3, <2>1 DEF InLive
    <2>2. CASE ~InLive(r)
      <3>1. live' = Append(live, r) BY <1>1, <2>2
      <3>2. ASSUME live # <<>> PROVE live[Len(live)] < r
        <4>1. ~(r < live[Len(live)]) BY <1>1, <2>2, <3>2 DEF EventRefused
        <4>2. live[Len(live)] \in Range(live) BY <1>3, <3>2, LastBelow
        <4>3. live[Len(live)] # r /\ live[Len(live)] \in Nat
          BY <1>3, <2>2, <4>2, QueueNats DEF InLive
        <4> QED BY <1>2, <4>1, <4>3
      <3> QED BY <1>2, <1>3, <3>1, <3>2, RangeAppend, IncreasingAppend
    <2> QED BY <2>1, <2>2
  <1>5. CursorInv' BY <1>1, <1>2, CursorFrame DEF AckInv
  <1>6. StreamInv'
    <2>1. UNCHANGED <<stream, item, receipts, conn>> BY <1>1, <1>2
    <2> QED BY <1>2, <2>1 DEF AckInv, StreamInv
  <1>7. LiveInv'
    <2>1. 1..(next' - 1) \subseteq Settled' \cup Range(live') \cup Range(deferred')
      BY <1>1, <1>2, <1>4, ZenonT(30) DEF Settled
    <2>2. \A e \in Range(live) : 1..(e - 1) \subseteq Settled' \cup Range(live')
      BY <1>1, <1>2, <1>4, ZenonT(30) DEF AckInv, LiveInv, Settled
    <2>3. 1..(r - 1) \subseteq Settled' \cup Range(live')
      BY <1>1, <1>2, <1>4, ZenonT(30) DEF Settled
    <2>4. \A e \in Range(live') : 1..(e - 1) \subseteq Settled' \cup Range(live')
      BY <1>4, <2>2, <2>3, ZenonT(30)
    <2> QED BY <1>1, <1>2, <1>4, <2>1, <2>4, ZenonT(30), SMTT(30) DEF LiveInv
  <1>8. JournalInv'
    <2>1. ~journal.on BY <1>2 DEF AckInv, JournalInv
    <2> QED BY <1>1, <1>2, <2>1 DEF AckInv, JournalInv
  <1> QED BY <1>5, <1>6, <1>7, <1>8 DEF AckInv

LEMMA HandLiveAck == ASSUME SyncTypes, AckInv, NEW r \in 1..Len(log), HandLive(r) PROVE AckInv'
  <1>1. CASE LiveOverflow(r) \/ LiveEventRefused(r)
    <2>1. Dies \/ HangsUp BY <1>1, Deaths, HangUps, Zenon
    <2> QED BY <2>1, EndAck
  <1> QED BY <1>1, LiveEventExactAck, LiveEventAck DEF HandLive
=============================================================================
