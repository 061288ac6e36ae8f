--------------------------- MODULE SyncEngineAcks ---------------------------
(***************************************************************************)
(* AckInv is preserved when the engine settles revisions: by the items     *)
(* that resume_inbound_work takes up, and when it finishes the stream or   *)
(* stops.                                                                  *)
(***************************************************************************)
EXTENDS SyncEngineQueues

USE ConstantsAssumption
USE DEF server, user, cursor, inbound, tables, local, apply, process, wire, drain, aux

-----------------------------------------------------------------------------
\* The item resume_stream_step takes up has nothing unsettled before it.
LEMMA NextItemSettled ==
    ASSUME SyncTypes, AckInv, NEW r \in Nat, stream.on, IsNextItem(r)
    PROVE  /\ r \in Revs /\ item[r] # "absent"
           /\ stream.from < r /\ r <= stream.final /\ 1..(r - 1) \subseteq Settled
  <1>1. /\ r \in Revs /\ item[r] # "absent" /\ stream.from < r /\ r <= stream.final
    BY DEF IsNextItem, PendingItems, AckInv, StreamInv, Revs
  <1>2. ASSUME NEW q \in 1..(r - 1) PROVE q \in Settled
    <2>1. q \in Revs /\ q < r /\ q \in Nat BY <1>1 DEF Revs
    <2>2. CASE q <= stream.from
      <3>1. stream.from <= lastApplied /\ 1..lastApplied \subseteq Settled
        BY DEF AckInv, StreamInv, CursorInv
      <3>2. q \in 1..lastApplied BY <2>2, <3>1, CursorNats
      <3> QED BY <3>1, <3>2
    <2>3. CASE stream.from < q
      <3>1. item[q] # "absent" BY <1>1, <2>1, <2>3 DEF AckInv, StreamInv
      <3>2. item[q] \notin {"waiting_blob", "ready"} BY <2>1 DEF IsNextItem, PendingItems, Revs
      <3>3. item[q] \in {"applied", "preserved"} BY <2>1, <3>1, <3>2 DEF SyncTypes, Statuses
      <3> QED BY <2>1, <3>3 DEF AckInv, StreamInv, Settled
    <2> QED BY <2>1, <2>2, <2>3, CursorNats
  <1> QED BY <1>1, <1>2

\* The same for the head of the live queue.
LEMMA LiveHeadSettled ==
    ASSUME SyncTypes, AckInv, live # <<>>
    PROVE  /\ Head(live) \in Revs /\ Head(live) <= Len(log)
           /\ ~stream.on /\ 1..(Head(live) - 1) \subseteq Settled
  <1>1. live \in Seq(Nat) /\ Range(live) \subseteq 1..Len(log) /\ Increasing(live)
    BY QueueNats DEF AckInv, LiveInv
  <1>2. Head(live) \in Range(live) /\ \A e \in Range(live) : Head(live) <= e
    BY <1>1, RangeTail, IncreasingTail
  <1>3. Head(live) \in 1..Len(log) /\ Len(log) \in Nat /\ Len(log) <= MaxRev
    <2>1. Head(live) \in 1..Len(log) BY <1>1, <1>2
    <2>2. Len(log) \in Nat /\ Len(log) <= MaxRev BY DEF SyncTypes
    <2> QED BY <2>1, <2>2
  <1>4. ASSUME NEW q \in 1..(Head(live) - 1) PROVE q \in Settled
    <2>1. q \in Settled \cup Range(live) BY <1>2 DEF AckInv, LiveInv
    <2>2. ~(Head(live) <= q) BY <1>3
    <2> QED BY <1>2, <2>1, <2>2
  <1> QED BY <1>3, <1>4 DEF AckInv, LiveInv, Revs

LEMMA LiveTail ==
    ASSUME SyncTypes, LiveInv, live # <<>>, live' = Tail(live),
           receipts \subseteq receipts', Head(live) \in receipts',
           UNCHANGED <<stream, deferred, conn, next, overtaken>>
    PROVE  LiveInv'
  <1>1. live \in Seq(Nat) /\ Increasing(live) /\ ~stream.on BY QueueNats DEF LiveInv
  <1>2. Range(live) = {Head(live)} \cup Range(live') /\ Increasing(live')
    BY <1>1, RangeTail, IncreasingTail
  <1>3. Settled \cup Range(live) \subseteq Settled' \cup Range(live')
    BY <1>2, ZenonT(30) DEF Settled
  <1>4. \A r \in Range(live') : 1..(r - 1) \subseteq Settled' \cup Range(live')
    BY <1>2, <1>3, ZenonT(30) DEF LiveInv
  <1>5. conn = "tail" => 1..(next - 1) \subseteq Settled \cup Range(live) \cup Range(deferred)
    BY <1>1 DEF LiveInv
  <1>6. conn = "tail" => 1..(next - 1) \subseteq Settled' \cup Range(live') \cup Range(deferred)
    BY <1>3, <1>5, ZenonT(30)
  <1> QED BY <1>1, <1>2, <1>4, <1>6, ZenonT(30), SMTT(30) DEF LiveInv

-----------------------------------------------------------------------------
\* The cursors are settled revisions, so one that is not is past a cursor that
\* may move to it.
LEMMA PastCursor ==
    ASSUME SyncTypes, AckInv, NEW r \in Revs, r \notin receipts, ~(r < lastApplied)
    PROVE  lastApplied < r
  <1>1. lastApplied # r BY DEF AckInv, CursorInv, Revs
  <1> QED BY <1>1, CursorNats DEF Revs

\* commit_live_event moves both cursors to the first revision not settled.
LEMMA CommitLiveCursor ==
    ASSUME SyncTypes, AckInv, NEW r \in Revs, lastApplied < r, 1..(r - 1) \subseteq Settled,
           ~stream.on, CommitLiveEvent(r),
           UNCHANGED <<serverAck, stream, conn, ackSent, ackStored, overtaken>>
    PROVE  CursorInv'
  <1>1. r \in Nat /\ r # 0 BY DEF Revs
  <1>2. /\ lastApplied' = r /\ pendingAck' = r /\ receipts' = receipts \cup {r}
        /\ UNCHANGED <<lastAck, segmentAck>>
    BY DEF CommitLiveEvent, Settle
  <1>3. 1..r \subseteq Settled'
    <2>1. \A q \in 1..r : q = r \/ q \in 1..(r - 1) BY <1>1
    <2> QED BY <1>2, <2>1, ZenonT(30) DEF Settled
  <1>4. 1..serverAck \subseteq Settled' BY <1>2, Zenon DEF AckInv, CursorInv, Settled
  <1>5. {lastAck, r, ackSent, segmentAck} \subseteq receipts' \cup {0}
    BY <1>2, Zenon DEF AckInv, CursorInv
  <1>6. segmentAck = 0 /\ lastAck < r /\ ackSent <= r /\ lastAck <= r
    BY <1>1, CursorNats DEF AckInv, CursorInv
  <1>7. overtaken = {} => serverAck <= r /\ (ackSent # 0 => serverAck <= ackSent)
    BY <1>1, CursorNats DEF AckInv, CursorInv
  <1> QED BY <1>1, <1>2, <1>3, <1>4, <1>5, <1>6, <1>7, SMTT(30) DEF AckInv, CursorInv

LEMMA CommitStreamCursor ==
    ASSUME SyncTypes, AckInv, NEW r \in Revs, 1..(r - 1) \subseteq Settled,
           stream.on, stream.from < r, r <= stream.final, item[r] # "absent",
           NEW status \in {"applied", "preserved"}, CommitStreamEvent(r, status),
           status = "applied" => lastApplied < r,
           UNCHANGED <<serverAck, stream, conn, next, ackSent, ackStored, overtaken>>
    PROVE  CursorInv' /\ StreamInv'
  <1>0. r \in Nat /\ r # 0 BY DEF Revs
  <1>2. /\ lastApplied' \in {r, lastApplied} /\ lastApplied <= lastApplied'
        /\ receipts' = receipts \cup {r}
        /\ UNCHANGED <<lastAck, pendingAck, segmentAck>>
        /\ \A q \in Revs : item'[q] = IF q = r THEN status ELSE item[q]
    <2>1. lastApplied \in Nat BY CursorNats
    <2> QED BY <1>0, <2>1 DEF CommitStreamEvent, Settle, SyncTypes
  <1>3. 1..r \subseteq Settled' /\ 1..lastApplied \subseteq Settled' /\ 1..serverAck \subseteq Settled'
    <2>1. \A q \in 1..r : q = r \/ q \in 1..(r - 1) BY <1>0
    <2> QED BY <1>2, <2>1, ZenonT(30) DEF Settled, AckInv, CursorInv
  <1>4. CursorInv'
    <2>1. 1..lastApplied' \subseteq Settled' BY <1>2, <1>3, Zenon
    <2>2. {lastAck, lastApplied', ackSent, pendingAck, segmentAck} \subseteq receipts' \cup {0}
      BY <1>2, Zenon DEF AckInv, CursorInv
    <2>3. /\ lastAck <= lastApplied' /\ ackSent <= lastApplied' /\ pendingAck <= lastApplied'
          /\ segmentAck <= lastApplied' /\ (overtaken = {} => serverAck <= lastApplied')
      BY <1>0, <1>2, CursorNats DEF AckInv, CursorInv
    <2> QED BY <1>2, <1>3, <2>1, <2>2, <2>3, SMTT(30), ZenonT(30) DEF AckInv, CursorInv
  <1>5. StreamInv'
    <2>1. stream.from <= lastApplied' /\ lastApplied' <= stream.final
      BY <1>0, <1>2, CursorNats DEF AckInv, StreamInv
    <2>2. \A q \in Revs : item'[q] # "absent" <=> item[q] # "absent" BY <1>2
    <2>3. \A q \in Revs : item'[q] \in {"applied", "preserved"} => q \in receipts'
      BY <1>2 DEF AckInv, StreamInv
    <2> QED BY <2>1, <2>2, <2>3 DEF AckInv, StreamInv
  <1> QED BY <1>4, <1>5

LEMMA StreamItemAck ==
    ASSUME SyncTypes, AckInv, NEW r \in 1..Len(log), StreamItem(r)
    PROVE  AckInv'
  <1>0. r \in Nat BY DEF SyncTypes
  <1>1. StreamStep(r)
    BY Zenon DEF StreamItem, StreamItemExact, StreamItemCommit, StreamItemPreserve, StreamItemPrepare
  <1>2. /\ engine = "open" /\ call \in {"handler", "poll", "replaying"} /\ ~journal.on
        /\ stream.on /\ IsNextItem(r)
    BY <1>1 DEF StreamStep, Working, StreamReady
  <1>3. /\ r \in Revs /\ item[r] # "absent" /\ stream.from < r /\ r <= stream.final
        /\ 1..(r - 1) \subseteq Settled
    BY <1>0, <1>2, NextItemSettled
  <1>4. CASE StreamItemExact(r)
    <2>1. /\ r \in receipts /\ item' = [item EXCEPT ![r] = "applied"]
          /\ UNCHANGED <<serverAck, cursor, stream, live, receipts, journal, outcome, engine, call,
                         wire, overtaken>>
      BY <1>4 DEF StreamItemExact, Spend
    <2>2. CursorInv' /\ LiveInv' BY <2>1, CursorFrame, LiveKept DEF AckInv
    <2>3. \A q \in Revs : item'[q] = IF q = r THEN "applied" ELSE item[q] BY <2>1 DEF SyncTypes
    <2>4. StreamInv' BY <1>3, <2>1, <2>3 DEF AckInv, StreamInv
    <2>5. JournalInv' BY <1>2, <2>1 DEF AckInv, JournalInv
    <2> QED BY <2>2, <2>4, <2>5 DEF AckInv
  <1>5. CASE StreamItemCommit(r) \/ StreamItemPreserve(r)
    <2>1. PICK status \in {"applied", "preserved"} :
            CommitStreamEvent(r, status) /\ (status = "applied" => ~(r < lastApplied))
      BY <1>5, ZenonT(30) DEF StreamItemCommit, StreamItemPreserve, StreamItemFails
    <2>2. /\ r \notin receipts
          /\ UNCHANGED <<server, stream, live, journal, outcome, engine, call, wire, overtaken>>
      BY <1>5, ZenonT(30) DEF StreamItemCommit, StreamItemPreserve, Spend
    <2>3. status = "applied" => lastApplied < r BY <1>3, <2>1, <2>2, PastCursor
    <2>4. CursorInv' /\ StreamInv' BY <1>2, <1>3, <2>1, <2>2, <2>3, CommitStreamCursor
    <2>5. receipts \subseteq receipts' BY <2>1 DEF CommitStreamEvent, Settle
    <2>6. LiveInv' BY <2>2, <2>5, LiveKept DEF AckInv
    <2>7. JournalInv' BY <1>2, <2>2 DEF AckInv, JournalInv
    <2> QED BY <2>4, <2>6, <2>7 DEF AckInv
  <1>6. CASE StreamItemPrepare(r)
    <2>1. /\ item' = [item EXCEPT ![r] = "ready"] /\ r \notin receipts
          /\ journal'.on /\ journal'.rev = r /\ ~journal'.live /\ journal'.stage = "prepared"
          /\ UNCHANGED <<serverAck, cursor, stream, live, receipts, outcome, engine, call, wire, overtaken>>
      BY <1>6 DEF StreamItemPrepare, Prepare, Spend
    <2>2. CursorInv' /\ LiveInv' BY <2>1, CursorFrame, LiveKept DEF AckInv
    <2>3. \A q \in Revs : item'[q] = IF q = r THEN "ready" ELSE item[q] BY <2>1 DEF SyncTypes
    <2>4. StreamInv' BY <1>3, <2>1, <2>3 DEF AckInv, StreamInv
    <2>5. outcome' = "none" BY <1>2, <2>1 DEF AckInv, JournalInv
    <2>6. r # 0 /\ item'[r] # "absent" /\ 1..(r - 1) \subseteq Settled'
      BY <1>3, <2>1, <2>3 DEF Revs, Settled
    <2>7. JournalInv' BY <1>2, <2>1, <2>5, <2>6 DEF JournalInv
    <2> QED BY <2>2, <2>4, <2>7 DEF AckInv
  <1> QED BY <1>4, <1>5, <1>6 DEF StreamItem

LEMMA LiveItemAck ==
    ASSUME SyncTypes, AckInv, NEW r \in 1..Len(log), LiveItem(r)
    PROVE  AckInv'
  <1>1. LiveStep(r)
    BY Zenon DEF LiveItem, LiveItemExact, LiveItemCommit, LiveItemPreserve, LiveItemPrepare
  <1>2. /\ engine = "open" /\ call \in {"handler", "poll", "replaying"} /\ ~journal.on
        /\ live # <<>> /\ r = Head(live)
    BY <1>1 DEF LiveStep, Working, LiveReady
  <1>3. r \in Revs /\ ~stream.on /\ 1..(r - 1) \subseteq Settled
    BY <1>2, LiveHeadSettled
  <1>n. r \in Nat /\ r # 0 BY <1>3 DEF Revs
  <1>4. CASE LiveItemExact(r)
    <2>1. /\ r \in receipts /\ MarkLiveEventApplied(r) /\ live' = Tail(live)
          /\ UNCHANGED <<serverAck, stream, item, receipts, journal, outcome, engine, call, wire, overtaken>>
      BY <1>4 DEF LiveItemExact, Spend
    <2>2. 1..r \subseteq receipts \cup overtaken'
      <3>1. \A q \in 1..r : q = r \/ q \in 1..(r - 1) BY <1>n
      <3> QED BY <1>3, <2>1, <3>1, ZenonT(30) DEF Settled
    <2>3. CursorInv' BY <1>n, <1>3, <2>1, <2>2, MarkLiveCursor
    <2>4. StreamInv' BY <1>3, <2>1 DEF AckInv, StreamInv
    <2>5. LiveInv' BY <1>2, <2>1, LiveTail DEF AckInv
    <2>6. JournalInv' BY <1>2, <2>1 DEF AckInv, JournalInv
    <2> QED BY <2>3, <2>4, <2>5, <2>6 DEF AckInv
  <1>5. CASE LiveItemCommit(r) \/ LiveItemPreserve(r)
    <2>1. /\ CommitLiveEvent(r) /\ r \notin receipts /\ live' = Tail(live)
          /\ UNCHANGED <<server, stream, item, journal, outcome, engine, call, wire, overtaken>>
      BY <1>5, ZenonT(30) DEF LiveItemCommit, LiveItemPreserve, Spend
    <2>2. ~(r < lastApplied)
      BY <1>5, ZenonT(30) DEF LiveItemCommit, LiveItemPreserve, LiveItemFails, CursorRegresses
    <2>3. lastApplied < r BY <1>3, <2>1, <2>2, PastCursor
    <2>4. CursorInv' BY <1>3, <2>1, <2>3, CommitLiveCursor
    <2>5. receipts' = receipts \cup {r} BY <2>1 DEF CommitLiveEvent, Settle
    <2>6. StreamInv' BY <1>3, <2>1, <2>5 DEF AckInv, StreamInv
    <2>7. LiveInv' BY <1>2, <2>1, <2>5, LiveTail DEF AckInv
    <2>8. JournalInv' BY <1>2, <2>1 DEF AckInv, JournalInv
    <2> QED BY <2>4, <2>6, <2>7, <2>8 DEF AckInv
  <1>6. CASE LiveItemPrepare(r)
    <2>1. /\ r \notin receipts
          /\ journal'.on /\ journal'.rev = r /\ journal'.live /\ journal'.stage = "prepared"
          /\ UNCHANGED <<serverAck, cursor, inbound, receipts, outcome, engine, call, wire, overtaken>>
      BY <1>6 DEF LiveItemPrepare, Prepare, Spend
    <2>2. CursorInv' /\ StreamInv' /\ LiveInv' BY <2>1, CursorFrame, StreamFrame, LiveKept DEF AckInv
    <2>3. outcome' = "none" BY <1>2, <2>1 DEF AckInv, JournalInv
    <2>4. 1..(r - 1) \subseteq Settled' BY <1>3, <2>1 DEF Settled
    <2>5. JournalInv' BY <1>2, <1>3, <1>n, <2>1, <2>3, <2>4 DEF JournalInv
    <2> QED BY <2>2, <2>5 DEF AckInv
  <1> QED BY <1>4, <1>5, <1>6 DEF LiveItem

-----------------------------------------------------------------------------
LEMMA FinishStreamAck == ASSUME SyncTypes, AckInv, FinishStream PROVE AckInv'
  <1> DEFINE final == stream.final
  <1>1. /\ engine = "open" /\ ~journal.on
        /\ stream.on /\ stream.ended /\ ItemsSettled
        /\ lastApplied' = final /\ segmentAck' = 0
        /\ UNCHANGED <<serverAck, lastAck, live, receipts, journal, outcome, wire, engine, overtaken>>
        /\ call' \in {"finish", "finish_poll"}
    BY DEF FinishStream, ResumeOver, Working, StreamComplete
  <1>2. /\ final \in Nat /\ lastApplied \in Nat /\ lastAck \in Nat /\ pendingAck \in Nat
        /\ segmentAck \in Nat /\ serverAck \in Nat /\ ackSent \in Nat
        /\ stream.from \in Nat /\ final <= MaxRev /\ next \in Nat
    <2>1. final \in 0..Len(log) /\ Len(log) \in Nat /\ Len(log) <= MaxRev BY DEF SyncTypes
    <2> QED BY <2>1, CursorNats
  <1>3. lastApplied <= final /\ stream.from <= lastApplied
    BY <1>1 DEF AckInv, StreamInv
  <1>4. \A q \in 1..final : stream.from < q => q \in receipts
    <2> SUFFICES ASSUME NEW q \in 1..final, stream.from < q PROVE q \in receipts OBVIOUS
    <2>1. q \in Revs /\ q \in (stream.from + 1)..stream.final BY <1>2 DEF Revs
    <2> QED BY <1>1, <2>1 DEF ItemsSettled, AckInv, StreamInv
  <1>5. 1..final \subseteq Settled
    <2> SUFFICES ASSUME NEW q \in 1..final PROVE q \in Settled OBVIOUS
    <2>1. CASE q <= stream.from
      <3>1. q \in 1..lastApplied BY <1>2, <1>3, <2>1
      <3> QED BY <3>1 DEF AckInv, CursorInv
    <2>2. CASE stream.from < q BY <1>4, <2>2 DEF Settled
    <2> QED BY <1>2, <2>1, <2>2
  <1>6. final \in receipts \cup {0}
    <2>1. CASE stream.from < final
      <3>1. final \in 1..final BY <1>2, <2>1
      <3> QED BY <1>4, <2>1, <3>1
    <2>2. CASE ~(stream.from < final)
      <3>1. final = lastApplied BY <1>2, <1>3, <2>2
      <3> QED BY <3>1 DEF AckInv, CursorInv
    <2> QED BY <2>1, <2>2
  <1>7. conn # "items" /\ live = <<>> BY <1>1 DEF AckInv, StreamInv, LiveInv
  <1>8. JournalInv' BY <1>1, <1>7 DEF AckInv, JournalInv
  <1>9. /\ lastAck <= final /\ ackSent <= final /\ 1..serverAck \subseteq Settled
        /\ lastAck \in receipts \cup {0} /\ ackSent \in receipts \cup {0}
        /\ overtaken = {} => serverAck <= final /\ (ackSent # 0 => serverAck <= ackSent)
    BY <1>2, <1>3 DEF AckInv, CursorInv
  <1>10. CASE stream.final > lastAck /\ pendingAck' = stream.final /\ UNCHANGED <<stream, item>>
    <2>1. CursorInv'
      <3>1. ackSent # 0 => conn = "tail" BY <1>7 DEF AckInv, CursorInv, SyncTypes
      <3>2. Settled' = Settled BY <1>1 DEF Settled
      <3> HIDE DEF final
      <3>3. pendingAck' = final /\ lastAck < final /\ final # 0 BY <1>2, <1>10 DEF final
      <3>4. /\ UNCHANGED <<serverAck, lastAck, receipts, conn, ackSent, ackStored, overtaken, stream>>
            /\ lastApplied' = final /\ segmentAck' = 0 /\ stream.final = final
        BY <1>1, <1>10 DEF final
      <3> QED BY <1>2, <1>5, <1>6, <1>9, <3>1, <3>2, <3>3, <3>4, SMTT(30) DEF AckInv, CursorInv
    <2>2. StreamInv' BY <1>1, <1>2, <1>3, <1>10 DEF AckInv, StreamInv
    <2>3. LiveInv' BY <1>1, <1>10, LiveKept DEF AckInv
    <2> QED BY <1>8, <2>1, <2>2, <2>3 DEF AckInv
  <1>11. CASE /\ stream.final <= lastAck /\ stream' = NoStream /\ item' = NoItems
              /\ UNCHANGED pendingAck
    <2>0. final = lastAck /\ lastApplied = final /\ pendingAck = 0
      BY <1>2, <1>3, <1>9, <1>11 DEF AckInv, CursorInv
    <2>1. CursorInv'
      <3>1. Settled' = Settled BY <1>1 DEF Settled
      <3> HIDE DEF final
      <3>2. /\ UNCHANGED <<serverAck, lastAck, receipts, conn, ackSent, ackStored, overtaken>>
            /\ lastApplied' = final /\ segmentAck' = 0 /\ pendingAck' = 0 /\ ~stream'.on
        BY <1>1, <1>11, <2>0 DEF NoStream, final
      <3> QED BY <1>2, <1>5, <1>6, <1>9, <2>0, <3>1, <3>2, SMTT(30) DEF AckInv, CursorInv
    <2>2. StreamInv' BY <1>1, <1>7, <1>11 DEF AckInv, StreamInv, NoStream, NoItems
    <2>3. LiveInv'
      <3>1. /\ conn = "tail" => 1..(next - 1) \subseteq Settled \cup Range(live) \cup Range(deferred)
                                                   \cup 1..final
            /\ \A r \in Range(live) : 1..(r - 1) \subseteq Settled \cup Range(live)
            /\ Increasing(live) /\ Increasing(deferred) /\ \A r \in Range(deferred) : r < next
            /\ deferred # <<>> => conn = "tail"
        BY <1>1 DEF AckInv, LiveInv
      <3>2. conn = "tail" => 1..(next - 1) \subseteq Settled \cup Range(live) \cup Range(deferred)
        BY <1>5, <3>1, ZenonT(30)
      <3>3. Settled' = Settled /\ ~stream'.on BY <1>1, <1>11 DEF Settled, NoStream
      <3> HIDE DEF final
      <3> QED BY <1>1, <3>1, <3>2, <3>3, ZenonT(30), SMTT(30) DEF LiveInv
    <2> QED BY <1>8, <2>1, <2>2, <2>3 DEF AckInv
  <1> QED BY <1>10, <1>11 DEF FinishStream

LEMMA StopResumeAck == ASSUME SyncTypes, AckInv, StopResume PROVE AckInv'
  <1>1. /\ engine = "open" /\ call \in {"handler", "poll", "replaying"} /\ ~journal.on
        /\ segmentAck' = (IF SegmentStalled THEN lastApplied ELSE segmentAck)
        /\ UNCHANGED <<serverAck, lastAck, lastApplied, pendingAck, inbound, receipts, journal,
                       outcome, wire, engine, overtaken>>
        /\ call' \in {"intents", "deferred", "idle"}
        /\ call' = "deferred" => call = "replaying"
    BY DEF StopResume, ResumeOver, Working, Return
  <1>2. CursorInv'
    <2>1. CASE ~SegmentStalled
      <3>1. UNCHANGED <<serverAck, cursor, stream, conn, ackSent, ackStored, receipts, overtaken>>
        BY <1>1, <2>1
      <3> QED BY <3>1, CursorFrame DEF AckInv
    <2>2. CASE SegmentStalled
      <3>1. /\ stream.on /\ pendingAck = 0 /\ lastAck < lastApplied /\ lastApplied < stream.final
            /\ segmentAck' = lastApplied
        BY <1>1, <2>2 DEF SegmentStalled
      <3>2. Settled' = Settled BY <1>1 DEF Settled
      <3> QED BY <1>1, <3>1, <3>2, CursorNats, SMTT(30) DEF AckInv, CursorInv
    <2> QED BY <2>1, <2>2
  <1>3. call' = "deferred" => ~stream.on BY <1>1 DEF AckInv, LiveInv
  <1>4. StreamInv' /\ LiveInv' BY <1>1, <1>3, StreamFrame, LiveKept DEF AckInv
  <1>5. JournalInv' BY <1>1 DEF AckInv, JournalInv
  <1> QED BY <1>2, <1>4, <1>5 DEF AckInv
=============================================================================
