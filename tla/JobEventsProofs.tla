----------------------------- MODULE JobEventsProofs ----------------------------
(***************************************************************************)
(* Proofs about JobEvents, for any number of publishers and streams, any   *)
(* buffers, and any number of writes and faults of the network.               *)
(***************************************************************************)
EXTENDS JobEvents, TLAPS

(* A stream that has not sent its snapshot has sent nothing, and nothing   *)
(* is on the way from one that has ended and whose end was noticed.        *)
FreshWires ==
  \A s \in Streams :
    at[s] \in {"open", "subscribed"} \/ (at[s] = "free" /\ s # conn) => wire[s] = 0

(* What the page has read is no later than the table. *)
ReadBefore == list <= rev /\ \A v \in answers : v <= rev

Typed == TypeOK /\ FreshWires /\ ReadBefore

(* One step per action of Next. *)
LEMMA TypeStep == Typed /\ [Next]_vars => Typed'
<1> SUFFICES ASSUME Typed, [Next]_vars PROVE Typed'
  OBVIOUS
<1> USE NamesAssumption, SizesAssumption
<1> USE DEF Typed, TypeOK, FreshWires, ReadBefore, Read, table, broker, handlers, page
<1>1. ASSUME NEW j \in Jobs, NEW state \in {"none", "active", "ended"},
             WriteSilently(j, state)
      PROVE  Typed'
  BY <1>1 DEF WriteSilently, WriteRow
<1>2. ASSUME NEW a \in Publishers, NEW j \in Jobs,
             NEW state \in {"none", "active", "ended"}, Write(a, j, state)
      PROVE  Typed'
  BY <1>2 DEF Write, WriteRow
<1>3. CASE Close
  BY <1>3 DEF Close
<1>4. ASSUME NEW a \in Publishers, Publish(a)
      PROVE  Typed'
  BY <1>4 DEF Publish
<1>5. ASSUME NEW a \in Publishers, Published(a)
      PROVE  Typed'
  BY <1>5 DEF Published, Resting
<1>6. ASSUME NEW a \in Publishers, NEW s \in Streams, Offer(a, s)
      PROVE  Typed'
  BY <1>6 DEF Offer, Buffered
<1>7. ASSUME NEW s \in Streams, Subscribe(s)
      PROVE  Typed'
  BY <1>7 DEF Subscribe, SubscribeThenSnapshot, After
<1>8. ASSUME NEW s \in Streams, Snapshot(s)
      PROVE  Typed'
  <2>1. /\ at[s] = "subscribed" /\ at' = [at EXCEPT ![s] = "live"]
        /\ wire' = wire \/ wire' = [wire EXCEPT ![s] = @ + 1]
        /\ faults' \in 0..MaxFaults /\ excused' \in BOOLEAN
        /\ UNCHANGED <<row, rev, pub, subs, shut, closed, chan, conn, deaf, asked, answers,
                       list>>
    <3> USE DEF Snapshot, SendActive, SendNothing, SubscribeThenSnapshot, After
    <3>1. at[s] = "subscribed" /\ at' = [at EXCEPT ![s] = "live"]
      BY <1>8
    <3>2. /\ wire' = wire \/ wire' = [wire EXCEPT ![s] = @ + 1]
          /\ faults' \in 0..MaxFaults
      BY <1>8
    <3>3. excused' \in BOOLEAN
      BY <1>8
    <3>4. UNCHANGED <<row, rev, pub, subs, shut, closed, chan, conn, deaf, asked, answers,
                      list>>
      BY <1>8
    <3> QED
      BY <3>1, <3>2, <3>3, <3>4
  <2>2. wire[s] = 0 /\ 0 + 1 \in 0..Wire + 1
    BY <2>1
  <2>3. wire' \in [Streams -> 0..Wire + 1]
    BY <2>1, <2>2
  <2>4. FreshWires'
    BY <2>1
  <2> QED
    BY <2>1, <2>3, <2>4
<1>9. ASSUME NEW s \in Streams, Forward(s)
      PROVE  Typed'
  BY <1>9 DEF Forward
<1>10. ASSUME NEW s \in Streams, EndOfEvents(s) \/ ContextDone(s)
      PROVE  Typed'
  <2>1. at[s] = "live" /\ Leaves(s)
    BY <1>10 DEF EndOfEvents, ContextDone
  <2> QED
    BY <2>1 DEF Leaves
<1>11. ASSUME NEW s \in Streams, Unsubscribe(s)
      PROVE  Typed'
  BY <1>11 DEF Unsubscribe, Remaining
<1>12. CASE Connect
  BY <1>12 DEF Connect
<1>13. CASE NoticeEnd
  BY <1>13 DEF NoticeEnd
<1>14. CASE Cut
  BY <1>14 DEF Cut
<1>15. CASE Take
  BY <1>15 DEF Take
<1>16. CASE List
  BY <1>16 DEF List
<1>17. ASSUME NEW v \in Read, Land(v)
      PROVE  Typed'
  BY <1>17 DEF Land
<1>18. CASE FetchFails
  BY <1>18 DEF FetchFails
<1>19. CASE Refuse
  BY <1>19 DEF Refuse
<1>20. CASE UNCHANGED vars
  BY <1>20 DEF vars
<1> QED
  BY <1>1, <1>2, <1>3, <1>4, <1>5, <1>6, <1>7, <1>8, <1>9, <1>10, <1>11, <1>12, <1>13,
     <1>14, <1>15, <1>16, <1>17, <1>18, <1>19, <1>20 DEF Next, Writes, Publishing, Streaming

(* Types, empty fresh connections and lists from the past, in every execution. *)
LEMMA AlwaysTyped == Spec => []Typed
<1>1. Init => Typed
  <2> SUFFICES ASSUME Init PROVE Typed
    OBVIOUS
  <2>1. /\ pub \in [Publishers -> [at: {"idle", "written", "sending"}, left: SUBSET Streams]]
        /\ at \in [Streams -> {"free", "open", "subscribed", "live", "leaving"}]
        /\ row \in [Jobs -> {"none", "active", "ended"}]
    BY DEF Init, Resting
  <2>2. /\ chan \in [Streams -> 0..Buffer] /\ wire \in [Streams -> 0..Wire + 1]
        /\ rev \in Read /\ asked \in 0..MaxFetches /\ list \in -1..MaxWrites
        /\ faults \in 0..MaxFaults
    BY SizesAssumption DEF Init, Read
  <2>3. FreshWires /\ ReadBefore
    BY DEF Init, FreshWires, ReadBefore
  <2> QED
    BY <2>1, <2>2, <2>3 DEF Init, Typed, TypeOK
<1> QED
  BY <1>1, TypeStep, PTL DEF Spec

(* Every step keeps the types; in particular no buffer outgrows its size.  *)
THEOREM TypeCorrect == Spec => []TypeOK
<1>1. Typed => TypeOK
  BY DEF Typed
<1> QED
  BY <1>1, AlwaysTyped, PTL

(***************************************************************************)
(* Channels.                                                               *)
(***************************************************************************)
(* The locks: while somebody sends, the streams that are registered stay;  *)
(* and a stream between Subscribe and cancel is registered, unless its     *)
(* channel has been closed.                                                *)
Locked ==
  /\ \A a \in Publishers : pub[a].left \subseteq subs
  /\ \A a \in Publishers : pub[a].at # "sending" => pub[a].left = {}
  /\ \A s \in Streams : at[s] \in {"subscribed", "live", "leaving"} => s \in subs \cup shut

ChannelInv == Locked /\ ChannelsAreSound

(* One step per action of Next. *)
LEMMA ChannelStep == Typed /\ ChannelInv /\ [Next]_vars => ChannelInv'
<1> SUFFICES ASSUME Typed, ChannelInv, [Next]_vars PROVE ChannelInv'
  OBVIOUS
<1> USE DEF Typed, TypeOK, ChannelInv, Locked, ChannelsAreSound, NobodyPublishes,
            table, broker, handlers, page
<1>1. ASSUME NEW j \in Jobs, NEW state \in {"none", "active", "ended"},
             WriteSilently(j, state)
      PROVE  ChannelInv'
  BY <1>1 DEF WriteSilently, WriteRow
<1>2. ASSUME NEW a \in Publishers, NEW j \in Jobs,
             NEW state \in {"none", "active", "ended"}, Write(a, j, state)
      PROVE  ChannelInv'
  BY <1>2 DEF Write, WriteRow
<1>3. CASE Close
  BY <1>3 DEF Close
<1>4. ASSUME NEW a \in Publishers, Publish(a)
      PROVE  ChannelInv'
  BY <1>4 DEF Publish
<1>5. ASSUME NEW a \in Publishers, Published(a)
      PROVE  ChannelInv'
  BY <1>5 DEF Published, Resting
<1>6. ASSUME NEW a \in Publishers, NEW s \in Streams, Offer(a, s)
      PROVE  ChannelInv'
  BY <1>6 DEF Offer, Buffered
<1>7. ASSUME NEW s \in Streams, Subscribe(s)
      PROVE  ChannelInv'
  BY <1>7 DEF Subscribe, SubscribeThenSnapshot, After
<1>8. ASSUME NEW s \in Streams, Snapshot(s)
      PROVE  ChannelInv'
  BY <1>8 DEF Snapshot, SendActive, SendNothing, SubscribeThenSnapshot, After
<1>9. ASSUME NEW s \in Streams, Forward(s)
      PROVE  ChannelInv'
  BY <1>9 DEF Forward
<1>10. ASSUME NEW s \in Streams, EndOfEvents(s) \/ ContextDone(s)
      PROVE  ChannelInv'
  BY <1>10 DEF EndOfEvents, ContextDone, Leaves
<1>11. ASSUME NEW s \in Streams, Unsubscribe(s)
      PROVE  ChannelInv'
  BY <1>11 DEF Unsubscribe, Remaining
<1>12. CASE Connect
  BY <1>12 DEF Connect
<1>13. CASE NoticeEnd
  BY <1>13 DEF NoticeEnd
<1>14. CASE Cut
  BY <1>14 DEF Cut
<1>15. CASE Take
  BY <1>15 DEF Take
<1>16. CASE List
  BY <1>16 DEF List
<1>17. ASSUME NEW v \in Read, Land(v)
      PROVE  ChannelInv'
  BY <1>17 DEF Land
<1>18. CASE FetchFails
  BY <1>18 DEF FetchFails
<1>19. CASE Refuse
  BY <1>19 DEF Refuse
<1>20. CASE UNCHANGED vars
  BY <1>20 DEF vars
<1> QED
  BY <1>1, <1>2, <1>3, <1>4, <1>5, <1>6, <1>7, <1>8, <1>9, <1>10, <1>11, <1>12, <1>13,
     <1>14, <1>15, <1>16, <1>17, <1>18, <1>19, <1>20 DEF Next, Writes, Publishing, Streaming

(* The strengthening holds in every execution. *)
LEMMA ChannelsInvariant == Spec => [](Typed /\ ChannelInv)
<1>1. Init => ChannelInv
  BY DEF Init, ChannelInv, Locked, ChannelsAreSound, Resting
<1> QED
  BY <1>1, AlwaysTyped, ChannelStep, PTL DEF Spec

(* However many publish, subscribe and leave while the broker is closed,   *)
(* nothing is sent to a closed channel, none is closed twice, and no       *)
(* subscription outlives its stream.                                       *)
THEOREM SoundChannels == Spec => []ChannelsAreSound
<1>1. ChannelInv => ChannelsAreSound
  BY DEF ChannelInv
<1> QED
  BY <1>1, ChannelsInvariant, PTL

(***************************************************************************)
(* The page.                                                               *)
(***************************************************************************)
(* One step per action of Next: whatever takes one warning away leaves another. *)
LEMMA WarnedStep ==
  Typed /\ ChannelInv /\ StalePagesAreWarned /\ [Next]_vars => StalePagesAreWarned'
<1> SUFFICES ASSUME Typed, ChannelInv, StalePagesAreWarned, [Next]_vars
             PROVE  StalePagesAreWarned'
  OBVIOUS
<1> USE NamesAssumption, SizesAssumption
<1> USE DEF Typed, TypeOK, FreshWires, ReadBefore, Read, ChannelInv, Locked,
            StalePagesAreWarned, Warned, table, broker, handlers, page
<1>1. ASSUME NEW j \in Jobs, NEW state \in {"none", "active", "ended"},
             WriteSilently(j, state)
      PROVE  StalePagesAreWarned'
  BY <1>1 DEF WriteSilently, WriteRow
<1>2. ASSUME NEW a \in Publishers, NEW j \in Jobs,
             NEW state \in {"none", "active", "ended"}, Write(a, j, state)
      PROVE  StalePagesAreWarned'
  BY <1>2 DEF Write, WriteRow
<1>3. CASE Close
  BY <1>3 DEF Close
<1>4. ASSUME NEW a \in Publishers, Publish(a)
      PROVE  StalePagesAreWarned'
  BY <1>4 DEF Publish
<1>5. ASSUME NEW a \in Publishers, Published(a)
      PROVE  StalePagesAreWarned'
  BY <1>5 DEF Published, Resting
<1>6. ASSUME NEW a \in Publishers, NEW s \in Streams, Offer(a, s)
      PROVE  StalePagesAreWarned'
  BY <1>6 DEF Offer, Buffered
<1>7. ASSUME NEW s \in Streams, Subscribe(s)
      PROVE  StalePagesAreWarned'
  <2>1. /\ at[s] = "open" /\ at' = [at EXCEPT ![s] = "subscribed"]
        /\ shut' \subseteq shut \cup {s} /\ shut \subseteq shut' \cup {s}
        /\ UNCHANGED <<rev, pub, chan, wire, conn, deaf, asked, answers, list, excused>>
    BY <1>7 DEF Subscribe, SubscribeThenSnapshot, After
  <2>2. CASE conn = s
    BY <2>1, <2>2
  <2>3. CASE conn # s
    BY <2>1, <2>3
  <2> QED
    BY <2>2, <2>3
<1>8. ASSUME NEW s \in Streams, Snapshot(s)
      PROVE  StalePagesAreWarned'
  <2>1. /\ at[s] = "subscribed" /\ at' = [at EXCEPT ![s] = "live"]
        /\ UNCHANGED <<rev, pub, shut, chan, conn, deaf, asked, answers, list>>
    BY <1>8 DEF Snapshot, SubscribeThenSnapshot, After
  <2>2. CASE s = conn
    <3>1. CASE wire' = [wire EXCEPT ![s] = @ + 1]
      <4>1. wire'[conn] = 1
        BY <2>1, <2>2, <3>1
      <4> QED
        BY <2>1, <2>2, <4>1
    <3>2. CASE excused' = (excused \/ list # rev)
      BY <2>1, <3>2
    <3>3. wire' = [wire EXCEPT ![s] = @ + 1] \/ excused' = (excused \/ list # rev)
      BY <1>8, <2>2 DEF Snapshot, SendActive, SendNothing, Untold
    <3> QED
      BY <3>1, <3>2, <3>3
  <2>3. CASE s # conn
    <3>1. excused' = excused /\ (conn # None => at'[conn] = at[conn] /\ wire'[conn] = wire[conn])
      BY <1>8, <2>1, <2>3 DEF Snapshot, SendActive, SendNothing, Untold
    <3> QED
      BY <2>1, <2>3, <3>1
  <2> QED
    BY <2>2, <2>3
<1>9. ASSUME NEW s \in Streams, Forward(s)
      PROVE  StalePagesAreWarned'
  BY <1>9 DEF Forward
<1>10. ASSUME NEW s \in Streams, EndOfEvents(s) \/ ContextDone(s)
      PROVE  StalePagesAreWarned'
  BY <1>10 DEF EndOfEvents, ContextDone, Leaves
<1>11. ASSUME NEW s \in Streams, Unsubscribe(s)
      PROVE  StalePagesAreWarned'
  BY <1>11 DEF Unsubscribe, Remaining
<1>12. CASE Connect
  BY <1>12 DEF Connect
<1>13. CASE NoticeEnd
  BY <1>13 DEF NoticeEnd
<1>14. CASE Cut
  BY <1>14 DEF Cut
<1>15. CASE Take
  BY <1>15 DEF Take
<1>16. CASE List
  BY <1>16 DEF List
<1>17. ASSUME NEW v \in Read, Land(v)
      PROVE  StalePagesAreWarned'
  <2>1. /\ list' = v /\ answers' = answers \ {v}
        /\ excused' = (v # rev /\ (excused \/ v < list))
        /\ UNCHANGED <<rev, pub, at, shut, chan, wire, conn, deaf, asked>>
    BY <1>17 DEF Land
  <2>2. CASE v = rev \/ excused \/ v < list \/ deaf
    BY <2>1, <2>2
  <2>3. CASE v # rev /\ ~excused /\ ~(v < list) /\ ~deaf
    <3>1. v <= rev /\ list # rev
      BY <1>17, <2>3 DEF Land
    <3>2. Warned
      BY <2>3, <3>1
    <3> QED
      BY <2>1, <2>3, <3>2
  <2> QED
    BY <2>2, <2>3
<1>18. CASE FetchFails
  BY <1>18 DEF FetchFails
<1>19. CASE Refuse
  BY <1>19 DEF Refuse
<1>20. CASE UNCHANGED vars
  BY <1>20 DEF vars
<1> QED
  BY <1>1, <1>2, <1>3, <1>4, <1>5, <1>6, <1>7, <1>8, <1>9, <1>10, <1>11, <1>12, <1>13,
     <1>14, <1>15, <1>16, <1>17, <1>18, <1>19, <1>20 DEF Next, Writes, Publishing, Streaming

(* A page whose list is old is on its way to ask again, however events are *)
(* dropped and streams end, unless nobody tells it.                        *)
THEOREM StalePagesWarned == Spec => []StalePagesAreWarned
<1>1. Init => StalePagesAreWarned
  BY DEF Init, StalePagesAreWarned, Warned
<1> QED
  BY <1>1, ChannelsInvariant, WarnedStep, PTL DEF Spec
=================================================================================
