------------------------ MODULE TcpConnectionProofs -------------------------
(***************************************************************************)
(* Theorems about TcpConnection, for any senders, requests and limits.     *)
(*                                                                         *)
(* ConnInv is the inductive invariant.  Every accepted send is in one      *)
(* place, in the order of the ids (InLine): reported, about to be          *)
(* reported, being written, taken from the writer by disconnect(), or      *)
(* queued.  Nothing but the writer's peer or a close fails a send          *)
(* (Closing), no send succeeds after one that failed (Fates), and so what  *)
(* is in the stream are the payloads of the sends that succeeded, and at   *)
(* most a part of one more (OnWire).                                       *)
(***************************************************************************)
EXTENDS TcpConnection, Sums, SequenceTheorems

\* The send that is being written has no completion yet.
Writing == wpc \in {"write", "step", "parked", "judge", "settle"}

\* How many completions are known, and with them the send being written.
Decided == Len(reports) + Len(toReport)
Begun == Decided + (IF Writing THEN 1 ELSE 0)

\* Where the writer is in a drain.
Drain ==
    /\ Writing => toReport = <<>> /\ active # 0
    /\ wpc \in {"check", "asleep", "gone"} =>
          toReport = <<>> /\ active = 0 /\ written = 0 /\ outcome = "None"
    /\ wpc \in {"free", "teardown", "ended", "report"} => toReport # <<>>
    /\ failed => wpc \notin {"check", "asleep", "gone", "write", "step", "parked", "judge"}
    /\ wpc \in {"teardown", "ended"} => failed

\* Whatever closes the socket closes the channel first.
Closing ==
    /\ ~linked \/ ~socket \/ ~alive => ~open
    /\ dpc \in {"close", "join", "tell", "retire", "done"} => ~open
    /\ failed => wpc = "settle" \/ ~open
    /\ cancelledIds # <<>> => queue = <<>> /\ ~open
    /\ outcome = "Disconnected" => ~open \/ ~peerUp
    /\ wpc = "settle" /\ outcome # "None" => failed \/ ~open

\* The ids 1 .. Len(sends), in order: each is in one place.
InLine ==
    /\ Len(sends) = Begun + Len(cancelledIds) + Len(queue)
    /\ \A i \in 1 .. Len(reports) : reports[i].id = i
    /\ \A i \in 1 .. Len(toReport) : toReport[i].id = Len(reports) + i
    /\ Writing => active = Begun
    /\ \A i \in 1 .. Len(cancelledIds) : cancelledIds[i] = Begun + i
    /\ \A i \in 1 .. Len(queue) : queue[i] = Begun + Len(cancelledIds) + i

\* The k-th completion, reported or about to be.
Fate(k) == IF k <= Len(reports) THEN reports[k].error ELSE toReport[k - Len(reports)].error

AnyFailed == \E k \in 1 .. Decided : Fate(k) # "None"

Fates ==
    /\ AnyFailed => ~open
    /\ \A k, m \in 1 .. Decided : k < m /\ Fate(k) # "None" => Fate(m) # "None"

\* After a failure the send being written fails too: none of it is written.
Doomed ==
    Writing /\ AnyFailed =>
        \/ outcome # "None"
        \/ wpc = "write" /\ written = 0
        \/ wpc = "judge" /\ written = 0 /\ sends[active].size = 0

\* pending counts the bytes queued and those of the send being written.
Counted == pending = Bytes(queue) + (IF Writing THEN sends[active].size ELSE 0)

\* What waiters were told are fates: nothing of what is queued or being written.
Told ==
    \A a \in answers : a.id <= Decided \/ a.id \in ToSet(cancelledIds)

Lent ==
    \A i \in ToSet(queue) \cup (IF Writing THEN {active} ELSE {}) :
        sends[i].sync => \E c \in Senders : cur[c] = i /\ pc[c] = "wait"

\* How far the writer got with its send says how it ends.
Judged ==
    Writing =>
        /\ written <= sends[active].size
        /\ wpc \in {"step", "parked"} => outcome = "None" /\ written < sends[active].size
        /\ wpc = "write" => outcome = "None"
        /\ wpc = "judge" /\ outcome = "None" => written = sends[active].size
        /\ wpc = "judge" /\ outcome # "None" => written < sends[active].size
        /\ wpc = "settle" /\ outcome = "None" => written = sends[active].size
        /\ wpc = "settle" /\ outcome # "None" =>
              written < sends[active].size \/ sends[active].size = 0

IsWhole(i, e) ==
    IF e = "None" THEN BytesOut(i) = sends[i].size
    ELSE BytesOut(i) < sends[i].size \/ sends[i].size = 0

OnWire ==
    /\ \A k \in DOMAIN stream : stream[k] <= Begun
    /\ \A k \in 1 .. Len(stream) - 1 :
          \/ stream[k] = stream[k + 1]
          \/ stream[k] < stream[k + 1] /\ BytesOut(stream[k]) = sends[stream[k]].size
    /\ Writing => BytesOut(active) = written
    /\ \A r \in ToSet(reports) \cup ToSet(toReport) \cup answers : IsWhole(r.id, r.error)

\* The types of what threads are at and of what a send is made of.
Flags ==
    /\ connected \in BOOLEAN /\ running \in BOOLEAN /\ alive \in BOOLEAN
    /\ linked \in BOOLEAN /\ socket \in BOOLEAN /\ open \in BOOLEAN
    /\ peerUp \in BOOLEAN /\ timeout \in BOOLEAN /\ failed \in BOOLEAN

ThreadTypes ==
    /\ mark \in Marks
    /\ pc \in [Senders -> {"idle", "enter", "full", "asleep", "wait"}]
    /\ req \in [Senders -> Request]
    /\ wpc \in {"check", "asleep", "write", "step", "parked", "judge", "settle",
                "free", "teardown", "ended", "report", "heard", "gone"}
    /\ outcome \in Errors \cup {"Timeout"}
    /\ rpc \in {"loop", "eof", "claimed", "retire", "tell", "heard", "done"}
    /\ dpc \in {"none", "cut", "close", "join", "tell", "retire", "done"}
    /\ caller \in {Main, Receiver, Writer}
    /\ written \in Nat /\ unread \in 0 .. Capacity /\ ends \in Nat

\* The types of what holds sends and their ids; that of pending follows from Counted.
ItemTypes ==
    /\ sends \in Seq(Request) /\ answers \subseteq Completions
    /\ cur \in [Senders -> 0 .. Len(sends)] /\ active \in 0 .. Len(sends)
    /\ queue \in Seq(1 .. Len(sends)) /\ cancelledIds \in Seq(1 .. Len(sends))
    /\ stream \in Seq(1 .. Len(sends))
    /\ reports \in Seq(Completions) /\ toReport \in Seq(Completions)

\* Where the sends are and how they end.
SendsInv == InLine /\ Fates /\ Doomed /\ Counted /\ Told /\ Lent /\ Judged /\ OnWire

ConnInv ==
    Flags /\ ThreadTypes /\ ItemTypes /\ Drain /\ Closing /\ CloseIsNoFailure /\ SendsInv

-----------------------------------------------------------------------------
(* What the operators return.                                              *)

LEMMA CutIs ==
    ASSUME NEW n \in Nat, NEW q \in Seq(1 .. n)
    PROVE  /\ Cut(q) \in Seq([id : 1 .. n, error : Errors])
           /\ Len(Cut(q)) = Len(q)
           /\ \A i \in 1 .. Len(q) : Cut(q)[i].id = q[i] /\ Cut(q)[i].error = "Disconnected"
  <1>1. Len(q) \in Nat /\ DOMAIN q = 1 .. Len(q) /\ \A i \in 1 .. Len(q) : q[i] \in 1 .. n
    BY LenProperties, ElementOfSeq
  <1>2. Cut(q) \in [1 .. Len(q) -> [id : 1 .. n, error : Errors]]
    BY <1>1 DEF Cut, Errors
  <1> DEFINE S == [id : 1 .. n, error : Errors]
  <1> HIDE DEF S
  <1>3. Cut(q) \in Seq(S)
    <2>1. Cut(q) \in [1 .. Len(q) -> S]
      BY <1>2 DEF S
    <2> QED BY <1>1, <2>1, SeqDef
  <1>4. DOMAIN Cut(q) = 1 .. Len(q)
    BY <1>2
  <1>5. Len(Cut(q)) = Len(q)
    BY <1>1, <1>3, <1>4, LenProperties
  <1> QED BY <1>1, <1>3, <1>5 DEF Cut, S

LEMMA ThreeParts ==
    ASSUME NEW S, NEW a \in Seq(S), NEW b \in Seq(S), NEW c \in Seq(S)
    PROVE  /\ (a \o b) \o c \in Seq(S)
           /\ Len((a \o b) \o c) = Len(a) + Len(b) + Len(c)
           /\ \A i \in 1 .. Len(a) : ((a \o b) \o c)[i] = a[i]
           /\ \A i \in 1 .. Len(b) : ((a \o b) \o c)[Len(a) + i] = b[i]
           /\ \A i \in 1 .. Len(c) : ((a \o b) \o c)[Len(a) + Len(b) + i] = c[i]
  <1>1. Len(a) \in Nat /\ Len(b) \in Nat /\ Len(c) \in Nat
    BY LenProperties
  <1>2. /\ a \o b \in Seq(S) /\ Len(a \o b) = Len(a) + Len(b)
        /\ \A i \in 1 .. Len(a) + Len(b) :
              (a \o b)[i] = IF i <= Len(a) THEN a[i] ELSE b[i - Len(a)]
    BY ConcatProperties
  <1> DEFINE ab == a \o b
  <1> HIDE DEF ab
  <1>3. ab \in Seq(S)
    BY <1>2 DEF ab
  <1>4. /\ ab \o c \in Seq(S) /\ Len(ab \o c) = Len(ab) + Len(c)
        /\ \A i \in 1 .. Len(ab) + Len(c) :
              (ab \o c)[i] = IF i <= Len(ab) THEN ab[i] ELSE c[i - Len(ab)]
    BY <1>3, ConcatProperties
  <1> QED BY <1>1, <1>2, <1>4 DEF ab

LEMMA OverIs ==
    ASSUME ThreadTypes, ItemTypes, active # 0, NEW q \in Seq(1 .. Len(sends))
    PROVE  /\ Over(q) \in Seq(Completions)
           /\ Len(Over(q)) = 1 + Len(q) + Len(cancelledIds)
           /\ Over(q)[1] = Completion
           /\ \A i \in 1 .. Len(q) :
                 Over(q)[1 + i].id = q[i] /\ Over(q)[1 + i].error = "Disconnected"
           /\ \A i \in 1 .. Len(cancelledIds) :
                 /\ Over(q)[1 + Len(q) + i].id = cancelledIds[i]
                 /\ Over(q)[1 + Len(q) + i].error = "Disconnected"
  <1>1. Len(sends) \in Nat /\ Len(q) \in Nat /\ Len(cancelledIds) \in Nat
    BY LenProperties DEF ItemTypes
  <1>2. /\ Cut(q) \in Seq(Completions) /\ Len(Cut(q)) = Len(q)
        /\ \A i \in 1 .. Len(q) : Cut(q)[i].id = q[i] /\ Cut(q)[i].error = "Disconnected"
    BY <1>1, CutIs DEF Completions
  <1>3. /\ Cut(cancelledIds) \in Seq(Completions) /\ Len(Cut(cancelledIds)) = Len(cancelledIds)
        /\ \A i \in 1 .. Len(cancelledIds) :
              /\ Cut(cancelledIds)[i].id = cancelledIds[i]
              /\ Cut(cancelledIds)[i].error = "Disconnected"
    BY <1>1, CutIs DEF Completions, ItemTypes
  <1>4. <<Completion>> \in Seq(Completions) /\ Len(<<Completion>>) = 1 /\ <<Completion>>[1] = Completion
    BY DEF ThreadTypes, ItemTypes, Completion, Completions, Errors
  <1> DEFINE one == <<Completion>>
             some == Cut(q)
             last == Cut(cancelledIds)
  <1>5. one \in Seq(Completions) /\ some \in Seq(Completions) /\ last \in Seq(Completions)
    BY <1>2, <1>3, <1>4
  <1>6. /\ (one \o some) \o last \in Seq(Completions)
        /\ Len((one \o some) \o last) = Len(one) + Len(some) + Len(last)
        /\ \A i \in 1 .. Len(one) : ((one \o some) \o last)[i] = one[i]
        /\ \A i \in 1 .. Len(some) : ((one \o some) \o last)[Len(one) + i] = some[i]
        /\ \A i \in 1 .. Len(last) : ((one \o some) \o last)[Len(one) + Len(some) + i] = last[i]
    <2> HIDE DEF one, some, last
    <2> QED BY ONLY <1>5, ThreeParts
  <1>7. Over(q) = (one \o some) \o last
    BY DEF Over
  <1> QED BY <1>1, <1>2, <1>3, <1>4, <1>6, <1>7

\* The senders woken and the writer woken are where they were, or in the loop.
LEMMA Woken ==
    ASSUME ThreadTypes
    PROVE  /\ SendersWoken \in [Senders -> {"idle", "enter", "full", "asleep", "wait"}]
           /\ \A c \in Senders : SendersWoken[c] = "wait" <=> pc[c] = "wait"
           /\ WriterWoken = wpc \/ (wpc = "asleep" /\ WriterWoken = "check")
  BY DEF ThreadTypes, SendersWoken, WriterWoken

-----------------------------------------------------------------------------
(* Every step preserves where threads are and what closes the connection.      *)

\* What threads are at stays well typed.
LEMMA ThreadTypesStep ==
    ASSUME ThreadTypes, ItemTypes, Drain, Judged, Next
    PROVE  ThreadTypes'
  <1> USE ConnectionConstants
      DEF ThreadTypes, Errors, SendersWoken, WriterWoken, WriterMoves, Nothing, Request,
          stateVars, chanVars, senderVars, itemVars, writerVars, endVars, peerVars, told
  <1>1. ASSUME NEW c \in Senders, Accept(c) PROVE ThreadTypes'
    BY <1>1 DEF Accept
  <1>2. ASSUME NEW c \in Senders, Refuse(c) PROVE ThreadTypes'
    BY <1>2 DEF Refuse
  <1>3. ASSUME NEW c \in Senders, FindFull(c) PROVE ThreadTypes'
    BY <1>3 DEF FindFull
  <1>4. ASSUME NEW c \in Senders, FallAsleep(c) PROVE ThreadTypes'
    BY <1>4 DEF FallAsleep
  <1>5. ASSUME NEW c \in Senders, SendReturns(c) PROVE ThreadTypes'
    BY <1>5 DEF SendReturns
  <1>6. ASSUME NEW c \in Senders, NEW r \in Requests, SendStarts(c, r) PROVE ThreadTypes'
    BY <1>6 DEF SendStarts
  <1>7. ASSUME NEW m \in Marks, Resize(m) PROVE ThreadTypes'
    BY <1>7 DEF Resize
  <1>8. ASSUME WriterChecks PROVE ThreadTypes'
    BY <1>8 DEF WriterChecks
  <1>9. ASSUME WriterTakes PROVE ThreadTypes'
    BY <1>9 DEF WriterTakes
  <1>10. ASSUME WriterTakesCancelled PROVE ThreadTypes'
    BY <1>10 DEF WriterTakesCancelled
  <1>11. ASSUME WriterLooks PROVE ThreadTypes'
    BY <1>11 DEF WriterLooks
  <1>12. ASSUME WriterWrites PROVE ThreadTypes'
    <2>1. sends[active].size \in Nat /\ written <= sends[active].size
      <3>1. Writing /\ active \in 1 .. Len(sends)
        BY <1>12, LenProperties DEF WriterWrites, Drain, Writing, ItemTypes
      <3>2. sends[active] \in Request
        BY ONLY <3>1, ItemTypes, ElementOfSeq DEF ItemTypes
      <3> QED BY <3>1, <3>2 DEF Judged, Request
    <2> HIDE DEF Request
    <2> DEFINE left == sends[active].size - written
               room == Capacity - unread
    <2>2. left \in Nat /\ room \in Nat /\ room <= Capacity
      BY <2>1
    <2>3. written' = written + (IF left < room THEN left ELSE room)
      BY <1>12 DEF WriterWrites
    <2>4. unread' = unread + (IF left < room THEN left ELSE room)
      BY <1>12 DEF WriterWrites
    <2>5. written' \in Nat /\ unread' \in 0 .. Capacity
      <3> HIDE DEF left
      <3> QED BY <2>2, <2>3, <2>4
    <2> QED BY <1>12, <2>5 DEF WriterWrites
  <1>13. ASSUME WriterFails PROVE ThreadTypes'
    BY <1>13 DEF WriterFails
  <1>14. ASSUME WriterParks PROVE ThreadTypes'
    BY <1>14 DEF WriterParks
  <1>15. ASSUME WriterResumes PROVE ThreadTypes'
    BY <1>15 DEF WriterResumes
  <1>16. ASSUME WriterTimesOut PROVE ThreadTypes'
    BY <1>16 DEF WriterTimesOut
  <1>17. ASSUME WriterJudges PROVE ThreadTypes'
    BY <1>17 DEF WriterJudges
  <1>18. ASSUME WriterSettles PROVE ThreadTypes'
    BY <1>18 DEF WriterSettles
  <1>19. ASSUME WriterFrees PROVE ThreadTypes'
    BY <1>19 DEF WriterFrees
  <1>20. ASSUME WriterTearsDown PROVE ThreadTypes'
    BY <1>20 DEF WriterTearsDown
  <1>21. ASSUME WriterEnds PROVE ThreadTypes'
    BY <1>21 DEF WriterEnds
  <1>22. ASSUME WriterReports PROVE ThreadTypes'
    BY <1>22 DEF WriterReports
  <1>23. ASSUME ListenerReturns PROVE ThreadTypes'
    BY <1>23 DEF ListenerReturns
  <1>24. ASSUME ReceiverSeesEnd PROVE ThreadTypes'
    BY <1>24 DEF ReceiverSeesEnd
  <1>25. ASSUME ReceiverClaims \/ ReceiverDisconnects PROVE ThreadTypes'
    BY <1>25 DEF ReceiverClaims, ReceiverDisconnects
  <1>26. ASSUME ReceiverRetires PROVE ThreadTypes'
    BY <1>26 DEF ReceiverRetires
  <1>27. ASSUME ReceiverTells PROVE ThreadTypes'
    BY <1>27 DEF ReceiverTells
  <1>28. ASSUME ReceiverStops PROVE ThreadTypes'
    BY <1>28 DEF ReceiverStops
  <1>29. ASSUME DisconnectCuts PROVE ThreadTypes'
    BY <1>29 DEF DisconnectCuts
  <1>30. ASSUME DisconnectCloses PROVE ThreadTypes'
    BY <1>30 DEF DisconnectCloses
  <1>31. ASSUME DisconnectJoins PROVE ThreadTypes'
    BY <1>31 DEF DisconnectJoins
  <1>32. ASSUME DisconnectTells PROVE ThreadTypes'
    BY <1>32 DEF DisconnectTells
  <1>33. ASSUME DisconnectRetires PROVE ThreadTypes'
    BY <1>33 DEF DisconnectRetires
  <1>34. ASSUME PeerReads PROVE ThreadTypes'
    BY <1>34 DEF PeerReads
  <1>35. ASSUME PeerCloses PROVE ThreadTypes'
    BY <1>35 DEF PeerCloses
  <1>36. ASSUME NEW who \in {Main, Receiver, Writer}, DisconnectStarts(who) PROVE ThreadTypes'
    BY <1>36 DEF DisconnectStarts
  <1> QED
    BY <1>1, <1>2, <1>3, <1>4, <1>5, <1>6, <1>7, <1>8, <1>9, <1>10, <1>11, <1>12,
       <1>13, <1>14, <1>15, <1>16, <1>17, <1>18, <1>19, <1>20, <1>21, <1>22, <1>23,
       <1>24, <1>25, <1>26, <1>27, <1>28, <1>29, <1>30, <1>31, <1>32, <1>33, <1>34,
       <1>35, <1>36
       DEF Next, SenderStep, WriterStep, ReceiverStep, DisconnectStep

\* A flag is TRUE or FALSE.
LEMMA FlagsStep ==
    ASSUME Flags, Next
    PROVE  Flags'
  <1> USE ConnectionConstants
      DEF Flags, WriterMoves, Breaks, stateVars, chanVars, senderVars, itemVars, writerVars,
          endVars, peerVars, told
  <1>1. ASSUME NEW c \in Senders, Accept(c) PROVE Flags'
    BY <1>1 DEF Accept
  <1>2. ASSUME NEW c \in Senders, Refuse(c) PROVE Flags'
    BY <1>2 DEF Refuse
  <1>3. ASSUME NEW c \in Senders, FindFull(c) PROVE Flags'
    BY <1>3 DEF FindFull
  <1>4. ASSUME NEW c \in Senders, FallAsleep(c) PROVE Flags'
    BY <1>4 DEF FallAsleep
  <1>5. ASSUME NEW c \in Senders, SendReturns(c) PROVE Flags'
    BY <1>5 DEF SendReturns
  <1>6. ASSUME NEW c \in Senders, NEW r \in Requests, SendStarts(c, r) PROVE Flags'
    BY <1>6 DEF SendStarts
  <1>7. ASSUME NEW m \in Marks, Resize(m) PROVE Flags'
    BY <1>7 DEF Resize
  <1>8. ASSUME WriterChecks PROVE Flags'
    BY <1>8 DEF WriterChecks
  <1>9. ASSUME WriterTakes PROVE Flags'
    BY <1>9 DEF WriterTakes
  <1>10. ASSUME WriterTakesCancelled PROVE Flags'
    BY <1>10 DEF WriterTakesCancelled
  <1>11. ASSUME WriterLooks PROVE Flags'
    BY <1>11 DEF WriterLooks
  <1>12. ASSUME WriterWrites PROVE Flags'
    BY <1>12 DEF WriterWrites
  <1>13. ASSUME WriterFails PROVE Flags'
    BY <1>13 DEF WriterFails
  <1>14. ASSUME WriterParks PROVE Flags'
    BY <1>14 DEF WriterParks
  <1>15. ASSUME WriterResumes PROVE Flags'
    BY <1>15 DEF WriterResumes
  <1>16. ASSUME WriterTimesOut PROVE Flags'
    BY <1>16 DEF WriterTimesOut
  <1>17. ASSUME WriterJudges PROVE Flags'
    BY <1>17 DEF WriterJudges
  <1>18. ASSUME WriterSettles PROVE Flags'
    BY <1>18 DEF WriterSettles
  <1>19. ASSUME WriterFrees PROVE Flags'
    BY <1>19 DEF WriterFrees
  <1>20. ASSUME WriterTearsDown PROVE Flags'
    BY <1>20 DEF WriterTearsDown
  <1>21. ASSUME WriterEnds PROVE Flags'
    BY <1>21 DEF WriterEnds
  <1>22. ASSUME WriterReports PROVE Flags'
    BY <1>22 DEF WriterReports
  <1>23. ASSUME ListenerReturns PROVE Flags'
    BY <1>23 DEF ListenerReturns
  <1>24. ASSUME ReceiverSeesEnd PROVE Flags'
    BY <1>24 DEF ReceiverSeesEnd
  <1>25. ASSUME ReceiverClaims \/ ReceiverDisconnects PROVE Flags'
    BY <1>25 DEF ReceiverClaims, ReceiverDisconnects
  <1>26. ASSUME ReceiverRetires PROVE Flags'
    BY <1>26 DEF ReceiverRetires
  <1>27. ASSUME ReceiverTells PROVE Flags'
    BY <1>27 DEF ReceiverTells
  <1>28. ASSUME ReceiverStops PROVE Flags'
    BY <1>28 DEF ReceiverStops
  <1>29. ASSUME DisconnectCuts PROVE Flags'
    BY <1>29 DEF DisconnectCuts
  <1>30. ASSUME DisconnectCloses PROVE Flags'
    BY <1>30 DEF DisconnectCloses
  <1>31. ASSUME DisconnectJoins PROVE Flags'
    BY <1>31 DEF DisconnectJoins
  <1>32. ASSUME DisconnectTells PROVE Flags'
    BY <1>32 DEF DisconnectTells
  <1>33. ASSUME DisconnectRetires PROVE Flags'
    BY <1>33 DEF DisconnectRetires
  <1>34. ASSUME PeerReads PROVE Flags'
    BY <1>34 DEF PeerReads
  <1>35. ASSUME PeerCloses PROVE Flags'
    BY <1>35 DEF PeerCloses
  <1>36. ASSUME NEW who \in {Main, Receiver, Writer}, DisconnectStarts(who) PROVE Flags'
    BY <1>36 DEF DisconnectStarts
  <1> QED
    BY <1>1, <1>2, <1>3, <1>4, <1>5, <1>6, <1>7, <1>8, <1>9, <1>10, <1>11, <1>12,
       <1>13, <1>14, <1>15, <1>16, <1>17, <1>18, <1>19, <1>20, <1>21, <1>22, <1>23,
       <1>24, <1>25, <1>26, <1>27, <1>28, <1>29, <1>30, <1>31, <1>32, <1>33, <1>34,
       <1>35, <1>36
       DEF Next, SenderStep, WriterStep, ReceiverStep, DisconnectStep

\* Where the writer is in a drain, and what closes the channel.
LEMMA ClosingStep ==
    ASSUME Flags, ThreadTypes, ItemTypes, Drain, Closing, CloseIsNoFailure, Next
    PROVE  Drain' /\ Closing' /\ CloseIsNoFailure'
  <1> USE DEF Drain, Closing, CloseIsNoFailure, Writing, WriterMoves, WriterWoken, Blocked,
              stateVars, chanVars, senderVars, itemVars, writerVars, endVars, peerVars, told
  <1>1. ASSUME NEW c \in Senders, Accept(c) PROVE Drain' /\ Closing' /\ CloseIsNoFailure'
    BY <1>1 DEF Accept
  <1>2. ASSUME NEW c \in Senders, Refuse(c) PROVE Drain' /\ Closing' /\ CloseIsNoFailure'
    BY <1>2 DEF Refuse
  <1>3. ASSUME NEW c \in Senders, FindFull(c) PROVE Drain' /\ Closing' /\ CloseIsNoFailure'
    BY <1>3 DEF FindFull
  <1>4. ASSUME NEW c \in Senders, FallAsleep(c) PROVE Drain' /\ Closing' /\ CloseIsNoFailure'
    BY <1>4 DEF FallAsleep
  <1>5. ASSUME NEW c \in Senders, SendReturns(c) PROVE Drain' /\ Closing' /\ CloseIsNoFailure'
    BY <1>5 DEF SendReturns
  <1>6. ASSUME NEW c \in Senders, NEW r \in Requests, SendStarts(c, r)
         PROVE  Drain' /\ Closing' /\ CloseIsNoFailure'
    BY <1>6 DEF SendStarts
  <1>7. ASSUME NEW m \in Marks, Resize(m) PROVE Drain' /\ Closing' /\ CloseIsNoFailure'
    BY <1>7 DEF Resize
  <1>8. ASSUME WriterChecks PROVE Drain' /\ Closing' /\ CloseIsNoFailure'
    BY <1>8 DEF WriterChecks
  <1>9. ASSUME WriterTakes PROVE Drain' /\ Closing' /\ CloseIsNoFailure'
    <2>1. active' # 0
      <3>1. queue # <<>> /\ active' = Head(queue)
        BY <1>9 DEF WriterTakes
      <3>2. queue \in Seq(1 .. Len(sends))
        BY DEF ItemTypes
      <3> QED BY ONLY <3>1, <3>2, HeadTailProperties
    <2> QED BY <1>9, <2>1 DEF WriterTakes
  <1>10. ASSUME WriterTakesCancelled PROVE Drain' /\ Closing' /\ CloseIsNoFailure'
    <2>1. Len(Cut(cancelledIds)) = Len(cancelledIds)
      BY CutIs, LenProperties DEF ItemTypes
    <2>2. Cut(cancelledIds) # <<>>
      BY <1>10, <2>1, EmptySeq DEF WriterTakesCancelled, ItemTypes
    <2> QED BY <1>10, <2>2 DEF WriterTakesCancelled
  <1>11. ASSUME WriterLooks PROVE Drain' /\ Closing' /\ CloseIsNoFailure'
    BY <1>11 DEF WriterLooks
  <1>12. ASSUME WriterWrites PROVE Drain' /\ Closing' /\ CloseIsNoFailure'
    BY <1>12 DEF WriterWrites
  <1>13. ASSUME WriterFails PROVE Drain' /\ Closing' /\ CloseIsNoFailure'
    BY <1>13 DEF WriterFails
  <1>14. ASSUME WriterParks PROVE Drain' /\ Closing' /\ CloseIsNoFailure'
    BY <1>14 DEF WriterParks
  <1>15. ASSUME WriterResumes PROVE Drain' /\ Closing' /\ CloseIsNoFailure'
    BY <1>15 DEF WriterResumes
  <1>16. ASSUME WriterTimesOut PROVE Drain' /\ Closing' /\ CloseIsNoFailure'
    BY <1>16 DEF WriterTimesOut
  <1>17. ASSUME WriterJudges PROVE Drain' /\ Closing' /\ CloseIsNoFailure'
    <2>1. outcome' = outcome \/ (outcome' = "Disconnected" /\ ~open)
      BY <1>17 DEF WriterJudges, ClosedTooEarly
    <2>2. failed' <=> outcome' # "None" /\ open
      BY <1>17 DEF WriterJudges, Breaks
    <2>3. wpc = "judge" /\ wpc' = "settle" /\ 
          UNCHANGED <<stateVars, chanVars, active, toReport, endVars, peerVars>>
      BY <1>17 DEF WriterJudges
    <2>4. outcome \in {"None", "Disconnected", "Timeout"}
      BY DEF ThreadTypes, Errors
    <2>5. Drain' /\ Closing'
      BY <2>1, <2>2, <2>3
    <2>6. CloseIsNoFailure'
      BY <2>1, <2>2, <2>3, <2>4
    <2> QED BY <2>5, <2>6
  <1>18. ASSUME WriterSettles PROVE Drain' /\ Closing' /\ CloseIsNoFailure'
    <2> DEFINE over == IF failed THEN queue ELSE <<>>
    <2>1. active # 0 /\ over \in Seq(1 .. Len(sends))
      BY <1>18 DEF WriterSettles, ItemTypes
    <2>2. Over(over) # <<>>
      <3> HIDE DEF over
      <3> QED BY <2>1, OverIs, LenProperties DEF ItemTypes
    <2> QED BY <1>18, <2>2 DEF WriterSettles, Flags
  <1>19. ASSUME WriterFrees PROVE Drain' /\ Closing' /\ CloseIsNoFailure'
    BY <1>19 DEF WriterFrees
  <1>20. ASSUME WriterTearsDown PROVE Drain' /\ Closing' /\ CloseIsNoFailure'
    BY <1>20 DEF WriterTearsDown
  <1>21. ASSUME WriterEnds PROVE Drain' /\ Closing' /\ CloseIsNoFailure'
    BY <1>21 DEF WriterEnds
  <1>22. ASSUME WriterReports PROVE Drain' /\ Closing' /\ CloseIsNoFailure'
    BY <1>22 DEF WriterReports
  <1>23. ASSUME ListenerReturns PROVE Drain' /\ Closing' /\ CloseIsNoFailure'
    BY <1>23 DEF ListenerReturns
  <1>24. ASSUME ReceiverSeesEnd PROVE Drain' /\ Closing' /\ CloseIsNoFailure'
    BY <1>24 DEF ReceiverSeesEnd
  <1>25. ASSUME ReceiverClaims \/ ReceiverDisconnects PROVE Drain' /\ Closing' /\ CloseIsNoFailure'
    BY <1>25 DEF ReceiverClaims, ReceiverDisconnects
  <1>26. ASSUME ReceiverRetires PROVE Drain' /\ Closing' /\ CloseIsNoFailure'
    BY <1>26 DEF ReceiverRetires
  <1>27. ASSUME ReceiverTells PROVE Drain' /\ Closing' /\ CloseIsNoFailure'
    BY <1>27 DEF ReceiverTells
  <1>28. ASSUME ReceiverStops PROVE Drain' /\ Closing' /\ CloseIsNoFailure'
    BY <1>28 DEF ReceiverStops
  <1>29. ASSUME DisconnectCuts PROVE Drain' /\ Closing' /\ CloseIsNoFailure'
    BY <1>29 DEF DisconnectCuts
  <1>30. ASSUME DisconnectCloses PROVE Drain' /\ Closing' /\ CloseIsNoFailure'
    BY <1>30 DEF DisconnectCloses
  <1>31. ASSUME DisconnectJoins PROVE Drain' /\ Closing' /\ CloseIsNoFailure'
    BY <1>31 DEF DisconnectJoins
  <1>32. ASSUME DisconnectTells PROVE Drain' /\ Closing' /\ CloseIsNoFailure'
    BY <1>32 DEF DisconnectTells
  <1>33. ASSUME DisconnectRetires PROVE Drain' /\ Closing' /\ CloseIsNoFailure'
    BY <1>33 DEF DisconnectRetires
  <1>34. ASSUME PeerReads PROVE Drain' /\ Closing' /\ CloseIsNoFailure'
    BY <1>34 DEF PeerReads
  <1>35. ASSUME PeerCloses PROVE Drain' /\ Closing' /\ CloseIsNoFailure'
    BY <1>35 DEF PeerCloses
  <1>36. ASSUME NEW who \in {Main, Receiver, Writer}, DisconnectStarts(who)
         PROVE  Drain' /\ Closing' /\ CloseIsNoFailure'
    BY <1>36 DEF DisconnectStarts
  <1> QED
    BY <1>1, <1>2, <1>3, <1>4, <1>5, <1>6, <1>7, <1>8, <1>9, <1>10, <1>11, <1>12,
       <1>13, <1>14, <1>15, <1>16, <1>17, <1>18, <1>19, <1>20, <1>21, <1>22, <1>23,
       <1>24, <1>25, <1>26, <1>27, <1>28, <1>29, <1>30, <1>31, <1>32, <1>33, <1>34,
       <1>35, <1>36
       DEF Next, SenderStep, WriterStep, ReceiverStep, DisconnectStep

-----------------------------------------------------------------------------
(* The sends on their way: what most steps leave alone.                      *)

\* A step that moves no send and no byte, and leaves the send being written alone.
Still ==
    /\ UNCHANGED <<sends, queue, pending, cancelledIds, reports, toReport, stream>>
    /\ answers' \subseteq answers
    /\ IF Writing THEN UNCHANGED <<wpc, active, written, outcome>> ELSE ~Writing'
    /\ open' => open
    /\ UNCHANGED cur /\ active' \in {active, 0}
    /\ \A c \in Senders : pc[c] = "wait" => pc'[c] = "wait"

LEMMA StillStep ==
    ASSUME ItemTypes, SendsInv, Still
    PROVE  ItemTypes' /\ SendsInv'
  <1> USE DEF SendsInv, Still
  <1>1. Decided' = Decided /\ Begun' = Begun /\ Writing' = Writing
    BY DEF Decided, Begun, Writing
  <1>2. InLine'
    BY <1>1 DEF InLine
  <1>3. Fates'
    <2>1. \A k : Fate(k)' = Fate(k)
      BY DEF Fate
    <2> QED BY <1>1, <2>1 DEF Fates, AnyFailed
  <1>4. Counted'
    BY <1>1 DEF Counted, Bytes
  <1>8. Doomed'
    <2>1. \A k : Fate(k)' = Fate(k)
      BY DEF Fate
    <2> QED BY <1>1, <2>1 DEF Doomed, AnyFailed, Writing
  <1>5. Told' /\ Judged'
    BY <1>1 DEF Told, Judged, Writing
  <1>6. Lent'
    BY <1>1 DEF Lent
  <1>7. OnWire'
    <2>1. \A i : BytesOut(i)' = BytesOut(i)
      BY DEF BytesOut
    <2>2. \A i, e : IsWhole(i, e)' = IsWhole(i, e)
      BY <2>1 DEF IsWhole
    <2> QED BY <1>1, <2>1, <2>2 DEF OnWire
  <1>9. ItemTypes'
    <2>1. 0 \in 0 .. Len(sends)
      BY LenProperties DEF ItemTypes
    <2> QED BY <2>1 DEF ItemTypes, Completions
  <1> QED BY <1>2, <1>3, <1>4, <1>5, <1>6, <1>7, <1>8, <1>9

\* The steps that are: senders other than the one accepted or answered, the threads that
\* end the connection, and the writer between two sends.
Asks(c) == Refuse(c) \/ FindFull(c) \/ FallAsleep(c)

Ends ==
    \/ WriterTearsDown \/ WriterEnds \/ ReceiverStep
    \/ DisconnectCloses \/ DisconnectJoins \/ DisconnectTells \/ DisconnectRetires
    \/ \E who \in {Main, Receiver, Writer} : DisconnectStarts(who)
    \/ PeerReads \/ PeerCloses

LEMMA StillSteps ==
    ASSUME ThreadTypes, ItemTypes,
           \/ \E c \in Senders : Asks(c)
           \/ \E c \in Senders, r \in Requests : SendStarts(c, r)
           \/ \E m \in Marks : Resize(m)
           \/ WriterChecks \/ ListenerReturns \/ Ends
    PROVE  Still
  <1> USE DEF ThreadTypes, Still, Writing, WriterMoves, WriterWoken, SendersWoken, stateVars,
              chanVars, senderVars, itemVars, writerVars, endVars, peerVars, told
  <1>1. ASSUME NEW c \in Senders, Refuse(c) PROVE Still
    BY <1>1 DEF Refuse
  <1>2. ASSUME NEW c \in Senders, FindFull(c) PROVE Still
    BY <1>2 DEF FindFull
  <1>3. ASSUME NEW c \in Senders, FallAsleep(c) PROVE Still
    BY <1>3 DEF FallAsleep
  <1>4. ASSUME NEW c \in Senders, NEW r \in Requests, SendStarts(c, r) PROVE Still
    BY <1>4 DEF SendStarts
  <1>5. ASSUME NEW m \in Marks, Resize(m) PROVE Still
    BY <1>5 DEF Resize
  <1>6. ASSUME WriterChecks PROVE Still
    BY <1>6 DEF WriterChecks
  <1>7. ASSUME ListenerReturns PROVE Still
    BY <1>7 DEF ListenerReturns
  <1>8. ASSUME WriterTearsDown PROVE Still
    BY <1>8 DEF WriterTearsDown
  <1>9. ASSUME WriterEnds PROVE Still
    BY <1>9 DEF WriterEnds
  <1>10. ASSUME ReceiverSeesEnd PROVE Still
    BY <1>10 DEF ReceiverSeesEnd
  <1>11. ASSUME ReceiverClaims \/ ReceiverDisconnects PROVE Still
    BY <1>11 DEF ReceiverClaims, ReceiverDisconnects
  <1>12. ASSUME ReceiverRetires PROVE Still
    BY <1>12 DEF ReceiverRetires
  <1>13. ASSUME ReceiverTells PROVE Still
    BY <1>13 DEF ReceiverTells
  <1>14. ASSUME ReceiverStops PROVE Still
    BY <1>14 DEF ReceiverStops
  <1>15. ASSUME DisconnectCloses PROVE Still
    BY <1>15 DEF DisconnectCloses
  <1>16. ASSUME DisconnectJoins PROVE Still
    BY <1>16 DEF DisconnectJoins
  <1>17. ASSUME DisconnectTells PROVE Still
    BY <1>17 DEF DisconnectTells
  <1>18. ASSUME DisconnectRetires PROVE Still
    BY <1>18 DEF DisconnectRetires
  <1>19. ASSUME PeerReads PROVE Still
    BY <1>19 DEF PeerReads
  <1>20. ASSUME PeerCloses PROVE Still
    BY <1>20 DEF PeerCloses
  <1>21. ASSUME NEW who \in {Main, Receiver, Writer}, DisconnectStarts(who) PROVE Still
    BY <1>21 DEF DisconnectStarts
  <1> QED
    BY <1>1, <1>2, <1>3, <1>4, <1>5, <1>6, <1>7, <1>8, <1>9, <1>10, <1>11, <1>12,
       <1>13, <1>14, <1>15, <1>16, <1>17, <1>18, <1>19, <1>20, <1>21 DEF Asks, Ends,
       ReceiverStep

-----------------------------------------------------------------------------
(* The writer with the send it has taken.                                  *)

LEMMA ActiveIs ==
    ASSUME ThreadTypes, ItemTypes, Drain, Writing
    PROVE  active \in 1 .. Len(sends) /\ sends[active].size \in Nat /\ toReport = <<>>
  <1>1. active \in 1 .. Len(sends) /\ toReport = <<>>
    BY LenProperties DEF Drain, ItemTypes
  <1>2. sends[active] \in Request
    BY ONLY <1>1, ItemTypes, ElementOfSeq DEF ItemTypes
  <1> QED BY <1>1, <1>2 DEF Request

\* The writer moves on with its send and puts no byte on the socket.
Progress ==
    /\ UNCHANGED <<stateVars, chanVars, senderVars, itemVars, reports, toReport, stream,
                   active, written>>
    /\ Writing /\ Writing'

LEMMA ProgressStep ==
    ASSUME ItemTypes, SendsInv, Progress, Doomed', Judged'
    PROVE  ItemTypes' /\ SendsInv'
  <1> USE DEF SendsInv, Progress, stateVars, chanVars, senderVars, itemVars
  <1>1. Decided' = Decided /\ Begun' = Begun /\ (\A k : Fate(k)' = Fate(k))
    BY DEF Decided, Begun, Fate
  <1>2. InLine' /\ Fates'
    BY <1>1 DEF InLine, Fates, AnyFailed
  <1>3. Counted' /\ Told' /\ Lent'
    BY <1>1 DEF Counted, Bytes, Told, Lent
  <1>4. OnWire'
    <2>1. \A i, e : BytesOut(i)' = BytesOut(i) /\ IsWhole(i, e)' = IsWhole(i, e)
      BY DEF BytesOut, IsWhole
    <2> QED BY <1>1, <2>1 DEF OnWire
  <1>5. ItemTypes'
    BY DEF ItemTypes, Completions
  <1> QED BY <1>2, <1>3, <1>4, <1>5

LEMMA WriterProgresses ==
    ASSUME Flags, ThreadTypes, ItemTypes, Drain, Closing, SendsInv,
           \/ WriterLooks \/ WriterFails \/ WriterParks \/ WriterResumes
           \/ WriterTimesOut \/ WriterJudges
    PROVE  ItemTypes' /\ SendsInv'
  <1>1. Progress
    BY DEF WriterLooks, WriterFails, WriterParks, WriterResumes, WriterTimesOut, WriterJudges,
           WriterMoves, Progress, Writing, stateVars, chanVars, senderVars, itemVars, writerVars,
           endVars, peerVars, told
  <1> DEFINE size == sends[active].size
  <1>2. size \in Nat /\ written \in Nat /\ written <= size
    BY <1>1, ActiveIs DEF Progress, ThreadTypes, SendsInv, Judged
  <1>3. size' = size /\ AnyFailed' = AnyFailed /\ active' = active /\ written' = written
    BY <1>1 DEF Progress, AnyFailed, Decided, Fate, itemVars
  <1>4. AnyFailed => ~open
    BY DEF SendsInv, Fates
  <1>5. Judged /\ Doomed /\ Writing
    BY <1>1 DEF SendsInv, Progress
  <1>6. /\ wpc \in {"step", "parked"} => outcome = "None" /\ written < size /\ ~AnyFailed
        /\ wpc = "write" => outcome = "None" /\ (AnyFailed => written = 0)
        /\ wpc = "judge" /\ outcome = "None" => written = size /\ (AnyFailed => size = 0)
        /\ wpc = "judge" /\ outcome # "None" => written < size
    BY <1>5 DEF Judged, Doomed
  <1> DEFINE Ok == /\ wpc' \in {"step", "parked"} => outcome' = "None" /\ written < size /\ ~AnyFailed
                   /\ wpc' = "write" => outcome' = "None" /\ (AnyFailed => written = 0)
                   /\ wpc' = "judge" /\ outcome' = "None" => written = size /\ (AnyFailed => size = 0)
                   /\ wpc' = "judge" /\ outcome' # "None" => written < size
                   /\ wpc' = "settle" /\ outcome' = "None" => written = size /\ ~AnyFailed
                   /\ wpc' = "settle" /\ outcome' # "None" => written < size \/ size = 0
  <1>7. Ok
    <2> HIDE DEF size
    <2>1. CASE WriterLooks
      BY <2>1, <1>2, <1>4, <1>6 DEF WriterLooks, WriterMoves, size
    <2>2. CASE WriterFails
      BY <2>2, <1>6 DEF WriterFails, WriterMoves
    <2>3. CASE WriterParks
      BY <2>3, <1>6 DEF WriterParks, WriterMoves
    <2>4. CASE WriterResumes
      BY <2>4, <1>6 DEF WriterResumes, WriterMoves
    <2>5. CASE WriterTimesOut
      BY <2>5, <1>6 DEF WriterTimesOut, WriterMoves
    <2>6. CASE WriterJudges
      BY <2>6, <1>2, <1>4, <1>6 DEF WriterJudges, ClosedTooEarly, size
    <2> QED BY <2>1, <2>2, <2>3, <2>4, <2>5, <2>6
  <1>8. Judged' /\ Doomed'
    <2>1. Writing'
      BY <1>1 DEF Progress
    <2>2. size' = sends'[active'].size
      OBVIOUS
    <2> HIDE DEF size
    <2> QED BY <1>2, <1>3, <1>7, <2>1, <2>2 DEF Judged, Doomed, Writing, size
  <1> QED BY <1>1, <1>8, ProgressStep

\* Where a sequence has a value.
Places(q, i) == {k \in DOMAIN q : q[k] = i}

LEMMA ExtendedStream ==
    ASSUME NEW S, NEW s \in Seq(S), NEW a \in S, NEW n \in Nat,
           NEW e \in [1 .. n -> {a}]
    PROVE  /\ s \o e \in Seq(S) /\ Len(s \o e) = Len(s) + n
           /\ \A k \in 1 .. Len(s) : (s \o e)[k] = s[k]
           /\ \A k \in Len(s) + 1 .. Len(s) + n : (s \o e)[k] = a
           /\ Cardinality(Places(s \o e, a)) = Cardinality(Places(s, a)) + n
           /\ \A b : b # a => Places(s \o e, b) = Places(s, b)
  <1> DEFINE t == s \o e
  <1>1. Len(s) \in Nat /\ DOMAIN s = 1 .. Len(s)
    BY LenProperties
  <1>2. e \in Seq(S) /\ Len(e) = n /\ \A i \in 1 .. n : e[i] = a
    <2>1. e \in [1 .. n -> S]
      OBVIOUS
    <2>2. e \in Seq(S)
      BY <2>1, SeqDef
    <2>3. DOMAIN e = 1 .. n
      OBVIOUS
    <2>4. Len(e) = n
      BY <2>2, <2>3, LenProperties
    <2> QED BY <2>2, <2>4
  <1>3. /\ t \in Seq(S) /\ Len(t) = Len(s) + n
        /\ \A i \in 1 .. Len(s) + n : t[i] = IF i <= Len(s) THEN s[i] ELSE e[i - Len(s)]
    BY ONLY s \in Seq(S), <1>2, ConcatProperties
  <1> HIDE DEF t
  <1>4. /\ \A k \in 1 .. Len(s) : t[k] = s[k]
        /\ \A k \in Len(s) + 1 .. Len(s) + n : t[k] = a
    BY <1>1, <1>2, <1>3
  <1>5. DOMAIN t = 1 .. Len(s) + n
    BY <1>3, LenProperties
  <1>6. \A b : b # a => {k \in DOMAIN t : t[k] = b} = {k \in DOMAIN s : s[k] = b}
    BY <1>1, <1>4, <1>5
  <1> DEFINE old == {k \in DOMAIN s : s[k] = a}
             new == Len(s) + 1 .. Len(s) + n
  <1>7. {k \in DOMAIN t : t[k] = a} = old \cup new
    BY <1>1, <1>4, <1>5
  <1>8. IsFiniteSet(old)
    <2>1. IsFiniteSet(1 .. Len(s)) /\ old \in SUBSET (1 .. Len(s))
      BY <1>1, FS_Interval
    <2> HIDE DEF old
    <2> QED BY ONLY <2>1, FS_Subset
  <1>9. IsFiniteSet(new) /\ Cardinality(new) = n
    <2> DEFINE lo == Len(s) + 1
               hi == Len(s) + n
    <2>1. lo \in Int /\ hi \in Int /\ (IF lo > hi THEN 0 ELSE hi - lo + 1) = n
      BY <1>1
    <2>2. new = lo .. hi
      OBVIOUS
    <2> HIDE DEF lo, hi, new
    <2> QED BY ONLY <2>1, <2>2, FS_Interval
  <1>10. old \cap new = {}
    BY <1>1
  <1>11. Cardinality(old \cup new) = Cardinality(old) + n
    <2> HIDE DEF old, new
    <2>1. Cardinality(old) \in Nat
      BY ONLY <1>8, FS_CardinalityType
    <2>2. Cardinality(old \cup new) = Cardinality(old) + Cardinality(new) - Cardinality(old \cap new)
      BY ONLY <1>8, <1>9, FS_Union
    <2>3. Cardinality(old \cap new) = 0
      BY ONLY <1>10, FS_EmptySet
    <2> QED BY ONLY n \in Nat, <1>9, <2>1, <2>2, <2>3
  <1> QED BY <1>3, <1>4, <1>6, <1>7, <1>11 DEF t, Places

LEMMA Sizes ==
    ASSUME ItemTypes
    PROVE  /\ Len(sends) \in Nat /\ Len(queue) \in Nat /\ Len(cancelledIds) \in Nat
           /\ Len(reports) \in Nat /\ Len(toReport) \in Nat /\ Len(stream) \in Nat
           /\ Decided \in Nat /\ Begun \in Nat
           /\ \A i \in 1 .. Len(sends) : sends[i] \in Request /\ sends[i].size \in Nat
           /\ \A k \in 1 .. Len(stream) : stream[k] \in 1 .. Len(sends)
           /\ DOMAIN stream = 1 .. Len(stream)
  <1>1. /\ Len(sends) \in Nat /\ Len(queue) \in Nat /\ Len(cancelledIds) \in Nat
        /\ Len(reports) \in Nat /\ Len(toReport) \in Nat /\ Len(stream) \in Nat
        /\ DOMAIN stream = 1 .. Len(stream)
    BY ONLY ItemTypes, LenProperties DEF ItemTypes
  <1>2. \A i \in 1 .. Len(sends) : sends[i] \in Request
    BY ONLY ItemTypes, ElementOfSeq DEF ItemTypes
  <1>3. \A k \in 1 .. Len(stream) : stream[k] \in 1 .. Len(sends)
    BY ONLY ItemTypes, ElementOfSeq DEF ItemTypes
  <1>4. Decided \in Nat /\ Begun \in Nat
    BY <1>1 DEF Decided, Begun
  <1> QED BY <1>1, <1>2, <1>3, <1>4 DEF Request

\* Completions known, reported or not, are those of the first Decided sends.
LEMMA Known ==
    ASSUME ItemTypes, InLine
    PROVE  /\ \A r \in ToSet(reports) \cup ToSet(toReport) :
                 r.id \in 1 .. Decided /\ r.error = Fate(r.id)
           /\ \A k \in 1 .. Decided : \E r \in ToSet(reports) \cup ToSet(toReport) :
                 r.id = k /\ r.error = Fate(k)
  <1>1. /\ DOMAIN reports = 1 .. Len(reports) /\ DOMAIN toReport = 1 .. Len(toReport)
        /\ Len(reports) \in Nat /\ Len(toReport) \in Nat
    BY ONLY ItemTypes, LenProperties DEF ItemTypes
  <1>2. \A i \in 1 .. Len(reports) : reports[i].id = i /\ Fate(i) = reports[i].error
    BY <1>1 DEF InLine, Fate
  <1>3. \A i \in 1 .. Len(toReport) : toReport[i].id = Len(reports) + i
                                     /\ Fate(Len(reports) + i) = toReport[i].error
    BY <1>1 DEF InLine, Fate
  <1>4. \A r \in ToSet(reports) \cup ToSet(toReport) :
            r.id \in 1 .. Decided /\ r.error = Fate(r.id)
    BY <1>1, <1>2, <1>3 DEF ToSet, Decided
  <1>5. ASSUME NEW k \in 1 .. Decided
        PROVE  \E r \in ToSet(reports) \cup ToSet(toReport) : r.id = k /\ r.error = Fate(k)
    <2>1. CASE k <= Len(reports)
      BY <1>1, <1>2, <2>1 DEF ToSet, Decided
    <2>2. CASE k > Len(reports)
      <3>1. k - Len(reports) \in 1 .. Len(toReport) /\ k = Len(reports) + (k - Len(reports))
        BY <1>1, <2>2 DEF Decided
      <3> QED BY <1>1, <1>3, <3>1 DEF ToSet
    <2> QED BY <1>1, <2>1, <2>2 DEF Decided
  <1> QED BY <1>4, <1>5

LEMMA WritesStep ==
    ASSUME ThreadTypes, ItemTypes, Drain, SendsInv, WriterWrites
    PROVE  ItemTypes' /\ SendsInv'
  <1>1. /\ Writing /\ Writing' /\ wpc = "step" /\ wpc' = "write"
        /\ UNCHANGED <<stateVars, chanVars, senderVars, itemVars, reports, toReport, active,
                       outcome>>
    BY DEF WriterWrites, WriterMoves, Writing, told
  <1> DEFINE size == sends[active].size
             n == written' - written
  <1>2. active \in 1 .. Len(sends) /\ size \in Nat /\ toReport = <<>>
    BY <1>1, ActiveIs
  <1>3. written \in Nat /\ written < size /\ outcome = "None"
    BY <1>1 DEF SendsInv, Judged, ThreadTypes
  <1>4. /\ n \in Nat /\ written' = written + n /\ written' <= size
        /\ stream' = stream \o [i \in 1 .. n |-> active]
    <2> DEFINE left == size - written
               m == IF left < Capacity - unread THEN left ELSE Capacity - unread
    <2>1. written' = written + m /\ stream' = stream \o [i \in 1 .. m |-> active]
      BY DEF WriterWrites
    <2>2. m \in Nat /\ m <= left
      <3>1. Capacity - unread \in Nat
        BY ConnectionConstants DEF ThreadTypes, WriterWrites
      <3>2. left \in Nat
        BY <1>2, <1>3
      <3> HIDE DEF left
      <3> QED BY <3>1, <3>2
    <2>3. n = m
      <3> HIDE DEF m
      <3> QED BY <1>3, <2>1, <2>2
    <2>4. written + m <= size
      <3> HIDE DEF m, size
      <3> QED BY <1>2, <1>3, <2>2
    <2> HIDE DEF m, n
    <2> QED BY <2>1, <2>2, <2>3, <2>4
  <1> HIDE DEF n
  <1>5. stream \in Seq(1 .. Len(sends))
    BY DEF ItemTypes
  <1> DEFINE OutAfter(b) == Cardinality({k \in DOMAIN stream' : stream'[k] = b})
  <1>6. /\ stream' \in Seq(1 .. Len(sends)) /\ Len(stream') = Len(stream) + n
        /\ \A k \in 1 .. Len(stream) : stream'[k] = stream[k]
        /\ \A k \in Len(stream) + 1 .. Len(stream) + n : stream'[k] = active
        /\ OutAfter(active) = BytesOut(active) + n
        /\ \A b : b # active => OutAfter(b) = BytesOut(b)
    <2> DEFINE e == [i \in 1 .. n |-> active]
    <2>1. active \in 1 .. Len(sends) /\ n \in Nat /\ stream' = stream \o e
      BY <1>2, <1>4
    <2>2. e \in [1 .. n -> {active}]
      OBVIOUS
    <2> DEFINE t == stream \o e
               ids == 1 .. Len(sends)
    <2>5. stream \in Seq(ids) /\ active \in ids /\ n \in Nat
      BY <1>5, <2>1
    <2> HIDE DEF e, ids
    <2>3. /\ t \in Seq(ids) /\ Len(t) = Len(stream) + n
          /\ \A k \in 1 .. Len(stream) : t[k] = stream[k]
          /\ \A k \in Len(stream) + 1 .. Len(stream) + n : t[k] = active
          /\ Cardinality(Places(t, active)) = Cardinality(Places(stream, active)) + n
          /\ \A b : b # active => Places(t, b) = Places(stream, b)
      BY ONLY <2>5, <2>2, ExtendedStream
    <2>4. stream' = t
      BY <2>1
    <2> HIDE DEF t
    <2>6. \A b : OutAfter(b) = Cardinality(Places(t, b))
      BY ONLY <2>4 DEF Places
    <2>7. \A b : BytesOut(b) = Cardinality(Places(stream, b))
      BY DEF BytesOut, Places
    <2> HIDE DEF OutAfter
    <2>8. OutAfter(active) = BytesOut(active) + n /\ \A b : b # active => OutAfter(b) = BytesOut(b)
      BY ONLY <2>3, <2>6, <2>7
    <2> QED BY ONLY <2>3, <2>4, <2>8 DEF ids
  <1> HIDE DEF OutAfter
  <1>7. ItemTypes'
    BY <1>1, <1>6 DEF ItemTypes, Completions, itemVars, senderVars, chanVars
  <1>8. Decided' = Decided /\ Begun' = Begun /\ (\A k : Fate(k)' = Fate(k))
    BY <1>1 DEF Decided, Begun, Fate
  <1>9. ~AnyFailed
    BY <1>1, <1>3 DEF SendsInv, Doomed
  <1>10. InLine' /\ Fates' /\ Doomed'
    BY <1>1, <1>8, <1>9 DEF SendsInv, InLine, Fates, Doomed, AnyFailed, chanVars, itemVars
  <1>11. Counted' /\ Told' /\ Lent'
    BY <1>1, <1>8 DEF SendsInv, Counted, Bytes, Told, Lent, chanVars, itemVars, senderVars
  <1>12. Judged'
    BY <1>1, <1>3, <1>4 DEF Judged, itemVars
  <1>13. OnWire'
    <2>1. /\ Decided \in Nat /\ Len(stream) \in Nat /\ active = Begun /\ Begun = Decided + 1
          /\ \A k \in 1 .. Len(stream) : stream[k] \in 1 .. Len(sends) /\ stream[k] <= Begun
          /\ BytesOut(active) = written
      BY <1>1, Sizes DEF SendsInv, InLine, OnWire, Begun
    <2>2. DOMAIN stream' = 1 .. Len(stream) + n
      BY ONLY <1>6, LenProperties
    <2>3. \A k \in DOMAIN stream' : stream'[k] <= Begun'
      BY <1>2, <1>4, <1>6, <1>8, <2>1, <2>2
    <2>4. OutAfter(active) = written'
      BY <1>4, <1>6, <2>1
    <2>5. \A i \in 1 .. Decided : BytesOut(i) = sends[i].size /\ OutAfter(i) = sends[i].size
      <3> SUFFICES ASSUME NEW i \in 1 .. Decided
                   PROVE  BytesOut(i) = sends[i].size /\ OutAfter(i) = sends[i].size
        OBVIOUS
      <3>1. Fate(i) = "None" /\ i # active
        BY <1>9, <2>1 DEF AnyFailed
      <3>2. PICK r \in ToSet(reports) \cup ToSet(toReport) : r.id = i /\ r.error = Fate(i)
        BY Known DEF SendsInv
      <3>3. BytesOut(i) = sends[i].size
        BY <3>1, <3>2 DEF SendsInv, OnWire, IsWhole
      <3> QED BY <1>6, <3>1, <3>3
    <2>6. ASSUME NEW k \in 1 .. Len(stream') - 1
          PROVE  \/ stream'[k] = stream'[k + 1]
                 \/ /\ stream'[k] < stream'[k + 1]
                    /\ OutAfter(stream'[k]) = sends'[stream'[k]].size
      <3>1. CASE k < Len(stream)
        <4>1. k \in 1 .. Len(stream) - 1 /\ k \in 1 .. Len(stream) /\ k + 1 \in 1 .. Len(stream)
          BY <2>1, <3>1
        <4>2. stream'[k] = stream[k] /\ stream'[k + 1] = stream[k + 1]
          BY <1>6, <4>1
        <4>3. CASE stream[k] < stream[k + 1]
          <5>1. stream[k] \in 1 .. Decided
            BY <2>1, <4>1, <4>3
          <5> QED BY <1>1, <2>5, <4>2, <4>3, <5>1 DEF itemVars
        <4> QED BY <4>1, <4>2, <4>3 DEF SendsInv, OnWire
      <3>2. CASE k = Len(stream)
        <4>1. k \in 1 .. Len(stream) /\ k + 1 \in Len(stream) + 1 .. Len(stream) + n
          BY <1>4, <1>6, <2>1, <3>2
        <4>2. stream'[k] = stream[k] /\ stream'[k + 1] = active
          BY <1>6, <4>1
        <4>3. CASE stream[k] # active
          <5>1. stream[k] \in 1 .. Decided
            BY <2>1, <4>1, <4>3
          <5> QED BY <1>1, <2>1, <2>5, <4>2, <5>1 DEF itemVars
        <4> QED BY <4>2, <4>3
      <3>3. CASE k > Len(stream)
        <4>1. k \in Len(stream) + 1 .. Len(stream) + n /\ k + 1 \in Len(stream) + 1 .. Len(stream) + n
          BY <1>4, <1>6, <2>1, <3>3
        <4> QED BY <1>6, <4>1
      <3> QED BY <2>1, <3>1, <3>2, <3>3
    <2>7. ASSUME NEW r \in ToSet(reports) \cup ToSet(toReport) \cup answers
          PROVE  IsWhole(r.id, r.error)'
      <3>1. r.id # active
        <4>1. \A i \in DOMAIN cancelledIds : cancelledIds[i] > Begun
          <5>1. DOMAIN cancelledIds = 1 .. Len(cancelledIds)
            BY ONLY ItemTypes, LenProperties DEF ItemTypes
          <5> QED BY <2>1, <5>1, Sizes DEF SendsInv, InLine
        <4>2. CASE r \in answers
          BY <2>1, <4>1, <4>2 DEF SendsInv, Told, ToSet
        <4>3. CASE r \in ToSet(reports) \cup ToSet(toReport)
          BY <2>1, <4>3, Known DEF SendsInv
        <4> QED BY <4>2, <4>3
      <3>2. IsWhole(r.id, r.error) /\ OutAfter(r.id) = BytesOut(r.id)
        BY <1>6, <3>1 DEF SendsInv, OnWire
      <3> QED BY <1>1, <3>2 DEF IsWhole, BytesOut, OutAfter, itemVars
    <2>8. /\ DOMAIN stream' = 1 .. Len(stream')
          /\ \A b : BytesOut(b)' = OutAfter(b)
      BY <1>6, <2>2 DEF BytesOut, OutAfter
    <2>9. \A k \in 1 .. Len(stream') - 1 :
             \/ stream'[k] = stream'[k + 1]
             \/ stream'[k] < stream'[k + 1] /\ BytesOut(stream[k])' = sends'[stream'[k]].size
      BY <2>6 DEF BytesOut, OutAfter
    <2>10. BytesOut(active)' = written'
      BY <1>1, <2>4 DEF BytesOut, OutAfter
    <2> QED BY <1>1, <2>3, <2>7, <2>9, <2>10 DEF OnWire, itemVars
  <1> QED BY <1>7, <1>10, <1>11, <1>12, <1>13 DEF SendsInv

-----------------------------------------------------------------------------
(* The writer takes a send.                                                *)

LEMMA Consecutive ==
    ASSUME NEW S, NEW q \in Seq(S), NEW lo \in Nat, \A i \in 1 .. Len(q) : q[i] = lo + i
    PROVE  ToSet(q) = lo + 1 .. lo + Len(q)
  <1>1. Len(q) \in Nat /\ DOMAIN q = 1 .. Len(q)
    BY LenProperties
  <1>2. ToSet(q) \subseteq lo + 1 .. lo + Len(q)
    BY <1>1 DEF ToSet
  <1>3. ASSUME NEW x \in lo + 1 .. lo + Len(q) PROVE x \in ToSet(q)
    <2>1. x - lo \in 1 .. Len(q) /\ q[x - lo] = x
      BY <1>1
    <2> QED BY <1>1, <2>1 DEF ToSet
  <1> QED BY <1>2, <1>3

\* The sizes of the sends, and what the sum over a set of ids needs to know of them.
SizeOf == [i \in DOMAIN sends |-> sends[i].size]

LEMMA SizeOfIs ==
    ASSUME ItemTypes
    PROVE  /\ SizeOf \in [1 .. Len(sends) -> Nat]
           /\ \A i \in 1 .. Len(sends) : SizeOf[i] = sends[i].size
           /\ \A q \in Seq(1 .. Len(sends)) :
                 /\ IsFiniteSet(ToSet(q)) /\ ToSet(q) \subseteq 1 .. Len(sends)
                 /\ Bytes(q) = SumFunctionOnSet(SizeOf, ToSet(q)) /\ Bytes(q) \in Nat
  <1>1. DOMAIN sends = 1 .. Len(sends) /\ Len(sends) \in Nat
    BY ONLY ItemTypes, LenProperties DEF ItemTypes
  <1>2. \A i \in 1 .. Len(sends) : sends[i].size \in Nat
    BY Sizes
  <1>3. SizeOf \in [1 .. Len(sends) -> Nat] /\ \A i \in 1 .. Len(sends) : SizeOf[i] = sends[i].size
    BY <1>1, <1>2 DEF SizeOf
  <1>4. ASSUME NEW q \in Seq(1 .. Len(sends))
        PROVE  /\ IsFiniteSet(ToSet(q)) /\ ToSet(q) \subseteq 1 .. Len(sends)
               /\ Bytes(q) = SumFunctionOnSet(SizeOf, ToSet(q)) /\ Bytes(q) \in Nat
    <2>1. ToSet(q) \in SUBSET (1 .. Len(sends))
      <3>1. DOMAIN q = 1 .. Len(q) /\ \A i \in 1 .. Len(q) : q[i] \in 1 .. Len(sends)
        BY ONLY q \in Seq(1 .. Len(sends)), LenProperties, ElementOfSeq
      <3> QED BY <3>1 DEF ToSet
    <2>2. IsFiniteSet(1 .. Len(sends))
      BY <1>1, FS_Interval
    <2>3. IsFiniteSet(ToSet(q))
      BY ONLY <2>1, <2>2, FS_Subset
    <2>4. Bytes(q) = SumFunctionOnSet(SizeOf, ToSet(q))
      BY DEF Bytes, SizeOf
    <2>5. \A x \in ToSet(q) : SizeOf[x] \in Nat
      BY <1>3, <2>1
    <2>6. SumFunctionOnSet(SizeOf, ToSet(q)) \in Nat
      BY ONLY <2>3, <2>5, SumNat
    <2> QED BY <2>1, <2>3, <2>4, <2>6
  <1> QED BY <1>3, <1>4

LEMMA NextInQueue ==
    ASSUME ItemTypes, InLine, queue # <<>>
    PROVE  /\ Head(queue) \in 1 .. Len(sends) /\ Tail(queue) \in Seq(1 .. Len(sends))
           /\ Len(Tail(queue)) = Len(queue) - 1
           /\ Head(queue) = Begun + Len(cancelledIds) + 1
           /\ \A i \in 1 .. Len(Tail(queue)) :
                 Tail(queue)[i] = Begun + Len(cancelledIds) + 1 + i
           /\ ToSet(queue) = ToSet(Tail(queue)) \cup {Head(queue)}
           /\ Bytes(queue) = sends[Head(queue)].size + Bytes(Tail(queue))
  <1> DEFINE lo == Begun + Len(cancelledIds)
             ids == 1 .. Len(sends)
             h == Head(queue)
             t == Tail(queue)
  <1>1. queue \in Seq(ids) /\ lo \in Nat /\ lo + 1 \in Nat
    BY Sizes DEF ItemTypes
  <1>2. \A i \in 1 .. Len(queue) : queue[i] = lo + i
    BY DEF InLine
  <1>3. h \in ids /\ t \in Seq(ids) /\ Len(t) = Len(queue) - 1 /\ \A i \in 1 .. Len(t) : t[i] = queue[i + 1]
    <2> HIDE DEF ids
    <2> QED BY ONLY <1>1, queue # <<>>, HeadTailProperties
  <1>4. h = queue[1] /\ Len(queue) \in Nat \ {0}
    BY ONLY <1>1, queue # <<>>, EmptySeq DEF ids
  <1>5. h = lo + 1 /\ \A i \in 1 .. Len(t) : t[i] = lo + 1 + i
    BY <1>1, <1>2, <1>3, <1>4
  <1> HIDE DEF lo, h, t
  <1>6. ToSet(queue) = lo + 1 .. lo + Len(queue)
    BY ONLY <1>1, <1>2, Consecutive
  <1>7. ToSet(t) = lo + 2 .. lo + Len(queue)
    <2>1. ToSet(t) = (lo + 1) + 1 .. (lo + 1) + Len(t)
      <3> DEFINE m == lo + 1
      <3> HIDE DEF ids
      <3>1. m \in Nat /\ t \in Seq(ids) /\ \A i \in 1 .. Len(t) : t[i] = m + i
        BY <1>1, <1>3, <1>5
      <3> HIDE DEF m
      <3>2. ToSet(t) = m + 1 .. m + Len(t)
        BY ONLY <3>1, Consecutive
      <3> QED BY <3>2 DEF m
    <2> QED BY <1>1, <1>3, <1>4, <2>1
  <1>8. ToSet(queue) = ToSet(t) \cup {h} /\ h \in ToSet(queue) /\ ToSet(t) = ToSet(queue) \ {h}
    BY <1>1, <1>4, <1>5, <1>6, <1>7
  <1>9. /\ IsFiniteSet(ToSet(queue)) /\ ToSet(queue) \subseteq ids
        /\ Bytes(queue) = SumFunctionOnSet(SizeOf, ToSet(queue))
        /\ Bytes(t) = SumFunctionOnSet(SizeOf, ToSet(t))
        /\ SizeOf \in [ids -> Nat] /\ SizeOf[h] = sends[h].size
    BY <1>1, <1>3, SizeOfIs
  <1>10. SumFunctionOnSet(SizeOf, ToSet(queue)) = SizeOf[h] + SumFunctionOnSet(SizeOf, ToSet(t))
    <2>1. \A x \in ToSet(queue) : SizeOf[x] \in Int
      BY <1>9
    <2> QED BY ONLY <1>8, <1>9, <2>1, SumRemove
  <1> QED BY <1>3, <1>5, <1>8, <1>9, <1>10 DEF lo, h, t

LEMMA TakesStep ==
    ASSUME Flags, ThreadTypes, ItemTypes, Drain, Closing, SendsInv, WriterTakes
    PROVE  ItemTypes' /\ SendsInv'
  <1>1. /\ wpc = "check" /\ wpc' = "write" /\ queue # <<>> /\ ~Writing /\ Writing'
        /\ active' = Head(queue) /\ queue' = Tail(queue)
        /\ UNCHANGED <<sends, cancelledIds, reports, toReport, stream, answers, pending, written,
                       outcome, open, pc, cur>>
    BY DEF WriterTakes, Writing, stateVars, senderVars, itemVars, endVars, peerVars, told
  <1>2. toReport = <<>> /\ written = 0 /\ outcome = "None" /\ cancelledIds = <<>>
    BY <1>1 DEF Drain, Closing
  <1>3. Len(toReport) = 0 /\ Len(cancelledIds) = 0
    BY <1>2
  <1>4. /\ Decided \in Nat /\ Begun = Decided /\ Decided' = Decided /\ Begun' = Begun + 1
        /\ Len(queue) \in Nat /\ Len(sends) \in Nat /\ Len(reports) = Decided
        /\ \A k : Fate(k)' = Fate(k)
    BY <1>1, <1>3, Sizes DEF Decided, Begun, Fate
  <1>5. InLine /\ Fates /\ Counted /\ Told /\ Lent /\ OnWire
    BY DEF SendsInv
  <1>6. /\ active' \in 1 .. Len(sends) /\ queue' \in Seq(1 .. Len(sends))
        /\ Len(queue') = Len(queue) - 1
        /\ active' = Begun' /\ \A i \in 1 .. Len(queue') : queue'[i] = Begun' + i
        /\ ToSet(queue) = ToSet(queue') \cup {active'}
        /\ Bytes(queue) = sends[active'].size + Bytes(queue')
    BY <1>1, <1>3, <1>4, <1>5, NextInQueue
  <1>7. ItemTypes'
    BY <1>1, <1>6 DEF ItemTypes, Completions
  <1>8. InLine'
    BY <1>1, <1>3, <1>4, <1>5, <1>6 DEF InLine
  <1>9. Fates' /\ Doomed'
    BY <1>1, <1>2, <1>4, <1>5 DEF Fates, Doomed, AnyFailed
  <1>10. Counted'
    <2>1. Bytes(queue)' = Bytes(queue')
      BY <1>1 DEF Bytes
    <2>2. Bytes(queue') \in Nat /\ sends[active'].size \in Nat
      BY <1>6, SizeOfIs, Sizes
    <2> QED BY <1>1, <1>5, <1>6, <2>1, <2>2 DEF Counted
  <1>11. Told'
    BY <1>1, <1>4, <1>5 DEF Told
  <1>12. Lent'
    BY <1>1, <1>5, <1>6 DEF Lent
  <1>13. Judged'
    <2>1. sends[active'].size \in Nat
      BY <1>6, Sizes
    <2> QED BY <1>1, <1>2, <2>1 DEF Judged
  <1>14. OnWire'
    <2>1. \A i, e : BytesOut(i)' = BytesOut(i) /\ IsWhole(i, e)' = IsWhole(i, e)
      BY <1>1 DEF BytesOut, IsWhole
    <2>2. BytesOut(active)' = 0
      <3>1. \A k \in DOMAIN stream : stream[k] # active'
        BY <1>4, <1>5, <1>6, Sizes DEF OnWire
      <3>2. {k \in DOMAIN stream : stream[k] = active'} = {}
        BY <3>1
      <3> QED BY <1>1, <3>2, FS_EmptySet DEF BytesOut
    <2>3. \A k \in DOMAIN stream : stream[k] <= Begun'
      BY <1>4, <1>5, Sizes DEF OnWire
    <2> QED BY <1>1, <1>2, <1>5, <2>1, <2>2, <2>3 DEF OnWire
  <1> QED BY <1>7, <1>8, <1>9, <1>10, <1>11, <1>12, <1>13, <1>14 DEF SendsInv

\* What has not begun is not in the stream.
LEMMA NotBegun ==
    ASSUME ItemTypes, OnWire, NEW i \in 1 .. Len(sends), i > Begun
    PROVE  BytesOut(i) = 0 /\ IsWhole(i, "Disconnected")
  <1>1. \A k \in DOMAIN stream : stream[k] # i
    BY Sizes DEF OnWire
  <1>2. {k \in DOMAIN stream : stream[k] = i} = {}
    BY <1>1
  <1>3. BytesOut(i) = 0
    BY <1>2, FS_EmptySet DEF BytesOut
  <1>4. sends[i].size \in Nat
    BY Sizes
  <1> QED BY <1>3, <1>4 DEF IsWhole

-----------------------------------------------------------------------------
(* Completions: they are told to waiters and to listeners.                 *)

LEMMA FreesStep ==
    ASSUME ThreadTypes, ItemTypes, SendsInv, WriterFrees
    PROVE  ItemTypes' /\ SendsInv'
  <1>1. /\ ~Writing /\ ~Writing' /\ pc' = SendersWoken
        /\ UNCHANGED <<sends, queue, cancelledIds, reports, toReport, stream, pending, open, cur,
                       active>>
        /\ answers' \subseteq answers \cup ToSet(toReport)
    BY DEF WriterFrees, Writing, Finished, chanVars, stateVars, endVars, peerVars, told
  <1>2. /\ Decided' = Decided /\ Begun' = Begun /\ (\A k : Fate(k)' = Fate(k))
        /\ \A i, e : BytesOut(i)' = BytesOut(i) /\ IsWhole(i, e)' = IsWhole(i, e)
    BY <1>1 DEF Decided, Begun, Fate, BytesOut, IsWhole
  <1>3. \A r \in ToSet(toReport) : r \in Completions
    <2>1. DOMAIN toReport = 1 .. Len(toReport) /\ \A i \in 1 .. Len(toReport) : toReport[i] \in Completions
      BY ONLY ItemTypes, LenProperties, ElementOfSeq DEF ItemTypes
    <2> QED BY <2>1 DEF ToSet
  <1>4. ItemTypes'
    BY <1>1, <1>3 DEF ItemTypes, Completions
  <1>5. InLine' /\ Fates' /\ Doomed' /\ Judged'
    BY <1>1, <1>2 DEF SendsInv, InLine, Fates, Doomed, Judged, AnyFailed
  <1>6. Counted'
    BY <1>1 DEF SendsInv, Counted, Bytes
  <1>7. Told'
    <2>1. \A r \in ToSet(toReport) : r.id <= Decided
      BY Known, Sizes DEF SendsInv
    <2> QED BY <1>1, <1>2, <2>1 DEF SendsInv, Told
  <1>8. Lent'
    BY <1>1, Woken DEF SendsInv, Lent
  <1>9. OnWire'
    BY <1>1, <1>2 DEF SendsInv, OnWire
  <1> QED BY <1>4, <1>5, <1>6, <1>7, <1>8, <1>9 DEF SendsInv

LEMMA ReportsStep ==
    ASSUME ThreadTypes, ItemTypes, Drain, SendsInv, WriterReports
    PROVE  ItemTypes' /\ SendsInv'
  <1>1. /\ ~Writing /\ ~Writing' /\ wpc = "report" /\ toReport # <<>>
        /\ reports' = Append(reports, Head(toReport)) /\ toReport' = Tail(toReport)
        /\ UNCHANGED <<sends, queue, cancelledIds, stream, pending, open, pc, cur, active, answers>>
    BY DEF WriterReports, Writing, Drain, chanVars, stateVars, senderVars, itemVars, endVars,
           peerVars
  <1>2. reports \in Seq(Completions) /\ toReport \in Seq(Completions)
    BY DEF ItemTypes
  <1>3. /\ Head(toReport) \in Completions /\ toReport' \in Seq(Completions)
        /\ Len(toReport') = Len(toReport) - 1
        /\ \A i \in 1 .. Len(toReport') : toReport'[i] = toReport[i + 1]
    BY ONLY <1>1, <1>2, HeadTailProperties
  <1>4. Head(toReport) = toReport[1] /\ Len(toReport) \in Nat \ {0} /\ Len(reports) \in Nat
    BY ONLY <1>1, <1>2, EmptySeq, LenProperties
  <1>5. /\ reports' \in Seq(Completions) /\ Len(reports') = Len(reports) + 1
        /\ \A i \in 1 .. Len(reports) : reports'[i] = reports[i]
        /\ reports'[Len(reports) + 1] = toReport[1]
    BY ONLY <1>1, <1>2, <1>3, <1>4, AppendProperties
  <1>6. ItemTypes'
    BY <1>1, <1>3, <1>5 DEF ItemTypes, Completions
  <1>7. Decided' = Decided /\ Begun' = Begun
    BY <1>1, <1>3, <1>4, <1>5 DEF Decided, Begun
  <1>8. ASSUME NEW k \in 1 .. Decided PROVE Fate(k)' = Fate(k)
    <2>1. CASE k <= Len(reports)
      BY <1>4, <1>5, <2>1 DEF Fate
    <2>2. CASE k = Len(reports) + 1
      BY <1>4, <1>5, <2>2 DEF Fate
    <2>3. CASE k > Len(reports) + 1
      <3>1. k - Len(reports') \in 1 .. Len(toReport') /\ (k - Len(reports')) + 1 = k - Len(reports)
        BY <1>3, <1>4, <1>5, <2>3 DEF Decided
      <3> QED BY <1>3, <1>4, <1>5, <2>3, <3>1 DEF Fate
    <2> QED BY <1>4, <2>1, <2>2, <2>3 DEF Decided
  <1>9. InLine'
    <2>3. /\ \A i \in 1 .. Len(reports) : reports[i].id = i
          /\ \A i \in 1 .. Len(toReport) : toReport[i].id = Len(reports) + i
      BY DEF SendsInv, InLine
    <2>1. ASSUME NEW i \in 1 .. Len(reports') PROVE reports'[i].id = i
      <3>1. CASE i = Len(reports) + 1
        BY <1>4, <1>5, <2>3, <3>1
      <3>2. CASE i \in 1 .. Len(reports)
        BY <1>5, <2>3, <3>2
      <3> QED BY <1>4, <1>5, <3>1, <3>2
    <2>2. ASSUME NEW i \in 1 .. Len(toReport') PROVE toReport'[i].id = Len(reports') + i
      <3>1. i + 1 \in 1 .. Len(toReport) /\ toReport'[i] = toReport[i + 1]
        BY <1>3, <1>4
      <3>2. Len(reports) + (i + 1) = Len(reports') + i
        BY <1>4, <1>5
      <3> QED BY <2>3, <3>1, <3>2
    <2> QED BY <1>1, <1>7, <2>1, <2>2 DEF SendsInv, InLine
  <1>10. Fates' /\ Doomed' /\ Judged'
    BY <1>1, <1>7, <1>8 DEF SendsInv, Fates, Doomed, Judged, AnyFailed
  <1>11. Counted' /\ Told' /\ Lent'
    BY <1>1, <1>7 DEF SendsInv, Counted, Bytes, Told, Lent
  <1>12. OnWire'
    <2>1. \A i, e : BytesOut(i)' = BytesOut(i) /\ IsWhole(i, e)' = IsWhole(i, e)
      BY <1>1 DEF BytesOut, IsWhole
    <2>2. /\ DOMAIN reports' = 1 .. Len(reports') /\ DOMAIN toReport' = 1 .. Len(toReport')
          /\ DOMAIN reports = 1 .. Len(reports) /\ DOMAIN toReport = 1 .. Len(toReport)
      BY ONLY <1>2, <1>3, <1>5, LenProperties
    <2>3. ToSet(reports') \cup ToSet(toReport') \subseteq ToSet(reports) \cup ToSet(toReport)
      <3>1. ASSUME NEW i \in 1 .. Len(reports')
            PROVE  reports'[i] \in ToSet(reports) \cup ToSet(toReport)
        <4>1. CASE i \in 1 .. Len(reports)
          BY <1>5, <2>2, <4>1 DEF ToSet
        <4>2. CASE i = Len(reports) + 1
          BY <1>4, <1>5, <2>2, <4>2 DEF ToSet
        <4> QED BY <1>4, <1>5, <4>1, <4>2
      <3>2. ASSUME NEW i \in 1 .. Len(toReport')
            PROVE  toReport'[i] \in ToSet(toReport)
        <4>1. i + 1 \in 1 .. Len(toReport) /\ toReport'[i] = toReport[i + 1]
          BY <1>3, <1>4
        <4> QED BY <2>2, <4>1 DEF ToSet
      <3> QED BY <2>2, <3>1, <3>2 DEF ToSet
    <2> QED BY <1>1, <1>7, <2>1, <2>3 DEF SendsInv, OnWire
  <1> QED BY <1>6, <1>9, <1>10, <1>11, <1>12 DEF SendsInv

\* What waiters were told is of no send queued or being written.
LEMMA UndecidedIs ==
    ASSUME ItemTypes, InLine, NEW i \in ToSet(queue) \cup (IF Writing THEN {active} ELSE {})
    PROVE  ~(i <= Decided) /\ i \notin ToSet(cancelledIds)
  <1>1. \A j \in ToSet(cancelledIds) :
            j \in Nat /\ j <= Begun + Len(cancelledIds) /\ j > Begun
    <2>1. DOMAIN cancelledIds = 1 .. Len(cancelledIds)
      BY ONLY ItemTypes, LenProperties DEF ItemTypes
    <2>2. \A j \in 1 .. Len(cancelledIds) : cancelledIds[j] = Begun + j
      BY DEF InLine
    <2> QED BY <2>1, <2>2, Sizes DEF ToSet
  <1>2. \A j \in ToSet(queue) : j \in Nat /\ j > Begun + Len(cancelledIds)
    <2>1. DOMAIN queue = 1 .. Len(queue)
      BY ONLY ItemTypes, LenProperties DEF ItemTypes
    <2>2. \A j \in 1 .. Len(queue) : queue[j] = Begun + Len(cancelledIds) + j
      BY DEF InLine
    <2> QED BY <2>1, <2>2, Sizes DEF ToSet
  <1>3. Decided <= Begun /\ (Writing => Decided < Begun /\ active = Begun)
    BY Sizes DEF InLine, Begun
  <1> QED BY <1>1, <1>2, <1>3, Sizes

\* Who waits for a send not yet decided is not the one that returns.
LEMMA ReturnsStep ==
    ASSUME ThreadTypes, ItemTypes, SendsInv, NEW c \in Senders, SendReturns(c)
    PROVE  ItemTypes' /\ SendsInv'
  <1>1. PICK a \in answers : a.id = cur[c] /\ answers' = answers \ {a}
    BY DEF SendReturns
  <1>2. /\ UNCHANGED <<sends, queue, cancelledIds, reports, toReport, stream, pending, open, active,
                       wpc, written, outcome>>
        /\ pc' = [pc EXCEPT ![c] = "idle"] /\ cur' = [cur EXCEPT ![c] = 0]
    BY DEF SendReturns, chanVars, stateVars, writerVars, endVars, peerVars, told
  <1>3. Decided' = Decided /\ Begun' = Begun /\ Writing' = Writing /\ (\A k : Fate(k)' = Fate(k))
    BY <1>2 DEF Decided, Begun, Fate, Writing
  <1>4. ItemTypes'
    BY <1>1, <1>2 DEF ItemTypes, Completions
  <1>5. InLine' /\ Fates' /\ Doomed' /\ Judged'
    BY <1>2, <1>3 DEF SendsInv, InLine, Fates, Doomed, Judged, AnyFailed, Writing
  <1>6. Counted' /\ Told'
    BY <1>1, <1>2, <1>3 DEF SendsInv, Counted, Bytes, Told
  <1>7. OnWire'
    <2>1. \A i, e : BytesOut(i)' = BytesOut(i) /\ IsWhole(i, e)' = IsWhole(i, e)
      BY <1>2 DEF BytesOut, IsWhole
    <2> QED BY <1>1, <1>2, <1>3, <2>1 DEF SendsInv, OnWire
  <1>8. Lent'
    <2>1. cur[c] <= Decided \/ cur[c] \in ToSet(cancelledIds)
      BY <1>1 DEF SendsInv, Told
    <2>6. \A i \in ToSet(queue) \cup (IF Writing THEN {active} ELSE {}) : cur[c] # i
      BY <2>1, UndecidedIs DEF SendsInv
    <2> QED BY <1>2, <1>3, <2>6 DEF SendsInv, Lent, ThreadTypes, ItemTypes
  <1> QED BY <1>4, <1>5, <1>6, <1>7, <1>8 DEF SendsInv

\* Nothing is queued but what disconnect() has taken from the writer.
LEMMA CancelledStep ==
    ASSUME Flags, ThreadTypes, ItemTypes, Drain, Closing, SendsInv, WriterTakesCancelled
    PROVE  ItemTypes' /\ SendsInv'
  <1>1. /\ ~Writing /\ ~Writing' /\ wpc = "check" /\ cancelledIds # <<>>
        /\ toReport' = Cut(cancelledIds) /\ cancelledIds' = <<>>
        /\ UNCHANGED <<sends, queue, reports, stream, pending, open, pc, cur, active, answers>>
    BY DEF WriterTakesCancelled, Writing, stateVars, senderVars, itemVars, endVars, peerVars, told
  <1>2. Len(toReport) = 0 /\ ~open /\ queue = <<>> /\ Len(queue) = 0
    BY <1>1 DEF Drain, Closing
  <1>3. /\ Decided \in Nat /\ Begun = Decided /\ Len(reports) = Decided
        /\ Len(cancelledIds) \in Nat /\ Len(sends) \in Nat
    BY <1>1, <1>2, Sizes DEF Decided, Begun
  <1>4. cancelledIds \in Seq(1 .. Len(sends))
    BY DEF ItemTypes
  <1>5. /\ toReport' \in Seq(Completions) /\ Len(toReport') = Len(cancelledIds)
    BY <1>1, <1>3, <1>4, CutIs DEF Completions
  <1>a. \A i \in 1 .. Len(cancelledIds) :
            toReport'[i].id = cancelledIds[i] /\ toReport'[i].error = "Disconnected"
    BY <1>1, <1>3, <1>4, CutIs
  <1>6. ItemTypes'
    BY <1>1, <1>5 DEF ItemTypes, Completions
  <1>7. Decided' = Decided + Len(cancelledIds) /\ Begun' = Decided'
    BY <1>1, <1>3, <1>5 DEF Decided, Begun
  <1>8. InLine /\ Fates /\ Told /\ OnWire
    BY DEF SendsInv
  <1>9. \A i \in 1 .. Len(cancelledIds) : cancelledIds[i] = Decided + i
    BY <1>3, <1>8 DEF InLine
  <1>10. \A i \in 1 .. Len(toReport') : toReport'[i].id = Len(reports) + i
    BY <1>3, <1>5, <1>a, <1>9
  <1>11. Len(cancelledIds') = 0
    BY <1>1
  <1>12. InLine'
    <2>1. Len(sends') = Begun' + Len(cancelledIds') + Len(queue')
      BY <1>1, <1>2, <1>3, <1>7, <1>8, <1>11 DEF InLine
    <2>2. \A i \in 1 .. Len(reports) : reports[i].id = i
      BY <1>8 DEF InLine
    <2> QED BY <1>1, <1>2, <1>10, <1>11, <2>1, <2>2 DEF InLine
  <1>13. /\ \A k \in 1 .. Decided : Fate(k)' = Fate(k)
         /\ \A k \in Decided + 1 .. Decided' : Fate(k)' = "Disconnected"
    <2>1. \A k \in 1 .. Decided : Fate(k)' = Fate(k)
      BY <1>1, <1>3 DEF Fate
    <2>2. ASSUME NEW k \in Decided + 1 .. Decided' PROVE Fate(k)' = "Disconnected"
      <3>1. k - Len(reports) \in 1 .. Len(cancelledIds) /\ ~(k <= Len(reports))
        BY <1>3, <1>7
      <3> QED BY <1>1, <1>a, <3>1 DEF Fate
    <2> QED BY <2>1, <2>2
  <1>14. Fates' /\ Doomed' /\ Judged'
    <2>1. \A k, m \in 1 .. Decided' : k < m /\ Fate(k)' # "None" => Fate(m)' # "None"
      BY <1>3, <1>7, <1>8, <1>13 DEF Fates
    <2> QED BY <1>1, <1>2, <2>1 DEF Fates, Doomed, Judged
  <1>15. Counted' /\ Lent'
    BY <1>1 DEF SendsInv, Counted, Bytes, Lent
  <1>16. DOMAIN cancelledIds = 1 .. Len(cancelledIds)
    BY ONLY <1>4, LenProperties
  <1>17. Told'
    <2>1. \A i \in ToSet(cancelledIds) : i <= Decided'
      BY <1>3, <1>7, <1>9, <1>16 DEF ToSet
    <2>2. \A a \in answers : a.id \in Nat
      BY <1>3 DEF ItemTypes, Completions
    <2> QED BY <1>1, <1>3, <1>7, <1>8, <2>1, <2>2 DEF Told
  <1>18. OnWire'
    <2>1. \A i, e : BytesOut(i)' = BytesOut(i) /\ IsWhole(i, e)' = IsWhole(i, e)
      BY <1>1 DEF BytesOut, IsWhole
    <2>2. \A r \in ToSet(toReport') : IsWhole(r.id, r.error)
      <3>1. DOMAIN toReport' = 1 .. Len(cancelledIds)
        BY ONLY <1>5, LenProperties
      <3>2. ASSUME NEW i \in 1 .. Len(cancelledIds)
            PROVE  IsWhole(toReport'[i].id, toReport'[i].error)
        <4>1. cancelledIds[i] \in 1 .. Len(sends)
          BY ONLY <1>4, ElementOfSeq
        <4>2. cancelledIds[i] > Begun
          BY <1>3, <1>9
        <4>3. IsWhole(cancelledIds[i], "Disconnected")
          BY <1>8, <4>1, <4>2, NotBegun
        <4> QED BY <1>a, <4>3
      <3> QED BY <3>1, <3>2 DEF ToSet
    <2>3. \A k \in DOMAIN stream : stream[k] <= Begun'
      BY <1>3, <1>7, <1>8, Sizes DEF OnWire
    <2> QED BY <1>1, <1>8, <2>1, <2>2, <2>3 DEF OnWire
  <1> QED BY <1>6, <1>12, <1>14, <1>15, <1>17, <1>18 DEF SendsInv

LEMMA NoBytes ==
    Bytes(<<>>) = 0
  <1>1. ToSet(<<>>) = {}
    BY DEF ToSet
  <1> QED BY <1>1, SumEmpty DEF Bytes

-----------------------------------------------------------------------------
(* disconnect() takes what is queued from the writer.                      *)

LEMMA CutsStep ==
    ASSUME Flags, ThreadTypes, ItemTypes, Drain, Closing, SendsInv, DisconnectCuts
    PROVE  ItemTypes' /\ SendsInv'
  <1>1. CASE ~linked
    <2>1. Still
      BY <1>1 DEF DisconnectCuts, Still, Writing, chanVars, peerVars, told
    <2>2. ItemTypes'
      BY <1>1 DEF DisconnectCuts, ItemTypes, Completions, chanVars, peerVars, told
    <2> QED BY <2>1, <2>2, StillStep
  <1>2. CASE linked
    <2>1. /\ queue' = <<>> /\ cancelledIds' = cancelledIds \o queue /\ ~open'
          /\ pending' = pending - Bytes(queue)
          /\ answers' \subseteq answers \cup ToSet(Cut(queue))
          /\ pc' = SendersWoken /\ wpc' = WriterWoken
          /\ UNCHANGED <<sends, reports, toReport, stream, cur, active, written, outcome>>
      BY <1>2 DEF DisconnectCuts, Finished, Unstarted, told, peerVars
    <2>2. /\ Writing' = Writing /\ (Writing => wpc' = wpc)
          /\ \A c \in Senders : pc'[c] = "wait" <=> pc[c] = "wait"
      BY <2>1, Woken DEF Writing
    <2>3. Decided' = Decided /\ Begun' = Begun /\ (\A k : Fate(k)' = Fate(k))
      BY <2>1, <2>2 DEF Decided, Begun, Fate
    <2>4. queue \in Seq(1 .. Len(sends)) /\ cancelledIds \in Seq(1 .. Len(sends))
      BY DEF ItemTypes
    <2>5. /\ cancelledIds' \in Seq(1 .. Len(sends))
          /\ Len(cancelledIds') = Len(cancelledIds) + Len(queue)
          /\ \A i \in 1 .. Len(cancelledIds) + Len(queue) : cancelledIds'[i] =
                IF i <= Len(cancelledIds) THEN cancelledIds[i] ELSE queue[i - Len(cancelledIds)]
      <3> DEFINE ids == 1 .. Len(sends)
                 both == cancelledIds \o queue
      <3>1. queue \in Seq(ids) /\ cancelledIds \in Seq(ids)
        BY <2>4
      <3> HIDE DEF ids
      <3>2. /\ both \in Seq(ids)
            /\ Len(both) = Len(cancelledIds) + Len(queue)
            /\ \A i \in 1 .. Len(cancelledIds) + Len(queue) : both[i] =
                  IF i <= Len(cancelledIds) THEN cancelledIds[i] ELSE queue[i - Len(cancelledIds)]
        BY ONLY <3>1, ConcatProperties
      <3>3. cancelledIds' = both
        BY <2>1
      <3> HIDE DEF both
      <3> QED BY ONLY <3>2, <3>3 DEF ids
    <2>6. /\ Cut(queue) \in Seq(Completions) /\ Len(Cut(queue)) = Len(queue)
          /\ \A i \in 1 .. Len(queue) :
                Cut(queue)[i].id = queue[i] /\ Cut(queue)[i].error = "Disconnected"
      BY <2>4, CutIs, Sizes DEF Completions
    <2>7. \A i \in 1 .. Len(queue) : queue[i] = Begun + Len(cancelledIds) + i
      BY DEF SendsInv, InLine
    <2>8. ASSUME NEW r \in ToSet(Cut(queue))
          PROVE  /\ r \in Completions /\ r.id \in 1 .. Len(sends) /\ r.id > Begun
                 /\ r.error = "Disconnected" /\ r.id \in ToSet(queue)
      <3>1. DOMAIN Cut(queue) = 1 .. Len(queue)
        BY ONLY <2>6, LenProperties
      <3>2. PICK i \in 1 .. Len(queue) : r = Cut(queue)[i]
        BY <3>1 DEF ToSet
      <3>3. r \in Completions
        BY ONLY <2>6, <3>2, ElementOfSeq
      <3>4. r.id = queue[i] /\ r.error = "Disconnected"
        BY <2>6, <3>2
      <3>5. queue[i] \in 1 .. Len(sends) /\ DOMAIN queue = 1 .. Len(queue)
        BY ONLY <2>4, ElementOfSeq, LenProperties
      <3>6. Begun \in Nat /\ Len(cancelledIds) \in Nat
        BY Sizes
      <3>7. queue[i] > Begun
        BY <2>7, <3>6
      <3>8. queue[i] \in ToSet(queue)
        BY <3>5 DEF ToSet
      <3> QED BY <3>3, <3>4, <3>5, <3>7, <3>8
    <2>9. ItemTypes'
      BY <2>1, <2>5, <2>8 DEF ItemTypes, Completions
    <2>10. InLine'
      <3>1. /\ Len(sends) = Begun + Len(cancelledIds) + Len(queue)
            /\ \A i \in 1 .. Len(cancelledIds) : cancelledIds[i] = Begun + i
        BY DEF SendsInv, InLine
      <3>2. /\ \A i \in 1 .. Len(reports) : reports[i].id = i
            /\ \A i \in 1 .. Len(toReport) : toReport[i].id = Len(reports) + i
            /\ Writing => active = Begun
        BY DEF SendsInv, InLine
      <3>3. Len(queue') = 0
        BY <2>1
      <3>4. \A i \in 1 .. Len(cancelledIds') : cancelledIds'[i] = Begun + i
        <4>1. Begun \in Nat /\ Len(cancelledIds) \in Nat /\ Len(queue) \in Nat
          BY Sizes
        <4> SUFFICES ASSUME NEW i \in 1 .. Len(cancelledIds) + Len(queue)
                     PROVE  cancelledIds'[i] = Begun + i
          BY <2>5
        <4>2. CASE i <= Len(cancelledIds)
          <5>1. cancelledIds'[i] = cancelledIds[i] /\ i \in 1 .. Len(cancelledIds)
            BY <2>5, <4>2
          <5> QED BY <3>1, <5>1
        <4>3. CASE i > Len(cancelledIds)
          <5>1. i - Len(cancelledIds) \in 1 .. Len(queue)
            BY <4>1, <4>3
          <5>2. queue[i - Len(cancelledIds)] = Begun + Len(cancelledIds) + (i - Len(cancelledIds))
            BY <2>7, <5>1
          <5> QED BY <2>5, <4>1, <4>3, <5>2
        <4> QED BY <4>1, <4>2, <4>3
      <3>5. Len(sends') = Begun' + Len(cancelledIds') + Len(queue')
        BY <2>1, <2>3, <2>5, <3>1, <3>3, Sizes
      <3> QED BY <2>1, <2>2, <2>3, <3>2, <3>3, <3>4, <3>5 DEF InLine
    <2>11. Fates' /\ Doomed' /\ Judged'
      BY <2>1, <2>2, <2>3 DEF SendsInv, Fates, Doomed, Judged, AnyFailed, Writing
    <2>12. Counted'
      <3>1. Bytes(queue)' = 0
        BY <2>1, NoBytes DEF Bytes
      <3>2. Bytes(queue) \in Nat
        BY <2>4, SizeOfIs
      <3>3. Writing => sends[active].size \in Nat
        BY ActiveIs
      <3> QED BY <2>1, <2>2, <3>1, <3>2, <3>3 DEF SendsInv, Counted
    <2>13. Told'
      <3>1. /\ DOMAIN cancelledIds' = 1 .. Len(cancelledIds) + Len(queue)
            /\ DOMAIN cancelledIds = 1 .. Len(cancelledIds) /\ DOMAIN queue = 1 .. Len(queue)
        BY ONLY <2>4, <2>5, LenProperties
      <3>2. ToSet(cancelledIds) \subseteq ToSet(cancelledIds')
        <4> SUFFICES ASSUME NEW i \in 1 .. Len(cancelledIds)
                     PROVE  cancelledIds[i] \in ToSet(cancelledIds')
          BY <3>1 DEF ToSet
        <4>1. i \in 1 .. Len(cancelledIds) + Len(queue) /\ i <= Len(cancelledIds)
          BY Sizes
        <4>2. cancelledIds'[i] = cancelledIds[i]
          BY <2>5, <4>1
        <4> QED BY <3>1, <4>1, <4>2 DEF ToSet
      <3>3. ToSet(queue) \subseteq ToSet(cancelledIds')
        <4> SUFFICES ASSUME NEW i \in 1 .. Len(queue) PROVE queue[i] \in ToSet(cancelledIds')
          BY <3>1 DEF ToSet
        <4>1. /\ Len(cancelledIds) + i \in 1 .. Len(cancelledIds) + Len(queue)
              /\ ~(Len(cancelledIds) + i <= Len(cancelledIds))
              /\ (Len(cancelledIds) + i) - Len(cancelledIds) = i
          BY Sizes
        <4>2. cancelledIds'[Len(cancelledIds) + i] = queue[i]
          BY <2>5, <4>1
        <4> QED BY <3>1, <4>1, <4>2 DEF ToSet
      <3> QED BY <2>1, <2>3, <2>8, <3>2, <3>3 DEF SendsInv, Told
    <2>14. Lent'
      <3>1. ToSet(queue') = {}
        BY <2>1 DEF ToSet
      <3> QED BY <2>1, <2>2, <3>1 DEF SendsInv, Lent
    <2>15. OnWire'
      <3>1. \A i, e : BytesOut(i)' = BytesOut(i) /\ IsWhole(i, e)' = IsWhole(i, e)
        BY <2>1 DEF BytesOut, IsWhole
      <3>2. \A r \in ToSet(Cut(queue)) : IsWhole(r.id, r.error)
        BY <2>8, NotBegun DEF SendsInv
      <3> QED BY <2>1, <2>2, <2>3, <3>1, <3>2 DEF SendsInv, OnWire
    <2> QED BY <2>9, <2>10, <2>11, <2>12, <2>13, <2>14, <2>15 DEF SendsInv
  <1> QED BY <1>1, <1>2

-----------------------------------------------------------------------------
(* The active send is over, and perhaps everything queued.                 *)

LEMMA SettlesStep ==
    ASSUME Flags, ThreadTypes, ItemTypes, Drain, Closing, SendsInv, WriterSettles
    PROVE  ItemTypes' /\ SendsInv'
  <1> DEFINE over == IF failed THEN queue ELSE <<>>
             size == sends[active].size
             R == Len(reports)
             K == Len(cancelledIds)
             Q == Len(over)
  <1>1. /\ Writing /\ ~Writing' /\ wpc = "settle"
        /\ toReport' = Over(over) /\ cancelledIds' = <<>>
        /\ pending' = pending - size - Bytes(over)
        /\ queue' = IF failed THEN <<>> ELSE queue
        /\ open' = (open /\ ~failed)
        /\ UNCHANGED <<sends, reports, stream, pc, cur, active, answers>>
    BY DEF WriterSettles, Writing, stateVars, senderVars, itemVars, endVars, peerVars, told
  <1>2. active \in 1 .. Len(sends) /\ size \in Nat /\ toReport = <<>> /\ active # 0
    BY <1>1, ActiveIs
  <1>3. over \in Seq(1 .. Len(sends)) /\ queue \in Seq(1 .. Len(sends))
        /\ queue' \in Seq(1 .. Len(sends)) /\ cancelledIds' \in Seq(1 .. Len(sends))
    <2>1. queue \in Seq(1 .. Len(sends)) /\ <<>> \in Seq(1 .. Len(sends))
      BY EmptySeq DEF ItemTypes
    <2>2. CASE failed
      BY <1>1, <2>1, <2>2
    <2>3. CASE ~failed
      BY <1>1, <2>1, <2>3
    <2> QED BY <2>2, <2>3
  <1>4. R \in Nat /\ K \in Nat /\ Q \in Nat /\ Len(sends) \in Nat /\ Len(queue) \in Nat
    BY <1>3, Sizes, LenProperties
  <1>5. Decided = R /\ Begun = R + 1 /\ active = R + 1
    <2>1. Len(toReport) = 0
      BY <1>2
    <2> QED BY <1>1, <1>4, <2>1 DEF Decided, Begun, SendsInv, InLine
  <1>6. InLine /\ Fates /\ Doomed /\ Counted /\ Told /\ Lent /\ Judged /\ OnWire
    BY DEF SendsInv
  <1>7. /\ failed => Q = Len(queue) /\ Len(queue') = 0
        /\ ~failed => Q = 0 /\ queue' = queue
        /\ K = 0 \/ Len(queue) = 0
        /\ K # 0 => ~open
        /\ outcome # "None" => failed \/ ~open
    BY <1>1, <1>4 DEF Closing
  <1>8. /\ toReport' \in Seq(Completions) /\ Len(toReport') = 1 + Q + K
        /\ toReport'[1] = Completion
        /\ \A i \in 1 .. Q : toReport'[1 + i].id = over[i] /\ toReport'[1 + i].error = "Disconnected"
        /\ \A i \in 1 .. K : /\ toReport'[1 + Q + i].id = cancelledIds[i]
                            /\ toReport'[1 + Q + i].error = "Disconnected"
    <2> HIDE DEF over
    <2> QED BY <1>1, <1>2, <1>3, OverIs
  <1>9. /\ Len(sends) = R + 1 + K + Len(queue)
        /\ \A i \in 1 .. R : reports[i].id = i
        /\ \A i \in 1 .. K : cancelledIds[i] = R + 1 + i
        /\ \A i \in 1 .. Len(queue) : queue[i] = R + 1 + K + i
    BY <1>5, <1>6 DEF InLine
  <1>10. \A i \in 1 .. Q : over[i] = R + 1 + K + i /\ K = 0
    BY <1>4, <1>7, <1>9
  <1>11. Completion.id = active
         /\ Completion.error = IF outcome = "Timeout" THEN "Disconnected" ELSE outcome
    BY DEF Completion
  <1> HIDE DEF over, size, R, K, Q
  <1>12. ASSUME NEW i \in 1 .. Len(toReport')
         PROVE  /\ toReport'[i].id = R + i
                /\ i > 1 => toReport'[i].error = "Disconnected"
    <2>1. CASE i = 1
      BY <1>5, <1>8, <1>11, <2>1
    <2>2. CASE i \in 2 .. 1 + Q
      <3>1. i - 1 \in 1 .. Q /\ 1 + (i - 1) = i
        BY <1>4, <2>2
      <3>2. toReport'[i].id = over[i - 1] /\ toReport'[i].error = "Disconnected"
        BY ONLY <1>8, <3>1
      <3>3. over[i - 1] = R + i
        BY <1>4, <1>10, <3>1
      <3> QED BY <3>2, <3>3
    <2>3. CASE i \in 2 + Q .. 1 + Q + K
      <3>1. i - 1 - Q \in 1 .. K /\ 1 + Q + (i - 1 - Q) = i
        BY <1>4, <2>3
      <3>2. toReport'[i].id = cancelledIds[i - 1 - Q] /\ toReport'[i].error = "Disconnected"
        BY ONLY <1>8, <3>1
      <3>3. Q = 0
        BY <1>4, <1>10, <3>1
      <3>4. cancelledIds[i - 1 - Q] = R + i
        BY <1>4, <1>9, <3>1, <3>3
      <3> QED BY <3>2, <3>4
    <2> QED BY <1>4, <1>8, <2>1, <2>2, <2>3
  <1>13. Decided' = R + 1 + Q + K /\ Begun' = R + 1 + Q + K
    BY <1>1, <1>4, <1>8 DEF Decided, Begun, R
  <1>14. ItemTypes'
    BY <1>1, <1>3, <1>8 DEF ItemTypes, Completions
  <1>15. InLine'
    <2>1. Len(cancelledIds') = 0 /\ Len(queue') \in Nat
      BY <1>1, <1>3, LenProperties
    <2>2. Len(sends') = Begun' + Len(cancelledIds') + Len(queue')
      <3>1. CASE failed
        BY <1>1, <1>4, <1>7, <1>9, <1>13, <2>1, <3>1
      <3>2. CASE ~failed
        BY <1>1, <1>4, <1>7, <1>9, <1>13, <2>1, <3>2
      <3> QED BY <3>1, <3>2
    <2>3. \A i \in 1 .. Len(queue') : queue'[i] = Begun' + Len(cancelledIds') + i
      BY <1>4, <1>7, <1>9, <1>13, <2>1
    <2>4. \A i \in 1 .. Len(reports) : reports[i].id = i
      BY <1>9 DEF R
    <2>5. \A i \in 1 .. Len(toReport') : toReport'[i].id = Len(reports) + i
      BY <1>12 DEF R
    <2> QED BY <1>1, <2>1, <2>2, <2>3, <2>4, <2>5 DEF InLine
  <1>16. /\ \A k \in 1 .. R : Fate(k)' = Fate(k)
         /\ \A k : k = R + 1 => Fate(k)' = Completion.error
         /\ \A k \in R + 2 .. R + 1 + Q + K : Fate(k)' = "Disconnected"
    <2>1. \A k \in 1 .. R : Fate(k)' = Fate(k)
      BY <1>1 DEF Fate, R
    <2>2. ASSUME NEW k, k = R + 1 PROVE Fate(k)' = Completion.error
      <3>1. R' = R /\ ~(k <= R) /\ k - R = 1
        BY <1>1, <1>4, <2>2 DEF R
      <3> QED BY <1>8, <3>1 DEF Fate, R
    <2>3. ASSUME NEW k \in R + 2 .. R + 1 + Q + K PROVE Fate(k)' = "Disconnected"
      <3>1. R' = R /\ ~(k <= R) /\ k - R \in 1 .. Len(toReport') /\ k - R > 1
        BY <1>1, <1>4, <1>8 DEF R
      <3> QED BY <1>12, <3>1 DEF Fate, R
    <2> QED BY <2>1, <2>2, <2>3
  <1>17. /\ AnyFailed => outcome # "None" /\ ~open
         /\ \A k \in 1 .. R : Fate(k) # "None" => AnyFailed
         /\ Completion.error # "None" <=> outcome # "None"
    BY <1>1, <1>5, <1>6, <1>11 DEF Fates, Doomed, AnyFailed
  <1>18. Fates'
    <2>1. ASSUME NEW k \in 1 .. Decided', Fate(k)' # "None" PROVE ~open'
      <3>1. CASE k \in 1 .. R
        BY <1>1, <1>16, <1>17, <2>1, <3>1
      <3>2. CASE k = R + 1
        BY <1>1, <1>7, <1>16, <1>17, <2>1, <3>2
      <3>3. CASE k \in R + 2 .. R + 1 + Q + K
        <4>1. Q # 0 \/ K # 0
          BY <1>4, <3>3
        <4> QED BY <1>1, <1>7, <4>1
      <3> QED BY <1>4, <1>13, <3>1, <3>2, <3>3
    <2>2. ASSUME NEW k \in 1 .. Decided', NEW m \in 1 .. Decided', k < m, Fate(k)' # "None"
          PROVE  Fate(m)' # "None"
      <3>1. CASE m \in 1 .. R
        <4>1. k \in 1 .. R
          BY <1>4, <1>13, <2>2, <3>1
        <4> QED BY <1>5, <1>6, <1>16, <2>2, <3>1, <4>1 DEF Fates
      <3>2. CASE m = R + 1
        <4>1. k \in 1 .. R
          BY <1>4, <1>13, <2>2, <3>2
        <4> QED BY <1>16, <1>17, <2>2, <3>2, <4>1
      <3>3. CASE m \in R + 2 .. R + 1 + Q + K
        BY <1>16, <3>3
      <3> QED BY <1>4, <1>13, <3>1, <3>2, <3>3
    <2> QED BY <2>1, <2>2 DEF Fates, AnyFailed
  <1>19. Doomed' /\ Judged'
    BY <1>1 DEF Doomed, Judged
  <1>20. Counted'
    <2>1. Bytes(queue)' = Bytes(queue')
      BY <1>1 DEF Bytes
    <2>2. Bytes(queue) \in Nat /\ Bytes(<<>>) = 0 /\ pending = Bytes(queue) + size
      BY <1>1, <1>3, <1>6, SizeOfIs, NoBytes DEF Counted, size
    <2>3. CASE failed
      BY <1>1, <1>2, <2>1, <2>2, <2>3 DEF Counted, over
    <2>4. CASE ~failed
      BY <1>1, <1>2, <2>1, <2>2, <2>4 DEF Counted, over
    <2> QED BY <2>3, <2>4
  <1>21. Told'
    <2>1. \A i \in ToSet(cancelledIds) : i <= R + 1 + K
      <3>1. DOMAIN cancelledIds = 1 .. K
        BY ONLY ItemTypes, LenProperties DEF ItemTypes, K
      <3> QED BY <1>4, <1>9, <3>1 DEF ToSet
    <2>2. \A a \in answers : a.id \in Nat
      BY <1>4 DEF ItemTypes, Completions
    <2> QED BY <1>1, <1>4, <1>5, <1>6, <1>13, <2>1, <2>2 DEF Told
  <1>22. Lent'
    <2>1. ToSet(queue') \subseteq ToSet(queue)
      BY <1>1 DEF ToSet
    <2> QED BY <1>1, <1>6, <2>1 DEF Lent
  <1>23. OnWire'
    <2>1. \A i, e : BytesOut(i)' = BytesOut(i) /\ IsWhole(i, e)' = IsWhole(i, e)
      BY <1>1 DEF BytesOut, IsWhole
    <2>2. ASSUME NEW i \in 1 .. Len(toReport') PROVE IsWhole(toReport'[i].id, toReport'[i].error)
      <3>1. CASE i = 1
        <4>1. /\ BytesOut(active) = written
              /\ outcome = "None" => written = size
              /\ outcome # "None" => written < size \/ size = 0
          BY <1>1, <1>6 DEF OnWire, Judged, size
        <4>2. IsWhole(active, Completion.error)
          BY <1>17, <4>1 DEF IsWhole, size
        <4> QED BY <1>8, <1>11, <3>1, <4>2
      <3>2. CASE i > 1
        <4>1. toReport'[i].id \in 1 .. Len(sends) /\ toReport'[i].id > Begun
          <5>1. toReport'[i] \in Completions
            BY ONLY <1>8, ElementOfSeq
          <5> QED BY <1>4, <1>5, <1>12, <3>2, <5>1 DEF Completions
        <4> QED BY <1>6, <1>12, <3>2, <4>1, NotBegun
      <3> QED BY <3>1, <3>2
    <2>3. \A r \in ToSet(toReport') : IsWhole(r.id, r.error)
      <3>1. DOMAIN toReport' = 1 .. Len(toReport')
        BY ONLY <1>8, LenProperties
      <3> QED BY <2>2, <3>1 DEF ToSet
    <2>4. \A k \in DOMAIN stream : stream[k] <= Begun'
      <3>1. Begun <= Begun' /\ Begun \in Nat /\ Begun' \in Nat
        BY <1>4, <1>5, <1>13
      <3>2. \A k \in DOMAIN stream : stream[k] \in Nat /\ stream[k] <= Begun
        BY <1>6, Sizes DEF OnWire
      <3> QED BY <3>1, <3>2
    <2> QED BY <1>1, <1>6, <2>1, <2>3, <2>4 DEF OnWire
  <1> QED BY <1>14, <1>15, <1>18, <1>19, <1>20, <1>21, <1>22, <1>23 DEF SendsInv

-----------------------------------------------------------------------------
(* A send is accepted.                                                     *)

LEMMA AcceptStep ==
    ASSUME Flags, ThreadTypes, ItemTypes, Closing, SendsInv, NEW c \in Senders, Accept(c)
    PROVE  ItemTypes' /\ SendsInv'
  <1> DEFINE N == Len(sends)
             ids == 1 .. N
             more == 1 .. N + 1
  <1>1. /\ pc[c] = "enter" /\ open
        /\ sends' = Append(sends, req[c]) /\ queue' = Append(queue, N + 1)
        /\ pending' = pending + req[c].size
        /\ cur' = [cur EXCEPT ![c] = IF req[c].sync THEN N + 1 ELSE 0]
        /\ pc' = [pc EXCEPT ![c] = IF req[c].sync THEN "wait" ELSE "idle"]
        /\ wpc' = WriterWoken
        /\ UNCHANGED <<open, cancelledIds, answers, active, written, outcome, reports, toReport,
                       stream>>
    BY DEF Accept, peerVars, told
  <1>2. /\ N \in Nat /\ Len(queue) \in Nat /\ sends \in Seq(Request) /\ queue \in Seq(ids)
        /\ req[c] \in Request /\ req[c].size \in Nat
    BY Sizes DEF ItemTypes, ThreadTypes, Request
  <1>3. /\ sends' \in Seq(Request) /\ Len(sends') = N + 1
        /\ (\A i \in 1 .. N : sends'[i] = sends[i]) /\ sends'[N + 1] = req[c]
    BY ONLY <1>1, <1>2, AppendProperties
  <1>4. ids \subseteq more /\ N + 1 \in more
    BY <1>2
  <1>5. /\ queue' \in Seq(more) /\ Len(queue') = Len(queue) + 1
        /\ (\A i \in 1 .. Len(queue) : queue'[i] = queue[i]) /\ queue'[Len(queue) + 1] = N + 1
    <2> DEFINE x == N + 1
    <2>1. queue \in Seq(more)
      <3> HIDE DEF ids, more
      <3> QED BY ONLY <1>2, <1>4, SeqMonotonic
    <2>2. x \in more /\ queue' = Append(queue, x)
      BY <1>1, <1>4
    <2>3. /\ queue' \in Seq(more) /\ Len(queue') = Len(queue) + 1
          /\ (\A i \in 1 .. Len(queue) : queue'[i] = queue[i]) /\ queue'[Len(queue) + 1] = x
      <3> HIDE DEF more, x
      <3> QED BY ONLY <2>1, <2>2, AppendProperties
    <2> QED BY <2>3
  <1>6. Completions \subseteq Completions'
    BY <1>3, <1>4 DEF Completions
  <1>7. /\ cancelledIds \in Seq(more) /\ stream \in Seq(more)
        /\ reports \in Seq(Completions') /\ toReport \in Seq(Completions')
    <2>1. /\ cancelledIds \in Seq(ids) /\ stream \in Seq(ids)
          /\ reports \in Seq(Completions) /\ toReport \in Seq(Completions)
      BY DEF ItemTypes
    <2>2. cancelledIds \in Seq(more) /\ stream \in Seq(more)
      <3> HIDE DEF ids, more
      <3> QED BY ONLY <2>1, <1>4, SeqMonotonic
    <2>3. reports \in Seq(Completions') /\ toReport \in Seq(Completions')
      BY ONLY <2>1, <1>6, SeqMonotonic
    <2> QED BY <2>2, <2>3
  <1>8. ItemTypes'
    <2>1. answers' \subseteq Completions' /\ active' \in 0 .. N + 1
      BY <1>1, <1>2, <1>6 DEF ItemTypes
    <2>2. cur' \in [Senders -> 0 .. N + 1]
      BY <1>1, <1>2 DEF ItemTypes
    <2>3. reports' \in Seq(Completions') /\ toReport' \in Seq(Completions')
      BY <1>1, <1>7
    <2> QED BY <1>1, <1>3, <1>5, <1>7, <2>1, <2>2, <2>3 DEF ItemTypes
  <1>9. Writing' = Writing /\ (Writing => wpc' = wpc)
    BY <1>1, Woken DEF Writing
  <1>10. Decided' = Decided /\ Begun' = Begun /\ (\A k : Fate(k)' = Fate(k))
    BY <1>1, <1>9 DEF Decided, Begun, Fate
  <1>11. InLine /\ Fates /\ Doomed /\ Counted /\ Told /\ Lent /\ Judged /\ OnWire
    BY DEF SendsInv
  <1>12. Len(cancelledIds) = 0
    BY <1>1 DEF Closing
  <1>13. InLine'
    <2>1. /\ N = Begun + Len(queue) /\ Begun \in Nat
          /\ \A i \in 1 .. Len(queue) : queue[i] = Begun + i
      BY <1>11, <1>12, Sizes DEF InLine
    <2>2. ASSUME NEW i \in 1 .. Len(queue') PROVE queue'[i] = Begun + i
      <3>1. CASE i \in 1 .. Len(queue)
        BY <1>5, <2>1, <3>1
      <3>2. CASE i = Len(queue) + 1
        BY <1>2, <1>5, <2>1, <3>2
      <3> QED BY <1>2, <1>5, <3>1, <3>2
    <2>3. Len(sends') = Begun' + Len(cancelledIds') + Len(queue')
      BY <1>1, <1>2, <1>3, <1>5, <1>10, <1>12, <2>1
    <2>4. /\ \A i \in 1 .. Len(reports) : reports[i].id = i
          /\ \A i \in 1 .. Len(toReport) : toReport[i].id = Len(reports) + i
          /\ Writing => active = Begun
      BY <1>11 DEF InLine
    <2> QED BY <1>1, <1>9, <1>10, <1>12, <2>1, <2>2, <2>3, <2>4 DEF InLine
  <1>14. Fates' /\ ~AnyFailed'
    BY <1>1, <1>10, <1>11 DEF Fates, AnyFailed
  <1>15. Doomed' /\ Told'
    BY <1>1, <1>10, <1>11, <1>14 DEF Doomed, Told
  <1>16. Writing => active \in 1 .. N /\ sends'[active] = sends[active]
    <2>1. Writing => active = Begun /\ Begun \in 1 .. N
      BY <1>2, <1>11, Sizes DEF InLine, Begun
    <2> QED BY <1>3, <2>1
  <1>17. Judged'
    BY <1>1, <1>9, <1>11, <1>16 DEF Judged
  <1>18. /\ IsFiniteSet(ToSet(queue)) /\ ToSet(queue) \subseteq ids
         /\ Bytes(queue) = SumFunctionOnSet(SizeOf, ToSet(queue)) /\ Bytes(queue) \in Nat
         /\ SizeOf \in [ids -> Nat] /\ \A i \in ids : SizeOf[i] = sends[i].size
    BY <1>2, SizeOfIs
  <1>19. ToSet(queue') = ToSet(queue) \cup {N + 1}
    <2>1. DOMAIN queue = 1 .. Len(queue) /\ DOMAIN queue' = 1 .. Len(queue) + 1
      BY ONLY <1>2, <1>5, LenProperties
    <2>2. \A i \in 1 .. Len(queue) : queue'[i] \in ToSet(queue)
      BY <1>5, <2>1 DEF ToSet
    <2>3. ToSet(queue') \subseteq ToSet(queue) \cup {N + 1}
      <3> SUFFICES ASSUME NEW i \in 1 .. Len(queue) + 1
                   PROVE  queue'[i] \in ToSet(queue) \cup {N + 1}
        BY <2>1 DEF ToSet
      <3>1. i \in 1 .. Len(queue) \/ i = Len(queue) + 1
        BY <1>2
      <3> QED BY <1>5, <2>2, <3>1
    <2>4. \A i \in 1 .. Len(queue) : queue[i] \in ToSet(queue')
      <3> SUFFICES ASSUME NEW i \in 1 .. Len(queue) PROVE queue[i] \in ToSet(queue')
        OBVIOUS
      <3>1. i \in 1 .. Len(queue) + 1 /\ queue'[i] = queue[i]
        BY <1>2, <1>5
      <3> QED BY <2>1, <3>1 DEF ToSet
    <2>5. N + 1 \in ToSet(queue')
      <3>1. Len(queue) + 1 \in 1 .. Len(queue) + 1
        BY <1>2
      <3> QED BY <1>5, <2>1, <3>1 DEF ToSet
    <2>6. ToSet(queue) \subseteq ToSet(queue')
      BY <2>1, <2>4 DEF ToSet
    <2> QED BY <2>3, <2>5, <2>6
  <1>20. Counted'
    <2> DEFINE new == [i \in more |-> sends'[i].size]
               S == ToSet(queue)
               x == N + 1
    <2>1. DOMAIN sends' = more
      BY ONLY <1>3, LenProperties
    <2>2. Bytes(queue)' = SumFunctionOnSet(new, S \cup {x})
      BY <1>19, <2>1 DEF Bytes
    <2>3. /\ \A i \in S : new[i] = SizeOf[i] /\ SizeOf[i] \in Int /\ new[i] \in Int
          /\ new[x] = req[c].size /\ new[x] \in Int
      <3>1. ASSUME NEW i \in S
            PROVE  new[i] = SizeOf[i] /\ SizeOf[i] \in Int /\ new[i] \in Int
        <4>1. i \in ids /\ i \in more
          BY <1>4, <1>18
        <4>2. new[i] = sends[i].size
          BY <1>3, <4>1
        <4> QED BY <1>18, <4>1, <4>2
      <3>2. new[x] = req[c].size /\ new[x] \in Int
        BY <1>2, <1>3, <1>4
      <3> QED BY <3>1, <3>2
    <2>4. x \notin S
      BY <1>2, <1>18
    <2> HIDE DEF new, S, x
    <2>5. SumFunctionOnSet(new, S) = SumFunctionOnSet(SizeOf, S)
      <3>1. IsFiniteSet(S)
        BY <1>18 DEF S
      <3>2. (\A i \in S : SizeOf[i] \in Int) /\ \A i \in S : new[i] = SizeOf[i]
        BY <2>3
      <3> QED BY ONLY <3>1, <3>2, SumSame
    <2>6. SumFunctionOnSet(new, S \cup {x}) = new[x] + SumFunctionOnSet(new, S)
      <3>1. IsFiniteSet(S) /\ \A y \in S \cup {x} : new[y] \in Int
        BY <1>18, <2>3 DEF S
      <3> QED BY ONLY <2>4, <3>1, SumAdd
    <2>7. Bytes(queue)' = Bytes(queue) + req[c].size
      BY <1>2, <1>18, <2>2, <2>3, <2>5, <2>6 DEF S
    <2> DEFINE now == IF Writing THEN sends[active].size ELSE 0
    <2>8. now \in Nat /\ pending = Bytes(queue) + now
      BY <1>11, <1>16, Sizes DEF Counted
    <2>9. now' = now
      BY <1>1, <1>9, <1>16
    <2>10. pending' = Bytes(queue)' + now'
      <3> HIDE DEF now
      <3> QED BY <1>1, <1>2, <1>18, <2>7, <2>8, <2>9
    <2> QED BY <2>10 DEF Counted
  <1>21. Lent'
    <2> SUFFICES ASSUME NEW i \in ToSet(queue') \cup (IF Writing THEN {active} ELSE {}),
                        sends'[i].sync
                 PROVE  \E d \in Senders : cur'[d] = i /\ pc'[d] = "wait"
      BY <1>1, <1>9 DEF Lent
    <2>1. CASE i = N + 1
      BY <1>1, <1>3, <2>1 DEF ItemTypes, ThreadTypes
    <2>2. CASE i # N + 1
      <3>1. i \in ToSet(queue) \cup (IF Writing THEN {active} ELSE {}) /\ sends[i].sync
        BY <1>3, <1>16, <1>18, <1>19, <2>2
      <3>2. PICK d \in Senders : cur[d] = i /\ pc[d] = "wait"
        BY <1>11, <3>1 DEF Lent
      <3> QED BY <1>1, <3>2 DEF ItemTypes, ThreadTypes
    <2> QED BY <2>1, <2>2
  <1>22. OnWire'
    <2>1. \A i : BytesOut(i)' = BytesOut(i)
      BY <1>1 DEF BytesOut
    <2>2. \A i \in ids : sends'[i].size = sends[i].size
      BY <1>3
    <2>3. \A i \in ids : \A e : IsWhole(i, e)' = IsWhole(i, e)
      BY <2>1, <2>2 DEF IsWhole
    <2>4. \A r \in ToSet(reports) \cup ToSet(toReport) \cup answers : r.id \in ids
      <3>1. Decided <= N /\ Decided \in Nat
        BY <1>11, Sizes DEF InLine, Begun
      <3>2. \A r \in answers : r.id \in ids
        BY DEF ItemTypes, Completions
      <3> QED BY <1>2, <1>11, <3>1, <3>2, Known
    <2>5. \A r \in ToSet(reports) \cup ToSet(toReport) \cup answers : IsWhole(r.id, r.error)'
      BY <1>11, <2>3, <2>4 DEF OnWire
    <2>6. \A k \in 1 .. Len(stream) - 1 : stream[k] \in ids
      BY Sizes
    <2>7. \A k \in 1 .. Len(stream) - 1 :
             \/ stream[k] = stream[k + 1]
             \/ stream[k] < stream[k + 1] /\ BytesOut(stream[k]) = sends'[stream[k]].size
      BY <1>11, <2>2, <2>6 DEF OnWire
    <2> QED BY <1>1, <1>9, <1>10, <1>11, <2>1, <2>5, <2>7 DEF OnWire
  <1> QED BY <1>8, <1>13, <1>14, <1>15, <1>17, <1>20, <1>21, <1>22 DEF SendsInv

-----------------------------------------------------------------------------
(* The invariant, and what follows from it.                                *)

LEMMA ConnInit == Init => ConnInv
  <1> SUFFICES ASSUME Init PROVE ConnInv
    OBVIOUS
  <1> USE DEF Init
  <1>1. Len(<<>>) = 0 /\ ToSet(<<>>) = {} /\ \A S : <<>> \in Seq(S)
    BY EmptySeq DEF ToSet
  <1>2. ~Writing /\ Decided = 0 /\ Begun = 0
    BY <1>1 DEF Writing, Decided, Begun
  <1>3. Flags /\ ThreadTypes /\ ItemTypes
    <2>1. Flags
      BY DEF Flags
    <2>2. ThreadTypes
      BY ConnectionConstants DEF ThreadTypes, Errors, Nothing, Request
    <2>3. ItemTypes
      BY <1>1 DEF ItemTypes
    <2> QED BY <2>1, <2>2, <2>3
  <1>4. Drain /\ Closing /\ CloseIsNoFailure
    BY DEF Drain, Closing, CloseIsNoFailure, Writing
  <1>5. InLine /\ Fates /\ Doomed
    BY <1>1, <1>2 DEF InLine, Fates, Doomed, AnyFailed
  <1>6. Counted
    BY <1>1, <1>2, NoBytes DEF Counted
  <1>7. Told /\ Lent /\ Judged
    BY <1>1, <1>2 DEF Told, Lent, Judged
  <1>8. OnWire
    <2>1. DOMAIN stream = {}
      BY <1>1
    <2> QED BY <1>1, <1>2, <2>1 DEF OnWire
  <1> QED BY <1>3, <1>4, <1>5, <1>6, <1>7, <1>8 DEF ConnInv, SendsInv

LEMMA SendsStep ==
    ASSUME ConnInv, Next
    PROVE  ItemTypes' /\ SendsInv'
  <1> USE DEF ConnInv
  <1>1. CASE \E c \in Senders : SenderStep(c)
    <2> PICK c \in Senders : SenderStep(c)
      BY <1>1
    <2>1. CASE Asks(c)
      BY <2>1, StillSteps, StillStep
    <2> QED BY <2>1, AcceptStep, ReturnsStep DEF SenderStep, Asks
  <1>2. CASE WriterStep
    <2>1. CASE WriterChecks \/ ListenerReturns \/ Ends
      BY <2>1, StillSteps, StillStep
    <2>2. CASE \/ WriterLooks \/ WriterFails \/ WriterParks \/ WriterResumes
               \/ WriterTimesOut \/ WriterJudges
      BY <2>2, WriterProgresses
    <2>3. CASE WriterTakes \/ WriterTakesCancelled
      BY <2>3, TakesStep, CancelledStep
    <2>4. CASE WriterWrites \/ WriterSettles
      BY <2>4, WritesStep, SettlesStep
    <2>5. CASE WriterFrees \/ WriterReports
      BY <2>5, FreesStep, ReportsStep
    <2> QED BY <1>2, <2>1, <2>2, <2>3, <2>4, <2>5 DEF WriterStep, Ends
  <1>3. CASE DisconnectCuts
    BY <1>3, CutsStep
  <1>4. CASE \/ \E c \in Senders, r \in Requests : SendStarts(c, r)
             \/ \E m \in Marks : Resize(m)
             \/ Ends
    BY <1>4, StillSteps, StillStep
  <1> QED BY <1>1, <1>2, <1>3, <1>4 DEF Next, DisconnectStep, Ends

LEMMA ConnInvStays ==
    ASSUME ConnInv, UNCHANGED vars
    PROVE  ConnInv'
  <1> USE DEF ConnInv, vars, stateVars, chanVars, senderVars, itemVars, writerVars, endVars,
              peerVars, told
  <1>1. Flags' /\ ThreadTypes'
    BY DEF Flags, ThreadTypes
  <1>2. Drain' /\ Closing' /\ CloseIsNoFailure'
    BY DEF Drain, Closing, CloseIsNoFailure, Writing
  <1>3. Still
    BY DEF Still, Writing
  <1> QED BY <1>1, <1>2, <1>3, StillStep

LEMMA ConnInvKept == ConnInv /\ [Next]_vars => ConnInv'
  <1>1. ASSUME ConnInv, Next PROVE ConnInv'
    <2>1. Flags'
      BY <1>1, FlagsStep DEF ConnInv
    <2>2. ThreadTypes'
      BY <1>1, ThreadTypesStep DEF ConnInv, SendsInv
    <2>3. Drain' /\ Closing' /\ CloseIsNoFailure'
      BY <1>1, ClosingStep DEF ConnInv
    <2> QED BY <1>1, <2>1, <2>2, <2>3, SendsStep DEF ConnInv
  <1> QED BY <1>1, ConnInvStays

\* The connection's state is well typed; above all pending, which the code
\* decreases in three places, never wraps below zero.
THEOREM ConnectionTypeCorrect == Spec => []TypeOK
  <1>1. ASSUME ConnInv PROVE TypeOK
    <2>1. pending \in Nat
      <3>1. Bytes(queue) \in Nat
        BY <1>1, SizeOfIs DEF ConnInv, ItemTypes
      <3>2. Writing => sends[active].size \in Nat
        BY <1>1, ActiveIs DEF ConnInv
      <3> QED BY <1>1, <3>1, <3>2 DEF ConnInv, SendsInv, Counted
    <2>2. {connected, running, alive, linked, socket, open, peerUp} \subseteq BOOLEAN
          /\ {timeout, failed} \subseteq BOOLEAN
      BY <1>1 DEF ConnInv, Flags
    <2> QED BY <1>1, <2>1, <2>2 DEF ConnInv, ThreadTypes, ItemTypes, TypeOK
  <1> QED BY <1>1, ConnInit, ConnInvKept, PTL DEF Spec

\* The writer takes a send for failed only because of its peer: the socket closed on
\* this side ends no connection a second time.
THEOREM ClosingIsNoFailure == Spec => []CloseIsNoFailure
  <1>1. ConnInv => CloseIsNoFailure
    BY DEF ConnInv
  <1> QED BY <1>1, ConnInit, ConnInvKept, PTL DEF Spec

\* What the peer gets is whole payloads in order, the last perhaps cut short, as
\* completions and return values say; and bytes lent by send are read only while its
\* caller is blocked in it.
THEOREM PayloadsArrive == Spec => []PayloadsAreSound
  <1>1. ASSUME ConnInv PROVE PayloadsAreSound
    <2>1. WireIsSound
      BY <1>1 DEF ConnInv, SendsInv, OnWire, IsWhole, WireIsSound
    <2>2. BorrowedBytesHeld
      <3> SUFFICES ASSUME NEW i \in ToSet(queue) \cup
                              (IF wpc \in {"write", "step", "parked"} THEN {active} ELSE {}),
                          sends[i].sync
                   PROVE  \E c \in Senders : /\ cur[c] = i /\ pc[c] = "wait"
                                             /\ \A a \in answers : a.id # i
        BY DEF BorrowedBytesHeld
      <3>1. i \in ToSet(queue) \cup (IF Writing THEN {active} ELSE {})
        BY DEF Writing
      <3>2. \E c \in Senders : cur[c] = i /\ pc[c] = "wait"
        BY <1>1, <3>1 DEF ConnInv, SendsInv, Lent
      <3>3. \A a \in answers : a.id # i
        BY <1>1, <3>1, UndecidedIs DEF ConnInv, SendsInv, Told
      <3> QED BY <3>2, <3>3
    <2> QED BY <2>1, <2>2 DEF PayloadsAreSound
  <1> QED BY <1>1, ConnInit, ConnInvKept, PTL DEF Spec

-----------------------------------------------------------------------------
(* Every step is one of SendQueue, or none.                                *)

LEMMA AcceptIsAccept ==
    ASSUME ConnInv, NEW c \in Senders, Accept(c)
    PROVE  Sends!Accept
  <1>1. ~AnyFailed
    BY DEF ConnInv, SendsInv, Fates, Accept
  <1>2. ~Sends!Broken
    <2>1. \A k \in 1 .. Len(reports) : k \in 1 .. Decided /\ Fate(k) = reports[k].error
      BY Sizes DEF ConnInv, Decided, Fate
    <2> QED BY <1>1, <2>1 DEF AnyFailed, Sends!Broken
  <1>3. Len(sends') = Len(sends) + 1
    <2>1. sends \in Seq(Request) /\ req[c] \in Request /\ sends' = Append(sends, req[c])
      BY DEF ConnInv, ItemTypes, ThreadTypes, Accept
    <2> QED BY ONLY <2>1, AppendProperties
  <1> QED BY <1>2, <1>3 DEF Sends!Accept, Accept, told

LEMMA ReportIsComplete ==
    ASSUME ConnInv, WriterReports
    PROVE  \E e \in {"None", "Disconnected"} : Sends!Complete(e)
  <1> DEFINE r == Head(toReport)
             n == Len(reports) + 1
  <1>1. toReport # <<>> /\ toReport \in Seq(Completions)
    BY DEF ConnInv, Drain, WriterReports, ItemTypes
  <1>2. r = toReport[1] /\ r \in Completions /\ Len(toReport) \in Nat \ {0}
    BY ONLY <1>1, EmptySeq, HeadTailProperties
  <1>3. Len(reports) \in Nat /\ Len(sends) \in Nat /\ Decided \in Nat
    BY Sizes DEF ConnInv
  <1>4. n \in 1 .. Decided /\ 1 \in 1 .. Len(toReport) /\ Fate(n) = r.error
    BY <1>2, <1>3 DEF Decided, Fate
  <1>5. r.id = n /\ r.error \in {"None", "Disconnected"}
    <2>1. toReport[1].id = n
      BY <1>4 DEF ConnInv, SendsInv, InLine
    <2> QED BY <1>2, <2>1 DEF Completions, Errors
  <1>6. Len(reports) < Len(sends)
    <2>1. Len(sends) >= Decided
      BY <1>3, Sizes DEF ConnInv, SendsInv, InLine, Begun
    <2> QED BY <1>3, <1>4, <2>1
  <1>7. Sends!Broken => r.error # "None"
    <2>1. \A k \in 1 .. Len(reports) :
             k \in 1 .. Decided /\ k < n /\ Fate(k) = reports[k].error
      BY <1>3, <1>4 DEF Fate
    <2> QED BY <1>4, <2>1 DEF Sends!Broken, ConnInv, SendsInv, Fates
  <1>8. r = Sends!Completion(n, r.error)
    BY <1>2, <1>5 DEF Completions, Sends!Completion
  <1>9. reports' = Append(reports, r) /\ sends' = sends
    BY DEF WriterReports, itemVars
  <1>10. Sends!Complete(r.error)
    <2> HIDE DEF r
    <2> QED BY <1>6, <1>7, <1>8, <1>9 DEF Sends!Complete
  <1> QED BY <1>5, <1>10

LEMMA OtherStepsKeep ==
    ASSUME Next, ~WriterReports, \A c \in Senders : ~Accept(c)
    PROVE  UNCHANGED <<sends, reports>>
  <1> USE DEF WriterMoves, itemVars, told
  <1>1. ASSUME NEW c \in Senders, Asks(c) \/ SendReturns(c) PROVE UNCHANGED <<sends, reports>>
    BY <1>1 DEF Asks, Refuse, FindFull, FallAsleep, SendReturns
  <1>2. ASSUME NEW c \in Senders, NEW r \in Requests, SendStarts(c, r)
        PROVE  UNCHANGED <<sends, reports>>
    BY <1>2 DEF SendStarts
  <1>3. ASSUME NEW m \in Marks, Resize(m) PROVE UNCHANGED <<sends, reports>>
    BY <1>3 DEF Resize
  <1>4. ASSUME NEW who \in {Main, Receiver, Writer}, DisconnectStarts(who)
        PROVE  UNCHANGED <<sends, reports>>
    BY <1>4 DEF DisconnectStarts
  <1>5. CASE WriterChecks \/ WriterTakes \/ WriterTakesCancelled \/ WriterLooks \/ WriterWrites
    BY <1>5 DEF WriterChecks, WriterTakes, WriterTakesCancelled, WriterLooks, WriterWrites
  <1>6. CASE WriterFails \/ WriterParks \/ WriterResumes \/ WriterTimesOut \/ WriterJudges
    BY <1>6 DEF WriterFails, WriterParks, WriterResumes, WriterTimesOut, WriterJudges
  <1>7. CASE WriterSettles \/ WriterFrees \/ WriterTearsDown \/ WriterEnds \/ ListenerReturns
    BY <1>7 DEF WriterSettles, WriterFrees, WriterTearsDown, WriterEnds, ListenerReturns
  <1>8. CASE ReceiverStep
    BY <1>8 DEF ReceiverStep, ReceiverSeesEnd, ReceiverClaims, ReceiverDisconnects,
                ReceiverRetires, ReceiverTells, ReceiverStops
  <1>9. CASE DisconnectStep
    BY <1>9 DEF DisconnectStep, DisconnectCuts, DisconnectCloses, DisconnectJoins,
                DisconnectTells, DisconnectRetires
  <1>10. CASE PeerReads \/ PeerCloses
    BY <1>10 DEF PeerReads, PeerCloses
  <1> QED BY <1>1, <1>2, <1>3, <1>4, <1>5, <1>6, <1>7, <1>8, <1>9, <1>10
          DEF Next, SenderStep, WriterStep, Asks

LEMMA SendsStepIs == ConnInv /\ [Next]_vars => [Sends!SQNext]_(Sends!sqvars)
  <1> SUFFICES ASSUME ConnInv, [Next]_vars PROVE [Sends!SQNext]_(Sends!sqvars)
    OBVIOUS
  <1>1. CASE \E c \in Senders : Accept(c)
    BY <1>1, AcceptIsAccept DEF Sends!SQNext
  <1>2. CASE WriterReports
    BY <1>2, ReportIsComplete DEF Sends!SQNext
  <1>3. CASE UNCHANGED vars
    BY <1>3 DEF vars, itemVars, told, Sends!sqvars
  <1>4. CASE Next /\ ~WriterReports /\ ~\E c \in Senders : Accept(c)
    BY <1>4, OtherStepsKeep DEF Sends!sqvars
  <1> QED BY <1>1, <1>2, <1>3, <1>4

\* Every accepted send is reported once, in the order of acceptance, and none
\* succeeds after one that failed: the connection implements SendQueue.
THEOREM ConnectionKeepsOrder == Spec => KeepsOrder
  <1>1. Init => Sends!SQInit
    BY DEF Init, Sends!SQInit
  <1> QED BY <1>1, ConnInit, ConnInvKept, SendsStepIs, PTL DEF Spec, KeepsOrder, Sends!SQSpec

-----------------------------------------------------------------------------
(* How often listeners hear that the connection has ended.                 *)

\* Who may still tell them: the receive thread, the writer, disconnect().
ReceiverMayTell == rpc \in {"claimed", "retire", "tell"} \/ (rpc \in {"loop", "eof"} /\ running)
WriterMayTell == open \/ (failed /\ wpc \in {"settle", "free", "teardown", "ended"})
DisconnectMayTell == connected /\ dpc \notin {"retire", "done"}

\* How many of them may, given how many have.
StillToTell ==
    /\ ends \in 0 .. 2
    /\ ends = 1 => /\ ~(ReceiverMayTell /\ WriterMayTell)
                   /\ ~(ReceiverMayTell /\ DisconnectMayTell)
                   /\ ~(WriterMayTell /\ DisconnectMayTell)
    /\ ends = 2 => ~ReceiverMayTell /\ ~WriterMayTell /\ ~DisconnectMayTell

\* A worker that tells has cleared connected_ first, so disconnect() tells only if it
\* is first; and when it does, the worker it runs on, or both it has joined, will not.
WhoTells ==
    /\ rpc \in {"retire", "tell"} => ~connected
    /\ wpc \in {"teardown", "ended"} => ~connected \/ ~alive
    /\ dpc # "none" => ~running
    /\ ~alive => dpc = "done"
    /\ Occupied(Writer) => wpc \in {"ended", "heard"}
    /\ Occupied(Receiver) => rpc \in {"heard", "loop"}
    /\ dpc = "tell" /\ caller = Main => ~ReceiverMayTell /\ ~WriterMayTell

EndsInv == StillToTell /\ WhoTells

LEMMA EndsStep ==
    ASSUME Flags, ThreadTypes, Drain, Closing, EndsInv, Next
    PROVE  EndsInv'
  <1> USE ConnectionConstants
      DEF EndsInv, StillToTell, WhoTells, ReceiverMayTell, WriterMayTell, DisconnectMayTell,
          Occupied, WriterMoves, WriterWoken, Flags, ThreadTypes,
          stateVars, chanVars, senderVars, itemVars, writerVars, endVars, peerVars, told
  <1>1. ASSUME NEW c \in Senders, SenderStep(c) PROVE EndsInv'
    <2>1. CASE Accept(c)
      BY <2>1 DEF Accept
    <2>2. CASE Refuse(c) \/ FindFull(c) \/ FallAsleep(c) \/ SendReturns(c)
      BY <2>2 DEF Refuse, FindFull, FallAsleep, SendReturns
    <2> QED BY <1>1, <2>1, <2>2 DEF SenderStep
  <1>2. ASSUME NEW c \in Senders, NEW r \in Requests, SendStarts(c, r) PROVE EndsInv'
    BY <1>2 DEF SendStarts
  <1>3. ASSUME NEW m \in Marks, Resize(m) PROVE EndsInv'
    BY <1>3 DEF Resize
  <1>4. CASE WriterChecks \/ WriterTakes \/ WriterTakesCancelled
    <2>1. ~failed /\ wpc = "check"
      BY <1>4 DEF WriterChecks, WriterTakes, WriterTakesCancelled, Drain
    <2>2. CASE WriterChecks
      BY <2>1, <2>2 DEF WriterChecks
    <2>3. CASE WriterTakes
      BY <2>1, <2>3 DEF WriterTakes
    <2>4. CASE WriterTakesCancelled
      BY <2>1, <2>4 DEF WriterTakesCancelled
    <2> QED BY <1>4, <2>2, <2>3, <2>4
  <1>5. CASE WriterLooks \/ WriterWrites \/ WriterFails
    BY <1>5 DEF WriterLooks, WriterWrites, WriterFails
  <1>6. CASE WriterParks \/ WriterResumes \/ WriterTimesOut
    BY <1>6 DEF WriterParks, WriterResumes, WriterTimesOut
  <1>7. CASE WriterJudges
    BY <1>7 DEF WriterJudges, Breaks
  <1>8. CASE WriterSettles
    BY <1>8 DEF WriterSettles
  <1>9. CASE WriterFrees
    BY <1>9 DEF WriterFrees
  <1>10. CASE WriterTearsDown
    BY <1>10 DEF WriterTearsDown
  <1>11. CASE WriterEnds
    <2>1. failed /\ ~open /\ wpc = "ended" /\ ~Occupied(Writer)
      BY <1>11 DEF WriterEnds, Drain, Closing
    <2>2. UNCHANGED <<connected, running, alive, open, failed, rpc, dpc, caller>>
      BY <1>11 DEF WriterEnds
    <2>3. CASE alive /\ ~connected /\ ~running
      <3>1. wpc' = "heard" /\ ends' = ends + 1
        BY <1>11, <2>3 DEF WriterEnds
      <3>2. ~WriterMayTell'
        BY <2>1, <2>2, <3>1
      <3>3. (ReceiverMayTell' <=> ReceiverMayTell) /\ ~DisconnectMayTell'
        BY <2>2, <2>3
      <3>4. ends = 0 \/ (ends = 1 /\ ~ReceiverMayTell)
        BY <2>1
      <3>5. StillToTell'
        BY <3>1, <3>2, <3>3, <3>4
      <3> QED BY <2>1, <2>2, <2>3, <3>1, <3>5
    <2>4. CASE ~(alive /\ ~connected /\ ~running)
      <3>1. wpc' = "report" /\ ends' = ends
        BY <1>11, <2>4 DEF WriterEnds
      <3> QED BY <2>1, <2>2, <3>1
    <2> QED BY <2>3, <2>4
  <1>12. CASE WriterReports \/ ListenerReturns
    BY <1>12 DEF WriterReports, ListenerReturns
  <1>13. CASE ReceiverSeesEnd \/ ReceiverClaims \/ ReceiverStops
    BY <1>13 DEF ReceiverSeesEnd, ReceiverClaims, ReceiverStops
  <1>14. CASE ReceiverDisconnects \/ ReceiverRetires
    BY <1>14 DEF ReceiverDisconnects, ReceiverRetires
  <1>15. CASE ReceiverTells
    BY <1>15 DEF ReceiverTells
  <1>16. CASE DisconnectCuts
    BY <1>16 DEF DisconnectCuts
  <1>17. CASE DisconnectCloses \/ DisconnectJoins
    BY <1>17 DEF DisconnectCloses, DisconnectJoins, ReceiverGone, Closing
  <1>18. CASE DisconnectTells
    <2>1. dpc = "tell" /\ dpc' = "retire" /\ ~connected' /\ ~open /\ ~running
      BY <1>18 DEF DisconnectTells, Closing
    <2>2. UNCHANGED <<running, alive, open, failed, wpc, rpc, caller>>
      BY <1>18 DEF DisconnectTells
    <2>3. WhoTells'
      BY <2>1, <2>2
    <2>4. CASE connected
      <3>1. ends' = ends + 1
        BY <1>18, <2>4 DEF DisconnectTells
      <3>2. (ReceiverMayTell' <=> ReceiverMayTell) /\ (WriterMayTell' <=> WriterMayTell)
            /\ DisconnectMayTell /\ ~DisconnectMayTell'
        BY <2>1, <2>2, <2>4
      <3>3. ~(ReceiverMayTell /\ WriterMayTell)
        <4>1. CASE caller = Main
          BY <2>1, <4>1
        <4>2. CASE caller = Receiver
          BY <2>1, <4>2
        <4>3. CASE caller = Writer
          BY <2>1, <2>4, <4>3
        <4> QED BY <4>1, <4>2, <4>3
      <3>4. StillToTell'
        BY <3>1, <3>2, <3>3
      <3> QED BY <2>3, <3>4
    <2>5. CASE ~connected
      <3>1. ends' = ends
        BY <1>18, <2>5 DEF DisconnectTells
      <3> QED BY <2>1, <2>2, <2>3, <2>5, <3>1
    <2> QED BY <2>4, <2>5
  <1>19. CASE DisconnectRetires
    BY <1>19 DEF DisconnectRetires
  <1>20. ASSUME NEW who \in {Main, Receiver, Writer}, DisconnectStarts(who) PROVE EndsInv'
    BY <1>20 DEF DisconnectStarts
  <1>21. CASE PeerReads \/ PeerCloses
    BY <1>21 DEF PeerReads, PeerCloses
  <1> QED BY <1>1, <1>2, <1>3, <1>4, <1>5, <1>6, <1>7, <1>8, <1>9, <1>10, <1>11, <1>12, <1>13, <1>14,
             <1>15, <1>16, <1>17, <1>18, <1>19, <1>20, <1>21
          DEF Next, WriterStep, ReceiverStep, DisconnectStep

\* Listeners hear of the end of one connection twice at most, although three threads
\* may find it (writerThreadFunc, processSendQueue, disconnect): a listener that counts
\* on hearing it once is wrong, see EndsOnce, but never by more than one.
THEOREM EndsTwiceAtMost == Spec => [](ends <= 2)
  <1>1. Init => EndsInv
    BY DEF Init, EndsInv, StillToTell, WhoTells, Occupied
  <1>2. ConnInv /\ EndsInv /\ [Next]_vars => EndsInv'
    <2> SUFFICES ASSUME ConnInv, EndsInv, [Next]_vars PROVE EndsInv'
      OBVIOUS
    <2>1. CASE Next
      BY <2>1, EndsStep DEF ConnInv
    <2>2. CASE UNCHANGED vars
      BY <2>2 DEF EndsInv, StillToTell, WhoTells, ReceiverMayTell, WriterMayTell, DisconnectMayTell,
         Occupied, vars, stateVars, chanVars, writerVars, endVars, told
    <2> QED BY <2>1, <2>2
  <1>3. EndsInv => ends <= 2
    BY DEF EndsInv, StillToTell
  <1> QED BY <1>1, <1>2, <1>3, ConnInit, ConnInvKept, PTL DEF Spec
=============================================================================
