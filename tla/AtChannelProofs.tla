-------------------------- MODULE AtChannelProofs ---------------------------
(***************************************************************************)
(* The turn that the writer, the reader and the clients of the 3G card's   *)
(* daemon take, for any number of clients, any lengths of the queues and   *)
(* any number of commands, card changes and late answers.                  *)
(***************************************************************************)
EXTENDS AtChannel, FiniteSetTheorems, SequenceTheorems, TLAPS

----------------------------------------------------------------------------
\* The turn.

\* The reader has the answer of a command exactly between read() and the post.
ReaderInv == ans # None <=> rpc \in {"probe", "send", "handle"}

\* The semaphore, the writer, the card, the answer and the error pass one turn on.
TurnInv ==
    /\ wpc = "write" => cur # None
    /\ ~hasty =>
        /\ sem <= 1 /\ (wpc # "wait" => sem = 0)
        /\ port # <<>> \/ ans # None \/ rpc = "error" => wpc = "wait" /\ sem = 0
        /\ Len(port) <= 1
        /\ port # <<>> => port[1] = cur /\ ans = None /\ rpc # "error"
        /\ ans # None => ans = cur /\ rpc # "error"
        /\ wpc = "wait" /\ sem = 0 => cur # None

----------------------------------------------------------------------------
\* The commands of the clients.

\* A serial number is used once, and g_stAtFromOther is no longer in the queue.
SerialInv ==
    /\ \A i \in DOMAIN queue : queue[i].from \in Client =>
          /\ queue[i].id <= asked[queue[i].from].id
          /\ queue[i] # cur
          /\ \A j \in DOMAIN queue : queue[j] = queue[i] => j = i
    /\ cur # None /\ cur.from \in Client => cur.id <= asked[cur.from].id

\* Of a client that never timed out only the last command is under way, and only
\* while the client waits; calls apart.
Expected(x) ==
    x.typ \in Calls \/ tired[x.from] \/ (cpc[x.from] = "wait" /\ x = CommandOf(x.from))

UnderWayInv ==
    ~hasty =>
        /\ \A i \in DOMAIN queue : queue[i].from \in Client => Expected(queue[i])
        /\ Active /\ cur.from \in Client => Expected(cur)

\* A command whose outcome was told is no longer under way.
Settled(x) ==
    /\ x.id <= asked[x.from].id
    /\ Expected(x)
    /\ Active => x # cur
    /\ \A k \in DOMAIN queue : queue[k] # x

\* The replies in the queue of a client: each of the type of its own command, and none
\* twice, or about a call.
ReplySound(c, i, x) ==
    /\ x.from = c \/ (x.typ \in ToVoice /\ c = Voice)
    /\ x.typ \in Calls => replies[c][i].typ \in Calls
    /\ x.typ \notin Calls =>
          /\ replies[c][i].typ = x.typ
          /\ Settled(x)
          /\ \A j \in DOMAIN replies[c] : replies[c][j].to = x => j = i

ReplyInv ==
    ~hasty => \A c \in Client : \A i \in DOMAIN replies[c] : \A x \in Command :
                 replies[c][i].to = x => ReplySound(c, i, x)

ChannelInv ==
    /\ TypeOK /\ ReaderInv /\ TurnInv
    /\ SerialInv /\ UnderWayInv /\ ReplyInv /\ NoneForgotten

----------------------------------------------------------------------------
\* Commands, replies and the queues they are in.

\* The parts of a command and of a reply, and which records are commands and replies.
LEMMA Commands ==
    /\ \A x \in Command : x.from \in Client \cup {Self} /\ x.typ \in Type /\ x.id \in Nat
    /\ \A c \in Client, t \in Type, n \in Nat : [from |-> c, typ |-> t, id |-> n] \in Command
    /\ \A t \in Type : Own(t) \in Command /\ Own(t).from = Self
    /\ Self \notin Client /\ None \notin Command
    /\ {"sysinfo", "query", "cfun", "pin"} \subseteq Type /\ Calls \subseteq Type
    /\ {"dial", "accept"} \subseteq Calls /\ ToVoice \subseteq Calls
    /\ \A t \in Type, x \in Command : [typ |-> t, to |-> x] \in Reply
    /\ \A r \in Reply : r.typ \in Type /\ r.to \in Command
BY AsksAssumption, NoneAssumption DEF Command, Own, Reply, Type, Calls, ToVoice

\* What Append, Tail and msgrcv do to the places of a queue.
LEMMA Appended ==
    ASSUME NEW S, NEW s \in Seq(S), NEW x \in S
    PROVE  /\ Append(s, x) \in Seq(S) /\ Len(Append(s, x)) = Len(s) + 1
           /\ \A i \in DOMAIN Append(s, x) :
                 \/ i = Len(s) + 1 /\ Append(s, x)[i] = x
                 \/ i \in DOMAIN s /\ Append(s, x)[i] = s[i]
           /\ \A i \in DOMAIN s : i \in Nat /\ i # Len(s) + 1 /\ s[i] \in S
OBVIOUS

\* Nothing moves when a message is appended.
LEMMA Grown ==
    ASSUME NEW S, NEW s \in Seq(S), NEW x \in S
    PROVE  /\ \A i \in DOMAIN s : i \in DOMAIN Append(s, x) /\ Append(s, x)[i] = s[i]
           /\ Len(s) + 1 \in DOMAIN Append(s, x) /\ Append(s, x)[Len(s) + 1] = x
           /\ Len(Append(s, x)) = Len(s) + 1 /\ Len(s) \in Nat
OBVIOUS

\* The head of a queue that is not empty, and where the rest goes.
LEMMA Shortened ==
    ASSUME NEW S, NEW s \in Seq(S), s # <<>>
    PROVE  /\ Head(s) \in S /\ Head(s) = s[1] /\ 1 \in DOMAIN s
           /\ Tail(s) \in Seq(S) /\ Len(Tail(s)) = Len(s) - 1
           /\ \A i \in DOMAIN Tail(s) : /\ i + 1 \in DOMAIN s /\ i \in Nat /\ i >= 1
                                        /\ Tail(s)[i] = s[i + 1]
OBVIOUS

\* Where the messages go that msgrcv leaves in a queue.
LEMMA Removed ==
    ASSUME NEW S, NEW s \in Seq(S), NEW n \in DOMAIN s
    PROVE  /\ Without(s, n) \in Seq(S) /\ Len(Without(s, n)) = Len(s) - 1
           /\ \A k \in DOMAIN Without(s, n) : \E j \in DOMAIN s :
                 /\ j # n /\ Without(s, n)[k] = s[j]
                 /\ j = (IF k < n THEN k ELSE k + 1) /\ k \in Nat
<1> DEFINE w == Without(s, n)
<1>1. Len(s) \in Nat /\ n \in 1..Len(s) /\ Len(s) - 1 \in Nat
    OBVIOUS
<1>2. \A k \in 1..(Len(s) - 1) : (IF k < n THEN s[k] ELSE s[k + 1]) \in S
    BY <1>1
<1>3. w \in [1..(Len(s) - 1) -> S]
    BY <1>2 DEF Without
<1>4. w \in Seq(S) /\ Len(w) = Len(s) - 1
    BY <1>1, <1>3
<1>5. ASSUME NEW k \in DOMAIN w
      PROVE  \E j \in DOMAIN s : /\ j # n /\ w[k] = s[j]
                                 /\ j = (IF k < n THEN k ELSE k + 1) /\ k \in Nat
    <2>1. k \in 1..(Len(s) - 1) /\ w[k] = IF k < n THEN s[k] ELSE s[k + 1]
        BY <1>3 DEF Without
    <2> DEFINE j == IF k < n THEN k ELSE k + 1
    <2>2. j \in DOMAIN s /\ j # n /\ w[k] = s[j]
        BY <2>1, <1>1
    <2> QED  BY <2>2
<1> QED  BY <1>4, <1>5

\* What a read leaves of what the card owes.
LEMMA Suffix ==
    ASSUME NEW S, NEW s \in Seq(S), NEW n \in 1..(Len(s) + 1)
    PROVE  /\ SubSeq(s, n, Len(s)) \in Seq(S)
           /\ Len(s) <= 1 => SubSeq(s, n, Len(s)) \in {s, <<>>}
<1>1. Len(s) \in Nat /\ n \in Int /\ \A i \in n..Len(s) : s[i] \in S
    OBVIOUS
<1> DEFINE r == SubSeq(s, n, Len(s))
<1>2. /\ r \in Seq(S)
      /\ Len(r) = IF n <= Len(s) THEN Len(s) - n + 1 ELSE 0
      /\ \A i \in 1..(Len(s) - n + 1) : r[i] = s[n + i - 1]
    BY <1>1, SubSeqProperties
<1>3. CASE n > Len(s)
    BY <1>1, <1>3, SubSeqEmpty
<1>4. CASE n <= Len(s) /\ Len(s) <= 1
    <2>1. n = 1 /\ Len(s) = 1
        <3>1. PICK l \in Nat : l = Len(s) /\ n \in 1..(l + 1)
            OBVIOUS
        <3> QED  BY <1>4, <3>1
    <2>2. Len(r) = 1 /\ r[1] = s[n + 1 - 1]
        BY <1>2, <2>1
    <2> QED  BY <1>2, <2>1, <2>2, SeqEqual
<1> QED  BY <1>1, <1>2, <1>3, <1>4

----------------------------------------------------------------------------
\* The types.  The queues are kept apart: few actions touch them.

QueueType ==
    /\ queue \in Seq(Command) /\ Len(queue) <= QueueLen
    /\ replies \in [Client -> Seq(Reply)] /\ \A c \in Client : Len(replies[c]) <= ReplyLen

FlagType == sndflg \in BOOLEAN /\ signal \in BOOLEAN /\ alarm \in BOOLEAN /\ hasty \in BOOLEAN

ThreadType ==
    /\ sem \in Nat
    /\ cur \in Command \cup {None}
    /\ wflag \in {"unknown", "ok", "no"} /\ exist \in {"unknown", "yes", "no"}
    /\ card \in {"out", "new", "open"} /\ port \in Seq(Command)
    /\ wpc \in {"wait", "clear", "rcv", "write"} /\ wowe \in 0..2
    /\ rpc \in {"top", "detect", "opened", "send", "queue", "error", "read", "probe", "handle",
               "clip", "failed"}
    /\ rowe \in Seq(Type) /\ ans \in Command \cup {None}
    /\ own \in 0..MaxOwn /\ moves \in 0..MaxMove /\ late \in 0..MaxLate
    /\ wpc = "write" => cur # None

ClientType ==
    /\ cpc \in [Client -> {"idle", "wait", "drain"}] /\ tired \in [Client -> BOOLEAN]
    /\ asked \in [Client -> [id : 0..MaxAsk, typ : Type]]

\* The type invariant, part by part.
LEMMA TypeParts == TypeOK <=> QueueType /\ FlagType /\ ThreadType /\ ClientType
BY DEF TypeOK, QueueType, FlagType, ThreadType, ClientType

\* Every reply is the outcome of a command.
LEMMA ReplyTo ==
    ASSUME TypeOK, NEW c \in Client, NEW i \in DOMAIN replies[c]
    PROVE  replies[c][i].to \in Command
BY Commands, TypeParts DEF QueueType

\* The two threads and the card stay what their variables say.
LEMMA ThreadStep ==
    ThreadType /\ QueueType /\ (wpc = "write" => cur # None) /\ [Next]_vars => ThreadType'
<1> SUFFICES ASSUME ThreadType /\ QueueType /\ (wpc = "write" => cur # None), [Next]_vars
             PROVE  ThreadType'
    OBVIOUS
<1> USE QueueAssumption, SendsAssumption, BoundAssumption DEF queues, shared, device,
   writer, reader, clients, history, ThreadType
<1>1. ASSUME NEW c \in Client, Submit(c) PROVE ThreadType'
    BY <1>1 DEF Submit
<1>2. ASSUME NEW c \in Client, Take(c) PROVE ThreadType'
    BY <1>2 DEF Take, TakeLeaving
<1>3. ASSUME NEW c \in Client, Drained(c) PROVE ThreadType'
    BY <1>3 DEF Drained
<1>4. ASSUME NEW c \in Client, GiveUp(c) PROVE ThreadType'
    BY <1>4 DEF GiveUp
<1>5. CASE SemWait
    BY <1>5 DEF SemWait, SemWaitIf
<1>6. CASE Clear
    BY <1>6 DEF Clear
<1>7. CASE MsgRcv
    <2>1. Head(queue) \in Command
        BY <1>7, Shortened DEF MsgRcv, QueueType
    <2> QED  BY <1>7, <2>1, Commands DEF MsgRcv
<1>8. CASE Write
    <2>1. Append(port, cur) \in Seq(Command)
        BY <1>8, Appended DEF Write
    <2> QED  BY <1>8, <2>1, Commands DEF Write
<1>9. CASE AlarmFires
    BY <1>9 DEF AlarmFires
<1>10. CASE AlarmSend
    BY <1>10 DEF AlarmSend, AtSend
<1>11. CASE Poll
    BY <1>11 DEF Poll, SendSysinfo, DelayTimeInformIMSI, AtSend
<1>12. CASE Top
    BY <1>12 DEF Top, Check, GivesUp
<1>13. CASE Detect
    <2>1. CASE Opens
        <3>1. port' \in Seq(Command) /\ late' \in 0..MaxLate
            <4>1. CASE port' = <<>> /\ UNCHANGED late
                BY <4>1
            <4>2. ASSUME NEW t \in {"query", "pin"}, Leaves(<<>>, t)
                  PROVE  port' \in Seq(Command) /\ late' \in 0..MaxLate
                <5>1. Own(t) \in Command /\ <<>> \in Seq(Command)
                    BY Commands
                <5> QED  BY <4>2, <5>1, Appended DEF Leaves
            <4> QED  BY <2>1, <4>1, <4>2 DEF Opens
        <3> QED  BY <1>13, <2>1, <3>1 DEF Detect, Opens
    <2>2. CASE FindsNone
        BY <1>13, <2>2 DEF Detect, FindsNone, Check, GivesUp
    <2>3. CASE FindsNothingNew
        BY <1>13, <2>3 DEF Detect, FindsNothingNew, Check, GivesUp
    <2>4. CASE FindsAnother
        BY <1>13, <2>4 DEF Detect, FindsAnother, Check, GivesUp
    <2> QED  BY <1>13, <2>1, <2>2, <2>3, <2>4 DEF Detect
<1>14. CASE ReaderSend
    BY <1>14, Shortened DEF ReaderSend, AtSend
<1>15. CASE ReaderSent
    BY <1>15 DEF ReaderSent, Check, GivesUp
<1>16. CASE ErrorReply
    BY <1>16 DEF ErrorReply, ErrorReplyIf, SendReply, Deliver, Told, Post
<1>17. CASE ReadAnswer
    <2>1. Head(port) \in Command /\ Tail(port) \in Seq(Command)
        BY <1>17, Shortened DEF ReadAnswer
    <2> QED  BY <1>17, <2>1, Commands DEF ReadAnswer
<1>18. CASE Handle
    BY <1>18 DEF Handle, SendReply, Deliver, Told, Post
<1>19. CASE ReadNothing
    BY <1>19 DEF ReadNothing, ReadNothingPosting
<1>20. CASE ReadFails
    BY <1>20 DEF ReadFails
<1>21. CASE Failed
    BY <1>21 DEF Failed, GivesUp
<1>22. CASE PullOut
    BY <1>22 DEF PullOut, Move
<1>23. CASE PlugIn
    BY <1>23 DEF PlugIn, Move
<1>24. CASE UNCHANGED vars
    BY <1>24 DEF vars
<1>25. CASE ReadReport
    <2>1. <<"dex">> \in Seq(Type)
        BY DEF Type
    <2> QED  BY <1>25, <2>1 DEF ReadReport
<1>26. CASE Probe
    <2>1. port' \in Seq(Command)
        <3>1. CASE port' = <<>>
            BY <3>1
        <3>2. CASE port' # <<>>
            <4>1. PICK n \in 1..(Len(port) + 1), t \in {"query", "pin"} :
                    Leaves(SubSeq(port, n, Len(port)), t)
                BY <1>26, <3>2 DEF Probe
            <4>2. SubSeq(port, n, Len(port)) \in Seq(Command) /\ Own(t) \in Command
                BY Suffix, Commands
            <4> QED  BY <4>1, <4>2, Appended DEF Leaves
        <3> QED  BY <3>1, <3>2
    <2>2. late' \in 0..MaxLate
        BY <1>26 DEF Probe, Leaves
    <2>3. <<"cfun">> \in Seq(Type)
        BY Commands
    <2>4. rowe' \in Seq(Type) /\ own' \in 0..MaxOwn
        <3>1. own \in 0..MaxOwn /\ rowe \in Seq(Type) /\ MaxOwn \in Nat
            OBVIOUS
        <3>2. \/ own < MaxOwn /\ own' = own + 1 /\ rowe' = <<"cfun">>
              \/ UNCHANGED <<own, rowe>>
            BY <1>26 DEF Probe
        <3>3. own' \in 0..MaxOwn
            BY <3>1, <3>2
        <3>4. rowe' \in Seq(Type)
            BY <2>3, <3>1, <3>2
        <3> QED  BY <3>3, <3>4
    <2>5. rpc' \in {"probe", "send", "handle"}
        BY <1>26 DEF Probe
    <2> QED  BY <1>26, <2>1, <2>2, <2>4, <2>5 DEF Probe
<1>27. CASE Clip
    <2>1. port' \in Seq(Command)
        BY <1>27, Suffix DEF Clip
    <2>2. <<"query", "query">> \in Seq(Type)
        BY Commands
    <2> QED  BY <1>27, <2>1, <2>2 DEF Clip
<1>28. CASE Swap
    BY <1>28 DEF Swap, Move
<1> QED  BY <1>1, <1>2, <1>3, <1>4, <1>5, <1>6, <1>7, <1>8, <1>9, <1>10, <1>11, <1>12,
   <1>13, <1>14, <1>15, <1>16, <1>17, <1>18, <1>19, <1>20, <1>21, <1>22, <1>23, <1>24, <1>25, <1>26,
   <1>27, <1>28
   DEF Next, Writer, Reader

\* The semaphore, the alarm and the counters stay what their variables say.
LEMMA FlagStep == FlagType /\ [Next]_vars => FlagType'
<1> SUFFICES ASSUME FlagType, [Next]_vars PROVE FlagType'
    OBVIOUS
<1> USE DEF queues, shared, device, writer, reader, clients, history, FlagType
<1>1. ASSUME NEW c \in Client, Submit(c) PROVE FlagType'
    BY <1>1 DEF Submit
<1>2. ASSUME NEW c \in Client, Take(c) PROVE FlagType'
    BY <1>2 DEF Take, TakeLeaving
<1>3. ASSUME NEW c \in Client, Drained(c) PROVE FlagType'
    BY <1>3 DEF Drained
<1>4. ASSUME NEW c \in Client, GiveUp(c) PROVE FlagType'
    BY <1>4 DEF GiveUp
<1>5. CASE SemWait
    BY <1>5 DEF SemWait, SemWaitIf
<1>6. CASE Clear
    BY <1>6 DEF Clear
<1>7. CASE MsgRcv
    BY <1>7 DEF MsgRcv
<1>8. CASE Write
    BY <1>8 DEF Write
<1>9. CASE AlarmFires
    BY <1>9 DEF AlarmFires
<1>10. CASE AlarmSend
    BY <1>10 DEF AlarmSend, AtSend
<1>11. CASE Poll
    BY <1>11 DEF Poll, SendSysinfo, DelayTimeInformIMSI, AtSend
<1>12. CASE Top
    BY <1>12 DEF Top, Check, GivesUp
<1>13. CASE Detect
    BY <1>13 DEF Detect, Opens, FindsNone, FindsNothingNew, FindsAnother, Check, GivesUp,
       Leaves
<1>14. CASE ReaderSend
    BY <1>14 DEF ReaderSend, AtSend
<1>15. CASE ReaderSent
    BY <1>15 DEF ReaderSent, Check, GivesUp
<1>16. CASE ErrorReply
    BY <1>16 DEF ErrorReply, ErrorReplyIf, SendReply, Deliver, Told, Post
<1>17. CASE ReadAnswer
    BY <1>17 DEF ReadAnswer
<1>18. CASE Handle
    BY <1>18 DEF Handle, SendReply, Deliver, Told, Post
<1>19. CASE ReadNothing
    BY <1>19 DEF ReadNothing, ReadNothingPosting
<1>20. CASE ReadFails
    BY <1>20 DEF ReadFails
<1>21. CASE Failed
    BY <1>21 DEF Failed, GivesUp
<1>22. CASE PullOut
    BY <1>22 DEF PullOut, Move
<1>23. CASE PlugIn
    BY <1>23 DEF PlugIn, Move
<1>24. CASE UNCHANGED vars
    BY <1>24 DEF vars
<1>25. CASE ReadReport
    BY <1>25 DEF ReadReport
<1>26. CASE Probe
    BY <1>26 DEF Probe, Leaves
<1>27. CASE Clip
    BY <1>27 DEF Clip
<1>28. CASE Swap
    BY <1>28 DEF Swap, Move
<1> QED  BY <1>1, <1>2, <1>3, <1>4, <1>5, <1>6, <1>7, <1>8, <1>9, <1>10, <1>11, <1>12,
   <1>13, <1>14, <1>15, <1>16, <1>17, <1>18, <1>19, <1>20, <1>21, <1>22, <1>23, <1>24, <1>25, <1>26,
   <1>27, <1>28
   DEF Next, Writer, Reader

\* A client is in one of three places, and what it asked last is a type and a number.
LEMMA ClientStep == ClientType /\ [Next]_vars => ClientType'
<1> SUFFICES ASSUME ClientType, [Next]_vars PROVE ClientType'
    OBVIOUS
<1> USE DEF queues, shared, device, writer, reader, clients, history, ClientType
<1>1. ASSUME NEW c \in Client, Submit(c) PROVE ClientType'
    <2>1. PICK t \in Asks[c] :
            /\ cpc[c] = "idle" /\ asked[c].id < MaxAsk /\ ~Full
            /\ queue' = Append(queue, [from |-> c, typ |-> t, id |-> asked[c].id + 1])
            /\ asked' = [asked EXCEPT ![c] = [id |-> @.id + 1, typ |-> t]]
            /\ cpc' = [cpc EXCEPT ![c] = "wait"] /\ UNCHANGED <<replies, tired>>
        BY <1>1 DEF Submit
    <2>2. t \in Type /\ asked[c].id \in 0..MaxAsk
        BY AsksAssumption DEF ClientType
    <2>3. [id |-> asked[c].id + 1, typ |-> t] \in [id : 0..MaxAsk, typ : Type]
        BY <2>1, <2>2, BoundAssumption
    <2> QED  BY <2>1, <2>3
<1>2. ASSUME NEW c \in Client, Take(c) PROVE ClientType'
    BY <1>2 DEF Take, TakeLeaving
<1>3. ASSUME NEW c \in Client, Drained(c) PROVE ClientType'
    BY <1>3 DEF Drained
<1>4. ASSUME NEW c \in Client, GiveUp(c) PROVE ClientType'
    BY <1>4 DEF GiveUp
<1>5. CASE SemWait
    BY <1>5 DEF SemWait, SemWaitIf
<1>6. CASE Clear
    BY <1>6 DEF Clear
<1>7. CASE MsgRcv
    BY <1>7 DEF MsgRcv
<1>8. CASE Write
    BY <1>8 DEF Write
<1>9. CASE AlarmFires
    BY <1>9 DEF AlarmFires
<1>10. CASE AlarmSend
    BY <1>10 DEF AlarmSend, AtSend
<1>11. CASE Poll
    BY <1>11 DEF Poll, SendSysinfo, DelayTimeInformIMSI, AtSend
<1>12. CASE Top
    BY <1>12 DEF Top, Check, GivesUp
<1>13. CASE Detect
    BY <1>13 DEF Detect, Opens, FindsNone, FindsNothingNew, FindsAnother, Check, GivesUp,
       Leaves
<1>14. CASE ReaderSend
    BY <1>14 DEF ReaderSend, AtSend
<1>15. CASE ReaderSent
    BY <1>15 DEF ReaderSent, Check, GivesUp
<1>16. CASE ErrorReply
    BY <1>16 DEF ErrorReply, ErrorReplyIf, SendReply, Deliver, Told, Post
<1>17. CASE ReadAnswer
    BY <1>17 DEF ReadAnswer
<1>18. CASE Handle
    BY <1>18 DEF Handle, SendReply, Deliver, Told, Post
<1>19. CASE ReadNothing
    BY <1>19 DEF ReadNothing, ReadNothingPosting
<1>20. CASE ReadFails
    BY <1>20 DEF ReadFails
<1>21. CASE Failed
    BY <1>21 DEF Failed, GivesUp
<1>22. CASE PullOut
    BY <1>22 DEF PullOut, Move
<1>23. CASE PlugIn
    BY <1>23 DEF PlugIn, Move
<1>24. CASE UNCHANGED vars
    BY <1>24 DEF vars
<1>25. CASE ReadReport
    BY <1>25 DEF ReadReport
<1>26. CASE Probe
    BY <1>26 DEF Probe, Leaves
<1>27. CASE Clip
    BY <1>27 DEF Clip
<1>28. CASE Swap
    BY <1>28 DEF Swap, Move
<1> QED  BY <1>1, <1>2, <1>3, <1>4, <1>5, <1>6, <1>7, <1>8, <1>9, <1>10, <1>11, <1>12,
   <1>13, <1>14, <1>15, <1>16, <1>17, <1>18, <1>19, <1>20, <1>21, <1>22, <1>23, <1>24, <1>25, <1>26,
   <1>27, <1>28
   DEF Next, Writer, Reader

\* A reply is a type and a command, and does not overfill a queue.
LEMMA Delivered ==
    ASSUME QueueType, NEW m, NEW t \in Type, NEW of \in Command, Deliver(m, t, of)
    PROVE  /\ replies' \in [Client -> Seq(Reply)]
           /\ \A c \in Client : Len(replies'[c]) <= ReplyLen
<1>1. CASE replies' = replies
    BY <1>1 DEF QueueType
<1>2. CASE replies' # replies
    <2> DEFINE r == [typ |-> t, to |-> of]
    <2>1. /\ m \in Client /\ Len(replies[m]) < ReplyLen
          /\ replies' = [replies EXCEPT ![m] = Append(@, r)]
        BY <1>2 DEF Deliver
    <2>2. r \in Reply
        BY Commands
    <2>3. /\ Append(replies[m], r) \in Seq(Reply)
          /\ Len(Append(replies[m], r)) = Len(replies[m]) + 1
        BY <2>1, <2>2, Appended DEF QueueType
    <2> QED  BY <2>1, <2>3, QueueAssumption DEF QueueType
<1> QED  BY <1>1, <1>2

\* The queues hold commands and replies, and not too many.
LEMMA QueueStep == QueueType /\ ThreadType /\ ClientType /\ ReaderInv /\ [Next]_vars => QueueType'
<1> SUFFICES ASSUME QueueType /\ ThreadType /\ ClientType /\ ReaderInv, [Next]_vars PROVE QueueType'
    OBVIOUS
<1> USE DEF queues, shared, device, writer, reader, clients, history, QueueType
<1>1. ASSUME NEW c \in Client, Submit(c) PROVE QueueType'
    <2>1. PICK t \in Asks[c] :
            /\ cpc[c] = "idle" /\ asked[c].id < MaxAsk /\ ~Full
            /\ queue' = Append(queue, [from |-> c, typ |-> t, id |-> asked[c].id + 1])
            /\ asked' = [asked EXCEPT ![c] = [id |-> @.id + 1, typ |-> t]]
            /\ cpc' = [cpc EXCEPT ![c] = "wait"] /\ UNCHANGED <<replies, tired>>
        BY <1>1 DEF Submit
    <2>2. t \in Type /\ asked[c].id \in 0..MaxAsk
        BY AsksAssumption DEF ClientType
    <2> DEFINE x == [from |-> c, typ |-> t, id |-> asked[c].id + 1]
    <2>3. x \in Command
        <3>1. asked[c].id + 1 \in Nat
            BY <2>2, BoundAssumption
        <3> QED  BY <2>2, <3>1, Commands
    <2>4. Append(queue, x) \in Seq(Command) /\ Len(Append(queue, x)) = Len(queue) + 1
        BY <2>3, Appended
    <2> QED  BY <2>1, <2>4, QueueAssumption DEF Full
<1>2. ASSUME NEW c \in Client, Take(c) PROVE QueueType'
    <2>1. PICK n \in DOMAIN replies[c] :
            replies' = [replies EXCEPT ![c] = Without(replies[c], n)] /\ UNCHANGED queue
        BY <1>2 DEF Take, TakeLeaving
    <2>2. /\ Without(replies[c], n) \in Seq(Reply)
          /\ Len(Without(replies[c], n)) = Len(replies[c]) - 1
        BY Removed
    <2> QED  BY <2>1, <2>2, QueueAssumption
<1>3. ASSUME NEW c \in Client, Drained(c) PROVE QueueType'
    BY <1>3 DEF Drained
<1>4. ASSUME NEW c \in Client, GiveUp(c) PROVE QueueType'
    BY <1>4 DEF GiveUp
<1>5. CASE SemWait
    BY <1>5 DEF SemWait, SemWaitIf
<1>6. CASE Clear
    BY <1>6 DEF Clear
<1>7. CASE MsgRcv
    <2>1. Tail(queue) \in Seq(Command) /\ Len(Tail(queue)) = Len(queue) - 1
        BY <1>7, Shortened DEF MsgRcv
    <2> QED  BY <1>7, <2>1, QueueAssumption DEF MsgRcv
<1>8. CASE Write
    BY <1>8 DEF Write
<1>9. CASE AlarmFires
    BY <1>9 DEF AlarmFires
<1>10. CASE AlarmSend
    <2>1. PICK t \in Type : ~Full /\ queue' = Append(queue, Own(t)) /\ UNCHANGED replies
        BY <1>10, Commands DEF AlarmSend, AtSend
    <2>2. Append(queue, Own(t)) \in Seq(Command) /\ Len(Append(queue, Own(t))) = Len(queue) + 1
        BY Appended, Commands
    <2> QED  BY <2>1, <2>2, QueueAssumption DEF Full
<1>11. CASE Poll
    <2>1. PICK t \in Type : ~Full /\ queue' = Append(queue, Own(t)) /\ UNCHANGED replies
        BY <1>11, Commands DEF Poll, SendSysinfo, DelayTimeInformIMSI, AtSend
    <2>2. Append(queue, Own(t)) \in Seq(Command) /\ Len(Append(queue, Own(t))) = Len(queue) + 1
        BY Appended, Commands
    <2> QED  BY <2>1, <2>2, QueueAssumption DEF Full
<1>12. CASE Top
    BY <1>12 DEF Top, Check, GivesUp
<1>13. CASE Detect
    BY <1>13 DEF Detect, Opens, FindsNone, FindsNothingNew, FindsAnother, Check, GivesUp,
       Leaves
<1>14. CASE ReaderSend
    <2>1. PICK t \in Type : ~Full /\ queue' = Append(queue, Own(t)) /\ UNCHANGED replies
        BY <1>14, Shortened DEF ReaderSend, AtSend, ThreadType
    <2>2. Append(queue, Own(t)) \in Seq(Command) /\ Len(Append(queue, Own(t))) = Len(queue) + 1
        BY Appended, Commands
    <2> QED  BY <2>1, <2>2, QueueAssumption DEF Full
<1>15. CASE ReaderSent
    BY <1>15 DEF ReaderSent, Check, GivesUp
<1>16. CASE ErrorReply
    <2>1. CASE cur # None
        <3>1. cur \in Command /\ cur.typ \in Type /\ Deliver(cur.from, cur.typ, cur)
            BY <1>16, <2>1, Commands DEF ErrorReply, ErrorReplyIf, SendReply, ThreadType
        <3> QED  BY <1>16, <3>1, Delivered DEF ErrorReply, ErrorReplyIf
    <2>2. CASE cur = None
        BY <1>16, <2>2 DEF ErrorReply, ErrorReplyIf
    <2> QED  BY <2>1, <2>2
<1>17. CASE ReadAnswer
    BY <1>17 DEF ReadAnswer
<1>18. CASE Handle
    <2>1. ans \in Command
        BY <1>18 DEF Handle, ReaderInv, ThreadType
    <2>2. UNCHANGED queue /\ ans.typ \in Type
        BY <1>18, <2>1, Commands DEF Handle
    <2>3. ASSUME NEW m, NEW t \in Type, Deliver(m, t, ans) PROVE QueueType'
        BY <2>1, <2>2, <2>3, Delivered
    <2>4. CASE UNCHANGED replies
        BY <2>2, <2>4
    <2>5. {"accept", "dial"} \subseteq Type
        BY Commands
    <2> QED  BY <1>18, <2>2, <2>3, <2>4, <2>5 DEF Handle, Told, SendReply
<1>19. CASE ReadNothing
    BY <1>19 DEF ReadNothing, ReadNothingPosting
<1>20. CASE ReadFails
    BY <1>20 DEF ReadFails
<1>21. CASE Failed
    BY <1>21 DEF Failed, GivesUp
<1>22. CASE PullOut
    BY <1>22 DEF PullOut, Move
<1>23. CASE PlugIn
    BY <1>23 DEF PlugIn, Move
<1>24. CASE UNCHANGED vars
    BY <1>24 DEF vars
<1>25. CASE ReadReport
    BY <1>25 DEF ReadReport
<1>26. CASE Probe
    BY <1>26 DEF Probe, Leaves
<1>27. CASE Clip
    BY <1>27 DEF Clip
<1>28. CASE Swap
    BY <1>28 DEF Swap, Move
<1> QED  BY <1>1, <1>2, <1>3, <1>4, <1>5, <1>6, <1>7, <1>8, <1>9, <1>10, <1>11, <1>12,
   <1>13, <1>14, <1>15, <1>16, <1>17, <1>18, <1>19, <1>20, <1>21, <1>22, <1>23, <1>24, <1>25, <1>26,
   <1>27, <1>28
   DEF Next, Writer, Reader

----------------------------------------------------------------------------
\* What the steps do to the turn.  The card, the flags and most of the reader's places
\* do not matter to it.

still == <<sem, cur, wpc, ans, queue, replies, cpc, asked, tired>>

Goes ==
    \/ rpc' = rpc
    \/ ans = None /\ rpc' \in {"top", "detect", "opened", "queue", "read", "failed"}
    \/ ans # None /\ rpc' \in {"probe", "send", "handle"}

Looks ==
    /\ UNCHANGED <<still, hasty>>
    /\ port' \in {port, <<>>} \/ Len(port) > 1
    /\ Goes

Strays == UNCHANGED still /\ hasty' /\ Goes

Abandons ==
    /\ UNCHANGED still
    /\ port' \in {port, <<>>}
    /\ ans = None /\ rpc' = "error"
    /\ hasty' = (hasty \/ ~(wpc = "wait" /\ sem = 0) \/ port' # <<>>)

Sends ==
    /\ \E t \in Type : queue' = Append(queue, Own(t))
    /\ UNCHANGED <<sem, cur, wpc, ans, replies, cpc, asked, tired, port, rpc, hasty>>

Tells(of) ==
    \/ /\ UNCHANGED replies
       /\ \/ of.typ \in Calls
          \/ cur # None /\ (cur.from \in Client => ~(Len(replies[cur.from]) < ReplyLen))
          \/ cur = None
    \/ \E c \in Client, t \in Type :
          /\ \/ cur # None /\ c = cur.from /\ t = of.typ
             \/ of.typ \in ToVoice /\ c = Voice /\ t \in Calls
          /\ replies' = [replies EXCEPT ![c] = Append(@, [typ |-> t, to |-> of])]

Posts ==
    /\ \/ rpc = "error" /\ ans = None /\ Tells(cur)
       \/ rpc = "handle" /\ ans # None /\ Tells(ans)
    /\ sem' = sem + 1
    /\ rpc' \in {"top", "clip"} /\ ans' = None
    /\ UNCHANGED <<cur, wpc, queue, cpc, asked, tired, port, hasty>>

\* The end of a look at the card and at what was written.
LEMMA CheckKinds ==
    ASSUME Check, ans = None, UNCHANGED still, port' \in {port, <<>>}
    PROVE  Looks \/ Abandons
<1>1. CASE Unanswered
    BY <1>1 DEF Check, GivesUp, Abandons
<1>2. CASE ~Unanswered
    BY <1>2 DEF Check, Looks, Goes
<1> QED  BY <1>1, <1>2

\* A reply is queued, or its queue is full or there is none.
LEMMA Reaches ==
    ASSUME NEW m, NEW t, NEW of, Deliver(m, t, of)
    PROVE  \/ UNCHANGED replies /\ (m \in Client => ~(Len(replies[m]) < ReplyLen))
           \/ /\ m \in Client
              /\ replies' = [replies EXCEPT ![m] = Append(@, [typ |-> t, to |-> of])]
BY DEF Deliver

\* Every step of the daemon and its clients is one of these.
LEMMA TurnSteps ==
    ASSUME ThreadType, ReaderInv, [Next]_vars
    PROVE  \/ \E c \in Client : Submit(c) \/ Take(c) \/ Drained(c) \/ GiveUp(c)
           \/ SemWait \/ Clear \/ MsgRcv \/ Write \/ ReadAnswer
           \/ Looks \/ Strays \/ Abandons \/ Sends \/ Posts
<1> USE DEF queues, shared, device, writer, reader, clients, history, still, ReaderInv
<1>1. CASE AlarmSend \/ Poll
    BY <1>1, Commands DEF AlarmSend, Poll, SendSysinfo, DelayTimeInformIMSI, AtSend, Sends
<1>1a. CASE ReaderSend
    <2>1. Head(rowe) \in Type
        BY <1>1a, Shortened DEF ReaderSend, ThreadType
    <2> QED  BY <1>1a, <2>1 DEF ReaderSend, AtSend, Sends
<1>2. CASE Top
    <2>1. ans = None /\ UNCHANGED <<still, port>>
        BY <1>2 DEF Top
    <2>2. CASE signal
        BY <1>2, <2>1, <2>2 DEF Top, Looks, Goes
    <2>3. CASE ~signal
        BY <1>2, <2>1, <2>3, CheckKinds DEF Top
    <2> QED  BY <2>2, <2>3
<1>3. CASE Detect
    <2>1. ans = None /\ UNCHANGED still
        BY <1>3 DEF Detect
    <2>2. CASE Opens
        BY <2>1, <2>2 DEF Opens, Leaves, Looks, Strays, Goes
    <2>3. CASE FindsNone \/ FindsNothingNew \/ FindsAnother
        BY <2>1, <2>3, CheckKinds DEF FindsNone, FindsNothingNew, FindsAnother
    <2> QED  BY <1>3, <2>2, <2>3 DEF Detect
<1>4. CASE ReaderSent
    <2>1. UNCHANGED <<still, port>>
        BY <1>4 DEF ReaderSent
    <2>2. CASE rpc = "opened"
        BY <1>4, <2>1, <2>2, CheckKinds DEF ReaderSent
    <2>3. CASE rpc # "opened"
        BY <1>4, <2>1, <2>3 DEF ReaderSent, Looks, Goes
    <2> QED  BY <2>2, <2>3
<1>5. CASE Failed
    <2>1. ans = None /\ UNCHANGED <<still, port>>
        BY <1>5 DEF Failed
    <2>2. CASE wflag = "ok"
        BY <1>5, <2>1, <2>2 DEF Failed, GivesUp, Abandons
    <2>3. CASE wflag # "ok"
        BY <1>5, <2>1, <2>3 DEF Failed, Looks, Goes
    <2> QED  BY <2>2, <2>3
<1>6. CASE ReadNothing
    <2>1. ans = None /\ UNCHANGED <<still, port, hasty>>
        BY <1>6 DEF ReadNothing, ReadNothingPosting, ThreadType
    <2>2. rpc' \in {"failed", "top"}
        BY <1>6 DEF ReadNothing, ReadNothingPosting
    <2> QED  BY <2>1, <2>2 DEF Looks, Goes
<1>7. CASE ReadFails \/ ReadReport
    BY <1>7 DEF ReadFails, ReadReport, Looks, Goes
<1>8. CASE AlarmFires \/ PullOut \/ PlugIn \/ Swap
    BY <1>8 DEF AlarmFires, PullOut, PlugIn, Swap, Move, Looks, Goes
<1>9. CASE ErrorReply
    <2>1. Tells(cur)
        <3>1. CASE cur = None
            BY <1>9, <3>1 DEF ErrorReply, ErrorReplyIf, Tells
        <3>2. CASE cur # None
            <4>1. cur \in Command /\ Deliver(cur.from, cur.typ, cur)
                BY <1>9, <3>2 DEF ErrorReply, ErrorReplyIf, SendReply, ThreadType
            <4>2. cur.typ \in Type
                BY <4>1, Commands
            <4>3. \/ /\ UNCHANGED replies
                     /\ cur.from \in Client => ~(Len(replies[cur.from]) < ReplyLen)
                  \/ /\ cur.from \in Client
                     /\ replies' = [replies EXCEPT
                             ![cur.from] = Append(@, [typ |-> cur.typ, to |-> cur])]
                BY <4>1, Reaches
            <4> QED  BY <3>2, <4>2, <4>3 DEF Tells
        <3> QED  BY <3>1, <3>2
    <2> QED  BY <1>9, <2>1 DEF ErrorReply, ErrorReplyIf, Post, Posts
<1>10. CASE Handle
    <2>1. ans \in Command
        BY <1>10 DEF Handle, ThreadType
    <2>2. Tells(ans)
        <3>1. CASE ans.typ \in Calls /\ UNCHANGED replies
            BY <3>1 DEF Tells
        <3>2. CASE SendReply(ans.typ, ans) /\ cur # None
            <4>1. Deliver(cur.from, ans.typ, ans)
                BY <3>2 DEF SendReply
            <4>2. ans.typ \in Type
                BY <2>1, Commands
            <4>3. \/ /\ UNCHANGED replies
                     /\ cur.from \in Client => ~(Len(replies[cur.from]) < ReplyLen)
                  \/ /\ cur.from \in Client
                     /\ replies' = [replies EXCEPT
                             ![cur.from] = Append(@, [typ |-> ans.typ, to |-> ans])]
                BY <4>1, Reaches
            <4> QED  BY <3>2, <4>2, <4>3 DEF Tells
        <3>3. CASE SendReply(ans.typ, ans) /\ cur = None
            BY <3>3, Commands DEF SendReply, Deliver, Tells
        <3>4. ASSUME ans.typ \in ToVoice, NEW t \in {"accept", "dial"}, Deliver(Voice, t, ans)
              PROVE  Tells(ans)
            <4>1. t \in Calls /\ t \in Type /\ ans.typ \in Calls
                BY <3>4, Commands
            <4>2. \/ UNCHANGED replies
                  \/ /\ Voice \in Client
                     /\ replies' = [replies EXCEPT ![Voice] = Append(@, [typ |-> t, to |-> ans])]
                BY <3>4, Reaches
            <4> QED  BY <3>4, <4>1, <4>2 DEF Tells
        <3> QED  BY <1>10, <3>1, <3>2, <3>3, <3>4 DEF Handle, Told
    <2> QED  BY <1>10, <2>2 DEF Handle, Post, Posts
<1>11. CASE Probe
    <2>1. UNCHANGED still /\ Goes
        BY <1>11 DEF Probe, Goes
    <2>2. hasty' \/ (port' = <<>> /\ UNCHANGED hasty)
        BY <1>11 DEF Probe, Leaves
    <2> QED  BY <2>1, <2>2 DEF Looks, Strays
<1>12. CASE Clip
    <2>1. UNCHANGED <<still, hasty>> /\ Goes
        BY <1>12 DEF Clip, Goes
    <2>2. port' \in {port, <<>>} \/ Len(port) > 1
        <3>1. Len(port) \in Nat
            BY DEF ThreadType
        <3> QED  BY <1>12, <3>1, Suffix DEF Clip, ThreadType
    <2> QED  BY <2>1, <2>2 DEF Looks
<1>13. CASE UNCHANGED vars
    BY <1>13 DEF vars, Looks, Goes
<1> QED  BY <1>1, <1>1a, <1>2, <1>3, <1>4, <1>5, <1>6, <1>7, <1>8, <1>9, <1>10, <1>11,
            <1>12, <1>13
         DEF Next, Writer, Reader

\* An answer is held from read() to its handler only.
LEMMA ReaderStep == ThreadType /\ ReaderInv /\ [Next]_vars => ReaderInv'
<1> SUFFICES ASSUME ThreadType /\ ReaderInv, [Next]_vars PROVE ReaderInv'
    OBVIOUS
<1> USE DEF shared, device, writer, reader, clients, history, queues, ThreadType,
   ReaderInv
<1>1. ASSUME NEW c \in Client, Submit(c) PROVE ReaderInv'
    BY <1>1 DEF Submit
<1>2. ASSUME NEW c \in Client, Take(c) PROVE ReaderInv'
    BY <1>2 DEF Take, TakeLeaving
<1>3. ASSUME NEW c \in Client, Drained(c) PROVE ReaderInv'
    BY <1>3 DEF Drained
<1>4. ASSUME NEW c \in Client, GiveUp(c) PROVE ReaderInv'
    BY <1>4 DEF GiveUp
<1>5. CASE SemWait
    BY <1>5 DEF SemWait, SemWaitIf
<1>6. CASE Clear
    BY <1>6 DEF Clear
<1>7. CASE MsgRcv
    BY <1>7 DEF MsgRcv
<1>8. CASE Write
    BY <1>8 DEF Write
<1>9. CASE ReadAnswer
    BY <1>9, Commands, Shortened DEF ReadAnswer
<1>10. CASE Looks
    BY <1>10 DEF Looks, Goes, still
<1>11. CASE Abandons
    BY <1>11 DEF Abandons, still
<1>12. CASE Sends
    BY <1>12 DEF Sends
<1>13. CASE Posts
    BY <1>13 DEF Posts
<1>14. CASE Strays
    BY <1>14 DEF Strays, Goes, still
<1> QED  BY TypeParts, TurnSteps, <1>1, <1>2, <1>3, <1>4, <1>5, <1>6, <1>7, <1>8, <1>9,
   <1>10, <1>11, <1>12, <1>13, <1>14

\* The turn is passed on: to the writer by a post, by the writer to the card, by the card to
\* the reader, and nobody takes it twice.
LEMMA TurnStep == ThreadType /\ QueueType /\ ReaderInv /\ TurnInv /\ [Next]_vars => TurnInv'
<1> SUFFICES ASSUME ThreadType /\ QueueType /\ ReaderInv /\ TurnInv, [Next]_vars PROVE TurnInv'
    OBVIOUS
<1> USE DEF shared, device, writer, reader, clients, history, queues, ThreadType,
   ReaderInv, TurnInv
<1>1. ASSUME NEW c \in Client, Submit(c) PROVE TurnInv'
    BY <1>1 DEF Submit
<1>2. ASSUME NEW c \in Client, Take(c) PROVE TurnInv'
    BY <1>2 DEF Take, TakeLeaving
<1>3. ASSUME NEW c \in Client, Drained(c) PROVE TurnInv'
    BY <1>3 DEF Drained
<1>4. ASSUME NEW c \in Client, GiveUp(c) PROVE TurnInv'
    BY <1>4 DEF GiveUp
<1>5. CASE SemWait
    BY <1>5 DEF SemWait, SemWaitIf
<1>6. CASE Clear
    BY <1>6 DEF Clear
<1>7. CASE MsgRcv
    BY <1>7, Shortened, Commands DEF MsgRcv, QueueType
<1>8. CASE Write
    <2>1. ~hasty => port = <<>> /\ sem = 0 /\ ans = None /\ rpc # "error"
        BY <1>8 DEF Write
    <2>2. port' = port \/ port' = Append(port, cur)
        BY <1>8 DEF Write
    <2>3. CASE port' = port
        BY <1>8, <2>1, <2>3 DEF Write
    <2>4. CASE port' = Append(port, cur)
        <3>1. cur \in Command /\ port \in Seq(Command)
            BY <1>8 DEF Write
        <3>2. Len(port') = Len(port) + 1 /\ port'[Len(port) + 1] = cur
            BY <2>4, <3>1, Appended
        <3>3. ~hasty => Len(port') <= 1 /\ port'[1] = cur
            BY <2>1, <3>2
        <3>4. wpc' = "wait" /\ UNCHANGED <<sem, cur, ans, rpc, hasty>> /\ cur # None
            BY <1>8 DEF Write
        <3> QED  BY <2>1, <3>3, <3>4
    <2> QED  BY <2>2, <2>3, <2>4
<1>9. CASE ReadAnswer
    BY <1>9, Commands, Shortened DEF ReadAnswer
<1>10. CASE Looks
    BY <1>10 DEF Looks, Goes, still
<1>11. CASE Abandons
    BY <1>11 DEF Abandons, still
<1>12. CASE Sends
    BY <1>12 DEF Sends
<1>13. CASE Posts
    BY <1>13 DEF Posts
<1>14. CASE Strays
    BY <1>14 DEF Strays, still
<1> QED  BY TypeParts, TurnSteps, <1>1, <1>2, <1>3, <1>4, <1>5, <1>6, <1>7, <1>8, <1>9,
   <1>10, <1>11, <1>12, <1>13, <1>14

\* No number is used twice, and a command taken from the queue is not in it again.
LEMMA SerialStep == ChannelInv /\ [Next]_vars => SerialInv'
<1> SUFFICES ASSUME ChannelInv, [Next]_vars PROVE SerialInv'
    OBVIOUS
<1> USE TypeParts DEF shared, device, writer, reader, clients, history, queues,
   ChannelInv
<1>1. ASSUME NEW c \in Client, Submit(c) PROVE SerialInv'
    <2>1. PICK t \in Asks[c] :
            /\ cpc[c] = "idle"
            /\ queue' = Append(queue, [from |-> c, typ |-> t, id |-> asked[c].id + 1])
            /\ asked' = [asked EXCEPT ![c] = [id |-> @.id + 1, typ |-> t]]
            /\ cpc' = [cpc EXCEPT ![c] = "wait"]
            /\ UNCHANGED <<replies, tired, cur, sem, wpc, hasty>>
        BY <1>1 DEF Submit
    <2>2. t \in Type /\ asked[c].id \in 0..MaxAsk /\ \A d \in Client : asked[d].id \in Nat
        BY AsksAssumption, BoundAssumption DEF ClientType
    <2>3. PICK x \in Command : /\ x = [from |-> c, typ |-> t, id |-> asked[c].id + 1]
                               /\ x.from = c /\ x.id = asked[c].id + 1
        <3>1. [from |-> c, typ |-> t, id |-> asked[c].id + 1] \in Command
            BY <2>2, Commands
        <3> QED  BY <3>1
    <2>4. /\ asked'[c].id = asked[c].id + 1 /\ asked'[c].typ = t
          /\ \A d \in Client \ {c} : asked'[d] = asked[d]
        BY <2>1 DEF ClientType
    <2>5. queue' = Append(queue, x) /\ queue \in Seq(Command)
        BY <2>1, <2>3 DEF QueueType
    <2>5a. \A i \in DOMAIN queue' :
             \/ i = Len(queue) + 1 /\ queue'[i] = x
             \/ i \in DOMAIN queue /\ queue'[i] = queue[i]
        BY <2>3, <2>5, Appended
    <2>5b. \A i \in DOMAIN queue : i \in Nat /\ i # Len(queue) + 1 /\ queue[i] \in Command
        BY <2>3, <2>5, Appended
    <2>6. \A i \in DOMAIN queue : queue[i] # x
        BY <2>2, <2>3, <2>5a, <2>5b DEF SerialInv
    <2>7. cur # x
        BY <2>2, <2>3, Commands DEF SerialInv
    <2>8. \A d \in Client : asked[d].id <= asked'[d].id
        BY <2>2, <2>4
    <2>9. ASSUME NEW i \in DOMAIN queue', queue'[i].from \in Client
          PROVE  /\ queue'[i].id <= asked'[queue'[i].from].id
                 /\ queue'[i] # cur
                 /\ \A j \in DOMAIN queue' : queue'[j] = queue'[i] => j = i
        <3>1. CASE i \in DOMAIN queue /\ queue'[i] = queue[i]
            <4>1. queue[i].id \in Nat /\ queue[i].id <= asked[queue[i].from].id
                BY <3>1, <2>5a, <2>5b, <2>9, Commands DEF SerialInv
            <4>2. queue[i].id <= asked'[queue[i].from].id
                BY <4>1, <2>2, <2>4, <2>9, <3>1
            <4> QED  BY <3>1, <4>2, <2>5a, <2>5b, <2>6, <2>9 DEF SerialInv
        <3>2. CASE i = Len(queue) + 1 /\ queue'[i] = x
            BY <3>2, <2>2, <2>3, <2>4, <2>5a, <2>5b, <2>6, <2>7
        <3> QED  BY <2>5a, <2>5b, <2>9, <3>1, <3>2
    <2>10. cur # None /\ cur.from \in Client => cur.id <= asked'[cur.from].id
        <3>1. cur # None => cur.id \in Nat
            BY Commands DEF ThreadType
        <3> QED  BY <2>2, <2>4, <3>1 DEF SerialInv
    <2> QED  BY <2>1, <2>9, <2>10 DEF SerialInv
<1>2. ASSUME NEW c \in Client, Take(c) PROVE SerialInv'
    BY <1>2 DEF Take, TakeLeaving, SerialInv
<1>3. ASSUME NEW c \in Client, Drained(c) PROVE SerialInv'
    BY <1>3 DEF Drained, SerialInv
<1>4. ASSUME NEW c \in Client, GiveUp(c) PROVE SerialInv'
    BY <1>4 DEF GiveUp, SerialInv
<1>5. CASE SemWait
    BY <1>5 DEF SemWait, SemWaitIf, SerialInv
<1>6. CASE Clear
    <2>1. \A i \in DOMAIN queue : queue[i] # None
        BY Commands DEF QueueType
    <2> QED  BY <1>6, <2>1 DEF Clear, SerialInv
<1>7. CASE MsgRcv
    <2>1. /\ cur' = queue[1] /\ 1 \in DOMAIN queue /\ cur' \in Command
          /\ \A i \in DOMAIN queue' : /\ i + 1 \in DOMAIN queue /\ i \in Nat /\ i >= 1
                                      /\ queue'[i] = queue[i + 1]
          /\ UNCHANGED asked
        BY <1>7, Shortened DEF MsgRcv, QueueType
    <2>2. ASSUME NEW i \in DOMAIN queue', queue'[i].from \in Client
          PROVE  /\ queue'[i].id <= asked'[queue'[i].from].id
                 /\ queue'[i] # cur'
                 /\ \A j \in DOMAIN queue' : queue'[j] = queue'[i] => j = i
        <3>1. i + 1 # 1 /\ \A j \in DOMAIN queue' : j + 1 = i + 1 => j = i
            BY <2>1
        <3> QED  BY <2>1, <2>2, <3>1 DEF SerialInv
    <2> QED  BY <2>1, <2>2, Commands DEF SerialInv
<1>8. CASE Write
    BY <1>8 DEF Write, SerialInv
<1>9. CASE ReadAnswer
    BY <1>9 DEF ReadAnswer, SerialInv
<1>10. CASE Looks
    BY <1>10 DEF Looks, still, SerialInv
<1>11. CASE Abandons
    BY <1>11 DEF Abandons, still, SerialInv
<1>12. CASE Sends
    <2>1. PICK t \in Type : queue' = Append(queue, Own(t))
        BY <1>12 DEF Sends
    <2>2. \A i \in DOMAIN queue' :
             \/ i = Len(queue) + 1 /\ queue'[i] = Own(t)
             \/ i \in DOMAIN queue /\ queue'[i] = queue[i]
        <3>1. Own(t) \in Command /\ queue \in Seq(Command)
            BY Commands DEF QueueType
        <3> QED  BY <2>1, <3>1, Appended
    <2>3. Own(t).from \notin Client
        BY Commands
    <2> QED  BY <1>12, <2>2, <2>3 DEF Sends, SerialInv
<1>13. CASE Posts
    BY <1>13 DEF Posts, SerialInv
<1>14. CASE Strays
    BY <1>14 DEF Strays, still, SerialInv
<1> QED  BY TypeParts, TurnSteps, <1>1, <1>2, <1>3, <1>4, <1>5, <1>6, <1>7, <1>8, <1>9,
   <1>10, <1>11, <1>12, <1>13, <1>14

\* A client asks again only when its last command is settled, or after a time-out.
LEMMA UnderWayStep == ChannelInv /\ [Next]_vars => UnderWayInv'
<1> SUFFICES ASSUME ChannelInv, [Next]_vars PROVE UnderWayInv'
    OBVIOUS
<1> USE TypeParts DEF shared, device, writer, reader, clients, history, queues,
   ChannelInv
<1>1. ASSUME NEW c \in Client, Submit(c) PROVE UnderWayInv'
    <2>1. PICK t \in Asks[c] :
            /\ cpc[c] = "idle"
            /\ queue' = Append(queue, [from |-> c, typ |-> t, id |-> asked[c].id + 1])
            /\ asked' = [asked EXCEPT ![c] = [id |-> @.id + 1, typ |-> t]]
            /\ cpc' = [cpc EXCEPT ![c] = "wait"]
            /\ UNCHANGED <<replies, tired, cur, sem, wpc, hasty>>
        BY <1>1 DEF Submit
    <2>2. t \in Type /\ asked[c].id \in 0..MaxAsk /\ \A d \in Client : asked[d].id \in Nat
        BY AsksAssumption, BoundAssumption DEF ClientType
    <2>3. PICK x \in Command : /\ x = [from |-> c, typ |-> t, id |-> asked[c].id + 1]
                               /\ x.from = c /\ x.id = asked[c].id + 1
        <3>1. [from |-> c, typ |-> t, id |-> asked[c].id + 1] \in Command
            BY <2>2, Commands
        <3> QED  BY <3>1
    <2>4. /\ asked'[c].id = asked[c].id + 1 /\ asked'[c].typ = t
          /\ \A d \in Client \ {c} : asked'[d] = asked[d]
        BY <2>1 DEF ClientType
    <2>5. queue' = Append(queue, x) /\ queue \in Seq(Command)
        BY <2>1, <2>3 DEF QueueType
    <2>5a. \A i \in DOMAIN queue' :
             \/ i = Len(queue) + 1 /\ queue'[i] = x
             \/ i \in DOMAIN queue /\ queue'[i] = queue[i]
        BY <2>3, <2>5, Appended
    <2>5b. \A i \in DOMAIN queue : i \in Nat /\ i # Len(queue) + 1 /\ queue[i] \in Command
        BY <2>3, <2>5, Appended
    <2>6. ~hasty /\ ~tired[c] =>
             /\ \A i \in DOMAIN queue : queue[i].from = c => queue[i].typ \in Calls
             /\ Active /\ cur.from = c => cur.typ \in Calls
        BY <2>1 DEF UnderWayInv, Expected
    <2>7. \A y : y.from \in Client /\ y.from # c => (Expected(y)' <=> Expected(y))
        BY <2>1, <2>4 DEF Expected, CommandOf, ClientType
    <2>8. \A y : y.from = c /\ (tired[c] \/ y.typ \in Calls) => Expected(y)'
        BY <2>1 DEF Expected
    <2>9. Expected(x)'
        <3>1. cpc'[c] = "wait"
            BY <2>1 DEF ClientType
        <3>2. x = CommandOf(c)'
            BY <2>3, <2>4 DEF CommandOf
        <3> QED  BY <2>3, <3>1, <3>2 DEF Expected
    <2>10. Active' <=> Active
        BY <2>1 DEF Active
    <2> QED  BY <2>1, <2>5a, <2>6, <2>7, <2>8, <2>9, <2>10 DEF UnderWayInv
<1>2. ASSUME NEW c \in Client, Take(c) PROVE UnderWayInv'
    <2>1. PICK n \in DOMAIN replies[c] :
            /\ cpc[c] \in {"wait", "drain"} /\ cpc' = [cpc EXCEPT ![c] = "drain"]
            /\ replies[c][n].typ = asked[c].typ
            /\ UNCHANGED <<queue, cur, sem, wpc, asked, tired, hasty>>
        BY <1>2 DEF Take, TakeLeaving, Oldest, OfType
    <2>2. ~hasty /\ ~tired[c] =>
             /\ \A i \in DOMAIN queue : queue[i].from = c => queue[i].typ \in Calls
             /\ Active /\ cur.from = c => cur.typ \in Calls
        <3> SUFFICES ASSUME ~hasty, ~tired[c], asked[c].typ \notin Calls
                     PROVE  /\ \A i \in DOMAIN queue : queue[i].from = c => queue[i].typ \in Calls
                            /\ Active /\ cur.from = c => cur.typ \in Calls
            BY DEF UnderWayInv, Expected, CommandOf
        <3>1. PICK y \in Command : y = replies[c][n].to
            BY ReplyTo
        <3>2. y.typ \notin Calls /\ y.from = c /\ Settled(y)
            BY <2>1, <3>1, Commands DEF ReplyInv, ReplySound
        <3>3. y = CommandOf(c)
            BY <3>2 DEF Settled, Expected
        <3> QED  BY <3>2, <3>3 DEF UnderWayInv, Settled, Expected
    <2>3. \A y : y.from \in Client /\ y.from # c => (Expected(y)' <=> Expected(y))
        BY <2>1 DEF Expected, CommandOf, ClientType
    <2>4. \A y : y.from = c /\ (tired[c] \/ y.typ \in Calls) => Expected(y)'
        BY <2>1 DEF Expected
    <2>5. Active' <=> Active
        BY <2>1 DEF Active
    <2> QED  BY <2>1, <2>2, <2>3, <2>4, <2>5 DEF UnderWayInv
<1>3. ASSUME NEW c \in Client, Drained(c) PROVE UnderWayInv'
    BY <1>3 DEF Drained, UnderWayInv, Expected, CommandOf, Active, ClientType
<1>4. ASSUME NEW c \in Client, GiveUp(c) PROVE UnderWayInv'
    BY <1>4 DEF GiveUp, UnderWayInv, Expected, CommandOf, Active, ClientType
<1>5. CASE SemWait
    BY <1>5 DEF SemWait, SemWaitIf, UnderWayInv, Expected, CommandOf, Active,
       ThreadType
<1>6. CASE Clear
    BY <1>6 DEF Clear, UnderWayInv, Expected, CommandOf, Active
<1>7. CASE MsgRcv
    <2>1. /\ cur' = queue[1] /\ 1 \in DOMAIN queue
          /\ \A i \in DOMAIN queue' : i + 1 \in DOMAIN queue /\ queue'[i] = queue[i + 1]
          /\ UNCHANGED <<asked, cpc, tired, hasty>>
        BY <1>7, Shortened DEF MsgRcv, QueueType
    <2> QED  BY <2>1 DEF UnderWayInv, Expected, CommandOf
<1>8. CASE Write
    BY <1>8 DEF Write, UnderWayInv, Expected, CommandOf, Active
<1>9. CASE ReadAnswer
    BY <1>9 DEF ReadAnswer, UnderWayInv, Expected, CommandOf, Active
<1>10. CASE Looks
    BY <1>10 DEF Looks, still, UnderWayInv, Expected, CommandOf, Active
<1>11. CASE Abandons
    <2>1. ~hasty' => ~hasty
        BY <1>11 DEF Abandons
    <2> QED  BY <1>11, <2>1 DEF Abandons, still, UnderWayInv, Expected, CommandOf, Active
<1>12. CASE Sends
    <2>1. PICK t \in Type : queue' = Append(queue, Own(t))
        BY <1>12 DEF Sends
    <2>2. \A i \in DOMAIN queue' :
             \/ i = Len(queue) + 1 /\ queue'[i] = Own(t)
             \/ i \in DOMAIN queue /\ queue'[i] = queue[i]
        <3>1. Own(t) \in Command /\ queue \in Seq(Command)
            BY Commands DEF QueueType
        <3> QED  BY <2>1, <3>1, Appended
    <2>3. Own(t).from \notin Client
        BY Commands
    <2>4. /\ UNCHANGED <<sem, cur, wpc, hasty>> /\ (Active' <=> Active)
          /\ \A y : Expected(y)' <=> Expected(y)
        BY <1>12 DEF Sends, Active, Expected, CommandOf
    <2> QED  BY <2>2, <2>3, <2>4 DEF UnderWayInv
<1>13. CASE Posts
    <2>1. ~Active' \/ hasty
        BY <1>13 DEF Posts, Active, TurnInv, ThreadType
    <2> QED  BY <1>13, <2>1 DEF Posts, UnderWayInv, Expected, CommandOf
<1>14. CASE Strays
    BY <1>14 DEF Strays, UnderWayInv
<1> QED  BY TypeParts, TurnSteps, <1>1, <1>2, <1>3, <1>4, <1>5, <1>6, <1>7, <1>8, <1>9,
   <1>10, <1>11, <1>12, <1>13, <1>14

\* A step that tells nobody keeps the replies in order if it keeps each one settled.
LEMMA Unreplied ==
    ASSUME ChannelInv, UNCHANGED replies, ~hasty' => ~hasty,
           ASSUME NEW x \in Command, x.from \in Client, ~hasty, Settled(x) PROVE Settled(x)'
    PROVE  ReplyInv'
BY Commands DEF ChannelInv, ReplyInv, ReplySound

\* A reply is added only for the command whose turn it is, and settles it.
LEMMA ReplyStep == ChannelInv /\ [Next]_vars => ReplyInv'
<1> SUFFICES ASSUME ChannelInv, [Next]_vars PROVE ReplyInv'
    OBVIOUS
<1> USE TypeParts DEF shared, device, writer, reader, clients, history, queues,
   ChannelInv
<1>1. ASSUME NEW c \in Client, Submit(c) PROVE ReplyInv'
    <2>1. PICK t \in Asks[c] :
            /\ cpc[c] = "idle"
            /\ queue' = Append(queue, [from |-> c, typ |-> t, id |-> asked[c].id + 1])
            /\ asked' = [asked EXCEPT ![c] = [id |-> @.id + 1, typ |-> t]]
            /\ cpc' = [cpc EXCEPT ![c] = "wait"]
            /\ UNCHANGED <<replies, tired, cur, sem, wpc, hasty>>
        BY <1>1 DEF Submit
    <2>2. t \in Type /\ asked[c].id \in 0..MaxAsk /\ \A d \in Client : asked[d].id \in Nat
        BY AsksAssumption, BoundAssumption DEF ClientType
    <2>3. PICK x \in Command : /\ x = [from |-> c, typ |-> t, id |-> asked[c].id + 1]
                               /\ x.from = c /\ x.id = asked[c].id + 1
        <3>1. [from |-> c, typ |-> t, id |-> asked[c].id + 1] \in Command
            BY <2>2, Commands
        <3> QED  BY <3>1
    <2>4. /\ asked'[c].id = asked[c].id + 1 /\ asked'[c].typ = t
          /\ \A d \in Client \ {c} : asked'[d] = asked[d]
        BY <2>1 DEF ClientType
    <2>5. queue' = Append(queue, x) /\ queue \in Seq(Command)
        BY <2>1, <2>3 DEF QueueType
    <2>5a. \A i \in DOMAIN queue' :
             \/ i = Len(queue) + 1 /\ queue'[i] = x
             \/ i \in DOMAIN queue /\ queue'[i] = queue[i]
        BY <2>3, <2>5, Appended
    <2>5b. \A i \in DOMAIN queue : i \in Nat /\ i # Len(queue) + 1 /\ queue[i] \in Command
        BY <2>3, <2>5, Appended
    <2>6. ASSUME NEW y \in Command, y.from \in Client, ~hasty, Settled(y) PROVE Settled(y)'
        <3>1. y.id \in Nat /\ y.id <= asked'[y.from].id
            BY <2>2, <2>4, <2>6, Commands DEF Settled
        <3>2. y # x
            BY <2>2, <2>3, <2>6, <3>1 DEF Settled
        <3>3. Expected(y)'
            BY <2>1, <2>4, <2>6 DEF Settled, Expected, CommandOf, ClientType
        <3> QED  BY <2>1, <2>6, <2>5a, <3>1, <3>2, <3>3 DEF Settled, Active
    <2> QED  BY <2>1, <2>6, Unreplied
<1>2. ASSUME NEW c \in Client, Take(c) PROVE ReplyInv'
    <2>1. PICK n \in DOMAIN replies[c] :
            /\ replies' = [replies EXCEPT ![c] = Without(replies[c], n)]
            /\ cpc' = [cpc EXCEPT ![c] = "drain"] /\ replies[c][n].typ = asked[c].typ
            /\ UNCHANGED <<queue, cur, sem, wpc, asked, tired, hasty>>
        BY <1>2 DEF Take, TakeLeaving, Oldest, OfType
    <2> SUFFICES ASSUME ~hasty PROVE ReplyInv'
        BY <2>1 DEF ReplyInv
    <2>2. replies[c] \in Seq(Reply) /\ replies'[c] = Without(replies[c], n)
        BY <2>1 DEF QueueType
    <2>3. \A k \in DOMAIN replies'[c] :
             \E j \in DOMAIN replies[c] :
                /\ j # n /\ replies'[c][k] = replies[c][j]
                /\ j = (IF k < n THEN k ELSE k + 1) /\ k \in Nat
        BY <2>2, Removed
    <2>4. \A y : y.from \in Client /\ (y.from = c => tired[c]) /\ Settled(y) => Settled(y)'
        BY <2>1 DEF Settled, Expected, CommandOf, Active, ClientType
    <2>5. ASSUME NEW m \in DOMAIN replies[c], m # n, replies[c][m].to.typ \notin Calls
          PROVE  tired[c]
        <3>1. PICK y \in Command, x \in Command : y = replies[c][n].to /\ x = replies[c][m].to
            BY ReplyTo
        <3> SUFFICES ASSUME ~tired[c] PROVE FALSE
            OBVIOUS
        <3>2. x.from = c /\ Settled(x) /\ \A j \in DOMAIN replies[c] : replies[c][j].to = x => j = m
            BY <2>5, <3>1, Commands DEF ReplyInv, ReplySound
        <3>3. x = CommandOf(c) /\ asked[c].typ \notin Calls
            BY <2>5, <3>1, <3>2 DEF Settled, Expected, CommandOf
        <3>4. y.typ \notin Calls /\ y.from = c /\ Settled(y)
            BY <2>1, <3>1, <3>3, Commands DEF ReplyInv, ReplySound
        <3>5. y = CommandOf(c)
            BY <3>1, <3>4 DEF Settled, Expected
        <3> QED  BY <2>5, <3>1, <3>2, <3>3, <3>5
    <2>6. ASSUME NEW d \in Client, NEW i \in DOMAIN replies'[d], NEW x \in Command,
                 replies'[d][i].to = x
          PROVE  ReplySound(d, i, x)'
        <3>1. CASE d # c
            <4>1. replies'[d] = replies[d]
                BY <2>1, <3>1 DEF QueueType
            <4>2. ReplySound(d, i, x)
                BY <2>6, <4>1 DEF ReplyInv
            <4> QED  BY <2>4, <3>1, <4>1, <4>2, Commands DEF ReplySound
        <3>2. CASE d = c
            <4>1. PICK m \in DOMAIN replies[c] :
                    /\ m # n /\ replies'[c][i] = replies[c][m]
                    /\ m = (IF i < n THEN i ELSE i + 1) /\ i \in Nat
                BY <2>3, <2>6, <3>2
            <4>2. ReplySound(c, m, x)
                BY <2>6, <3>2, <4>1 DEF ReplyInv
            <4>3. ASSUME NEW j \in DOMAIN replies'[c], replies'[c][j].to = x,
                         x.typ \notin Calls
                  PROVE  j = i
                <5>1. PICK l \in DOMAIN replies[c] :
                        /\ l # n /\ replies'[c][j] = replies[c][l]
                        /\ l = (IF j < n THEN j ELSE j + 1) /\ j \in Nat
                    BY <2>3
                <5>2. l = m /\ n \in Nat
                    BY <2>2, <4>2, <4>3, <5>1 DEF ReplySound
                <5> QED  BY <4>1, <5>1, <5>2
            <4>4. x.typ \notin Calls => tired[c] /\ x.from = c
                BY <2>5, <2>6, <3>2, <4>1, <4>2, Commands DEF ReplySound
            <4>5. x.typ \notin Calls => Settled(x)'
                BY <2>4, <4>2, <4>4 DEF ReplySound
            <4> QED  BY <3>2, <4>1, <4>2, <4>3, <4>5 DEF ReplySound
        <3> QED  BY <3>1, <3>2
    <2> QED  BY <2>6 DEF ReplyInv
<1>3. ASSUME NEW c \in Client, Drained(c) PROVE ReplyInv'
    BY <1>3, Unreplied DEF Drained, Settled, Expected, CommandOf, Active, ClientType
<1>4. ASSUME NEW c \in Client, GiveUp(c) PROVE ReplyInv'
    BY <1>4, Unreplied DEF GiveUp, Settled, Expected, CommandOf, Active, ClientType
<1>5. CASE SemWait
    BY <1>5, Unreplied DEF SemWait, SemWaitIf, Settled, Expected, CommandOf, Active,
       ThreadType
<1>6. CASE Clear
    BY <1>6, Unreplied DEF Clear, Settled, Expected, CommandOf, Active
<1>7. CASE MsgRcv
    <2>1. /\ cur' = queue[1] /\ 1 \in DOMAIN queue
          /\ \A i \in DOMAIN queue' : i + 1 \in DOMAIN queue /\ queue'[i] = queue[i + 1]
          /\ UNCHANGED <<replies, asked, cpc, tired, hasty>>
        BY <1>7, Shortened DEF MsgRcv, QueueType
    <2>2. ASSUME NEW y \in Command, y.from \in Client, ~hasty, Settled(y) PROVE Settled(y)'
        BY <2>1, <2>2 DEF Settled, Expected, CommandOf
    <2> QED  BY <2>1, <2>2, Unreplied
<1>8. CASE Write
    BY <1>8, Unreplied DEF Write, Settled, Expected, CommandOf, Active
<1>9. CASE ReadAnswer
    BY <1>9, Unreplied DEF ReadAnswer, Settled, Expected, CommandOf, Active
<1>10. CASE Looks
    BY <1>10, Unreplied DEF Looks, still, Settled, Expected, CommandOf, Active
<1>11. CASE Abandons
    BY <1>11, Unreplied DEF Abandons, still, Settled, Expected, CommandOf, Active
<1>12. CASE Sends
    <2>1. PICK t \in Type : queue' = Append(queue, Own(t))
        BY <1>12 DEF Sends
    <2>2. \A i \in DOMAIN queue' :
             \/ i = Len(queue) + 1 /\ queue'[i] = Own(t)
             \/ i \in DOMAIN queue /\ queue'[i] = queue[i]
        <3>1. Own(t) \in Command /\ queue \in Seq(Command)
            BY Commands DEF QueueType
        <3> QED  BY <2>1, <3>1, Appended
    <2>3. /\ UNCHANGED <<sem, cur, wpc, replies, asked, cpc, tired, hasty>>
          /\ Own(t).from \notin Client
        BY <1>12, Commands DEF Sends
    <2>4. ASSUME NEW y \in Command, y.from \in Client, ~hasty, Settled(y) PROVE Settled(y)'
        BY <2>2, <2>3, <2>4 DEF Settled, Expected, CommandOf, Active
    <2> QED  BY <2>3, <2>4, Unreplied
<1>13. CASE Posts
    <2> SUFFICES ASSUME ~hasty PROVE ReplyInv'
        BY <1>13 DEF Posts, ReplyInv
    <2>1. Active /\ ~Active' /\ cur \in Command /\ Tells(cur)
        BY <1>13 DEF Posts, Active, TurnInv, ThreadType
    <2>2. UNCHANGED <<cur, wpc, queue, cpc, asked, tired, hasty>>
        BY <1>13 DEF Posts
    <2>3. \A y : Settled(y) => Settled(y)'
        BY <2>1, <2>2 DEF Settled, Expected, CommandOf
    <2>4. CASE UNCHANGED replies
        BY <2>2, <2>3, <2>4, Unreplied
    <2>5. ASSUME NEW c \in Client, NEW t \in Type,
                 (c = cur.from /\ t = cur.typ) \/ (cur.typ \in ToVoice /\ c = Voice /\ t \in Calls),
                 replies' = [replies EXCEPT ![c] = Append(@, [typ |-> t, to |-> cur])]
          PROVE  ReplyInv'
        <3>1. PICK r \in Reply : r = [typ |-> t, to |-> cur] /\ r.typ = t /\ r.to = cur
            <4>1. [typ |-> t, to |-> cur] \in Reply
                BY <2>1, Commands
            <4> QED  BY <4>1
        <3>2. replies[c] \in Seq(Reply) /\ replies'[c] = Append(replies[c], r)
            BY <2>5, <3>1 DEF QueueType
        <3>3. /\ \A i \in DOMAIN replies'[c] :
                    \/ i = Len(replies[c]) + 1 /\ replies'[c][i] = r
                    \/ i \in DOMAIN replies[c] /\ replies'[c][i] = replies[c][i]
              /\ \A i \in DOMAIN replies[c] : i # Len(replies[c]) + 1
            BY <3>2, Appended
        <3>4. cur.typ \notin Calls => cur.from = c /\ t = cur.typ
            BY <2>5, Commands
        <3>5. cur.typ \notin Calls => Settled(cur)'
            <4> SUFFICES ASSUME cur.typ \notin Calls PROVE Settled(cur)'
                OBVIOUS
            <4>1. Expected(cur) /\ cur.id <= asked[cur.from].id
                BY <2>1, <3>4, Commands DEF SerialInv, UnderWayInv
            <4>2. \A k \in DOMAIN queue : queue[k] # cur
                BY <3>4 DEF SerialInv
            <4> QED  BY <2>1, <2>2, <4>1, <4>2 DEF Settled, Expected, CommandOf
        <3>6. cur.typ \notin Calls => \A i \in DOMAIN replies[c] : replies[c][i].to # cur
            BY <2>1 DEF ReplyInv, ReplySound, Settled
        <3>7. ASSUME NEW d \in Client, NEW i \in DOMAIN replies'[d], NEW x \in Command,
                     replies'[d][i].to = x
              PROVE  ReplySound(d, i, x)'
            <4>1. CASE d # c
                <5>1. replies'[d] = replies[d]
                    BY <2>5, <4>1 DEF QueueType
                <5>2. ReplySound(d, i, x)
                    BY <3>7, <5>1 DEF ReplyInv
                <5> QED  BY <2>3, <5>1, <5>2 DEF ReplySound
            <4>2. CASE d = c /\ i = Len(replies[c]) + 1
                <5>1. x = cur /\ replies'[d][i].typ = t
                    BY <3>1, <3>3, <3>7, <4>2
                <5>2. cur.typ \in Calls => t \in Calls
                    BY <2>5, Commands
                <5>3. cur.typ \notin Calls =>
                        \A j \in DOMAIN replies'[d] : replies'[d][j].to = cur => j = i
                    BY <3>3, <3>6, <4>2
                <5>4. Settled(x)' \/ cur.typ \in Calls
                    BY <2>2, <3>5, <5>1
                <5> QED  BY <2>5, <3>4, <4>2, <5>1, <5>2, <5>3, <5>4 DEF ReplySound
            <4>3. CASE d = c /\ i \in DOMAIN replies[c]
                <5>1. replies'[d][i] = replies[d][i]
                    BY <3>3, <4>3
                <5>2. ReplySound(d, i, x)
                    BY <3>7, <4>3, <5>1 DEF ReplyInv
                <5>3. x.typ \notin Calls => x # cur
                    BY <3>6, <3>7, <4>3, <5>1
                <5>4. x.typ \notin Calls =>
                        \A j \in DOMAIN replies'[d] : replies'[d][j].to = x => j = i
                    BY <3>1, <3>3, <4>3, <5>2, <5>3 DEF ReplySound
                <5> QED  BY <2>3, <5>1, <5>2, <5>4 DEF ReplySound
            <4> QED  BY <3>3, <3>7, <4>1, <4>2, <4>3
        <3> QED  BY <3>7 DEF ReplyInv
    <2>6. CASE ~UNCHANGED replies
        <3>1. PICK c \in Client, t \in Type :
                /\ \/ c = cur.from /\ t = cur.typ
                   \/ cur.typ \in ToVoice /\ c = Voice /\ t \in Calls
                /\ replies' = [replies EXCEPT ![c] = Append(@, [typ |-> t, to |-> cur])]
            BY <2>1, <2>6 DEF Tells
        <3> QED  BY <2>5, <3>1
    <2> QED  BY <2>4, <2>6
<1>14. CASE Strays
    BY <1>14 DEF Strays, ReplyInv
<1> QED  BY TypeParts, TurnSteps, <1>1, <1>2, <1>3, <1>4, <1>5, <1>6, <1>7, <1>8, <1>9,
   <1>10, <1>11, <1>12, <1>13, <1>14

\* A command stays under way where it was, or goes on to the next place.
Held(c) ==
    \/ \E i \in DOMAIN queue : queue[i] = CommandOf(c)
    \/ Active /\ cur = CommandOf(c)
    \/ \E i \in DOMAIN replies[c] : replies[c][i].to = CommandOf(c)
    \/ Len(replies[c]) >= ReplyLen

\* A step in which a waiting client's command stays somewhere forgets none.
LEMMA Kept ==
    ASSUME NoneForgotten, ~hasty' => ~hasty,
           ASSUME NEW c \in Client, ~hasty, cpc'[c] = "wait", asked'[c].typ \notin Calls,
                  cpc[c] = "wait" /\ asked[c].typ \notin Calls => Held(c)
           PROVE  Held(c)'
    PROVE  NoneForgotten'
BY DEF NoneForgotten, Held

\* The command of a waiting client goes from the request queue to the writer and ends
\* as a reply, or finds the reply queue full.
LEMMA ForgottenStep == ChannelInv /\ [Next]_vars => NoneForgotten'
<1> SUFFICES ASSUME ChannelInv, [Next]_vars PROVE NoneForgotten'
    OBVIOUS
<1> USE TypeParts DEF shared, device, writer, reader, clients, history, queues,
   ChannelInv
<1>1. ASSUME NEW c \in Client, Submit(c) PROVE NoneForgotten'
    <2>1. PICK t \in Asks[c] :
            /\ queue' = Append(queue, [from |-> c, typ |-> t, id |-> asked[c].id + 1])
            /\ asked' = [asked EXCEPT ![c] = [id |-> @.id + 1, typ |-> t]]
            /\ cpc' = [cpc EXCEPT ![c] = "wait"]
            /\ UNCHANGED <<replies, cur, sem, wpc, hasty>>
        BY <1>1 DEF Submit
    <2>2. t \in Type /\ asked[c].id \in Nat
        BY AsksAssumption, BoundAssumption DEF ClientType
    <2>3. PICK x \in Command : x = [from |-> c, typ |-> t, id |-> asked[c].id + 1]
        <3>1. [from |-> c, typ |-> t, id |-> asked[c].id + 1] \in Command
            BY <2>2, Commands
        <3> QED  BY <3>1
    <2>4. /\ \A i \in DOMAIN queue : i \in DOMAIN queue' /\ queue'[i] = queue[i]
          /\ Len(queue) + 1 \in DOMAIN queue' /\ queue'[Len(queue) + 1] = x
        BY <2>1, <2>3, Grown DEF QueueType
    <2>5. CommandOf(c)' = x
        BY <2>1, <2>3 DEF CommandOf, ClientType
    <2>6. ASSUME NEW d \in Client, d # c, cpc'[d] = "wait", asked'[d].typ \notin Calls,
                 cpc[d] = "wait" /\ asked[d].typ \notin Calls => Held(d)
          PROVE  Held(d)'
        <3>1. cpc'[d] = cpc[d] /\ asked'[d] = asked[d]
            BY <2>1, <2>6 DEF ClientType
        <3>2. Held(d) /\ CommandOf(d)' = CommandOf(d)
            BY <2>6, <3>1 DEF CommandOf
        <3> QED  BY <2>1, <2>4, <3>2 DEF Held, Active
    <2>7. Held(c)'
        BY <2>4, <2>5 DEF Held
    <2> QED  BY <2>1, <2>6, <2>7, Kept
<1>2. ASSUME NEW c \in Client, Take(c) PROVE NoneForgotten'
    <2>1. PICK n \in DOMAIN replies[c] :
            /\ replies' = [replies EXCEPT ![c] = Without(replies[c], n)]
            /\ cpc' = [cpc EXCEPT ![c] = "drain"]
            /\ UNCHANGED <<queue, cur, sem, wpc, asked, hasty>>
        BY <1>2 DEF Take, TakeLeaving
    <2>2. ASSUME NEW d \in Client, cpc'[d] = "wait", asked'[d].typ \notin Calls,
                 cpc[d] = "wait" /\ asked[d].typ \notin Calls => Held(d)
          PROVE  Held(d)'
        <3>1. d # c /\ cpc[d] = "wait" /\ replies'[d] = replies[d]
            BY <2>1, <2>2 DEF ClientType, QueueType
        <3> QED  BY <2>1, <2>2, <3>1 DEF Held, Active, CommandOf
    <2> QED  BY <2>1, <2>2, Kept
<1>3. ASSUME NEW c \in Client, Drained(c) PROVE NoneForgotten'
    <2>1. \A d \in Client : cpc'[d] = "wait" => cpc[d] = "wait"
        BY <1>3 DEF Drained, ClientType
    <2> QED  BY <1>3, <2>1, Kept DEF Drained, Held, Active, CommandOf
<1>4. ASSUME NEW c \in Client, GiveUp(c) PROVE NoneForgotten'
    <2>1. \A d \in Client : cpc'[d] = "wait" => cpc[d] = "wait"
        BY <1>4 DEF GiveUp, ClientType
    <2> QED  BY <1>4, <2>1, Kept DEF GiveUp, Held, Active, CommandOf
<1>5. CASE SemWait
    <2>1. ~Active
        BY <1>5 DEF SemWait, SemWaitIf, Active, ThreadType
    <2> QED  BY <1>5, <2>1, Kept DEF SemWait, SemWaitIf, Held, CommandOf
<1>6. CASE Clear
    <2>1. ~Active
        BY <1>6 DEF Clear, Active
    <2> QED  BY <1>6, <2>1, Kept DEF Clear, Held, CommandOf
<1>7. CASE MsgRcv
    <2>1. /\ cur' = queue[1] /\ Active' /\ ~Active
          /\ \A i \in DOMAIN queue : i = 1 \/ (i - 1 \in DOMAIN queue' /\ queue'[i - 1] = queue[i])
          /\ UNCHANGED <<replies, asked, cpc, hasty>>
        BY <1>7 DEF MsgRcv, QueueType, Active
    <2>2. ASSUME NEW d \in Client, Held(d) PROVE Held(d)'
        BY <2>1, <2>2 DEF Held, CommandOf
    <2> QED  BY <2>1, <2>2, Kept
<1>8. CASE Write
    <2>1. hasty \/ (Active /\ Active')
        BY <1>8 DEF Write, Active, TurnInv
    <2> QED  BY <1>8, <2>1, Kept DEF Write, Held, CommandOf
<1>9. CASE ReadAnswer
    BY <1>9, Kept DEF ReadAnswer, Held, Active, CommandOf
<1>10. CASE Looks
    BY <1>10, Kept DEF Looks, still, Held, Active, CommandOf
<1>11. CASE Abandons
    <2>1. ~hasty' => ~hasty
        BY <1>11 DEF Abandons
    <2> QED  BY <1>11, <2>1, Kept DEF Abandons, still, Held, Active, CommandOf
<1>12. CASE Sends
    <2>1. PICK t \in Type : queue' = Append(queue, Own(t))
        BY <1>12 DEF Sends
    <2>2. \A i \in DOMAIN queue : i \in DOMAIN queue' /\ queue'[i] = queue[i]
        BY <2>1, Commands, Grown DEF QueueType
    <2> QED  BY <1>12, <2>2, Kept DEF Sends, Held, Active, CommandOf
<1>13. CASE Posts
    <2> SUFFICES ASSUME ~hasty PROVE NoneForgotten'
        BY <1>13 DEF Posts, NoneForgotten
    <2>1. cur \in Command /\ Tells(cur)
        BY <1>13 DEF Posts, TurnInv, ThreadType
    <2>2. UNCHANGED <<cur, wpc, queue, cpc, asked, hasty>>
        BY <1>13 DEF Posts
    <2>3. \A d \in Client : replies[d] \in Seq(Reply)
        BY DEF QueueType
    <2>4. CASE UNCHANGED replies
        <3>1. \/ cur.typ \in Calls
              \/ cur.from \in Client => ~(Len(replies[cur.from]) < ReplyLen)
            <4>1. cur # None /\ (ans = None \/ ans = cur) /\ (Tells(cur) \/ Tells(ans))
                BY <1>13, <2>1, Commands DEF Posts, TurnInv
            <4>2. CASE \E c \in Client, t \in Type :
                        replies' = [replies EXCEPT ![c] = Append(@, [typ |-> t, to |-> cur])]
                <5>1. PICK c \in Client, t \in Type :
                           replies' = [replies EXCEPT ![c] = Append(@, [typ |-> t, to |-> cur])]
                    BY <4>2
                <5>2. replies'[c] = Append(replies[c], [typ |-> t, to |-> cur])
                    BY <5>1 DEF QueueType
                <5>3. [typ |-> t, to |-> cur] \in Reply
                    BY <2>1, Commands
                <5>4. Len(replies'[c]) = Len(replies[c]) + 1 /\ Len(replies[c]) \in Nat
                    BY <2>3, <5>2, <5>3, Grown
                <5> QED  BY <2>4, <5>4
            <4> QED  BY <2>1, <2>4, <4>1, <4>2 DEF Tells
        <3>2. ASSUME NEW d \in Client, asked[d].typ \notin Calls, Held(d) PROVE Held(d)'
            <4>1. CASE cur = CommandOf(d)
                <5>1. cur.from = d /\ cur.typ \notin Calls
                    BY <3>2, <4>1 DEF CommandOf
                <5>2. Len(replies[d]) >= ReplyLen
                    BY <2>3, <3>1, <5>1, QueueAssumption
                <5> QED  BY <2>4, <5>2 DEF Held
            <4>2. CASE cur # CommandOf(d)
                BY <2>2, <2>4, <3>2, <4>2 DEF Held, CommandOf
            <4> QED  BY <4>1, <4>2
        <3> QED  BY <2>2, <3>2, Kept
    <2>5. ASSUME NEW c \in Client, NEW t \in Type,
                 (c = cur.from /\ t = cur.typ) \/ (cur.typ \in ToVoice /\ c = Voice /\ t \in Calls),
                 replies' = [replies EXCEPT ![c] = Append(@, [typ |-> t, to |-> cur])]
          PROVE  NoneForgotten'
        <3>1. PICK r \in Reply : r = [typ |-> t, to |-> cur] /\ r.to = cur
            <4>1. [typ |-> t, to |-> cur] \in Reply
                BY <2>1, Commands
            <4> QED  BY <4>1
        <3>2. /\ replies'[c] = Append(replies[c], r)
              /\ \A d \in Client : d # c => replies'[d] = replies[d]
            BY <2>5, <3>1 DEF QueueType
        <3>3. /\ \A i \in DOMAIN replies[c] : i \in DOMAIN replies'[c] /\ replies'[c][i] = replies[c][i]
              /\ Len(replies[c]) + 1 \in DOMAIN replies'[c]
              /\ replies'[c][Len(replies[c]) + 1] = r
              /\ Len(replies'[c]) = Len(replies[c]) + 1 /\ Len(replies[c]) \in Nat
            BY <2>3, <3>2, Grown
        <3>4. ASSUME NEW d \in Client, asked[d].typ \notin Calls, Held(d) PROVE Held(d)'
            <4>1. CASE cur = CommandOf(d)
                <5>1. cur.from = d /\ cur.typ \notin Calls
                    BY <3>4, <4>1 DEF CommandOf
                <5>2. d = c
                    BY <2>5, <5>1, Commands
                <5>3. \E i \in DOMAIN replies'[d] : replies'[d][i].to = CommandOf(d)'
                    BY <2>2, <3>1, <3>3, <4>1, <5>2 DEF CommandOf
                <5> QED  BY <5>3 DEF Held
            <4>2. CASE cur # CommandOf(d) /\ d # c
                BY <2>2, <3>2, <3>4, <4>2 DEF Held, CommandOf
            <4>3. CASE cur # CommandOf(d) /\ d = c
                BY <2>2, <3>3, <3>4, <4>3, QueueAssumption DEF Held, CommandOf
            <4> QED  BY <4>1, <4>2, <4>3
        <3> QED  BY <2>2, <3>4, Kept
    <2>6. CASE ~UNCHANGED replies
        <3>1. PICK c \in Client, t \in Type :
                /\ \/ c = cur.from /\ t = cur.typ
                   \/ cur.typ \in ToVoice /\ c = Voice /\ t \in Calls
                /\ replies' = [replies EXCEPT ![c] = Append(@, [typ |-> t, to |-> cur])]
            BY <2>1, <2>6 DEF Tells
        <3> QED  BY <2>5, <3>1
    <2> QED  BY <2>4, <2>6
<1>14. CASE Strays
    BY <1>14 DEF Strays, NoneForgotten
<1> QED  BY TypeParts, TurnSteps, <1>1, <1>2, <1>3, <1>4, <1>5, <1>6, <1>7, <1>8, <1>9,
   <1>10, <1>11, <1>12, <1>13, <1>14

----------------------------------------------------------------------------

\* The daemon and its clients as they start.
LEMMA ChannelInit == Init => ChannelInv
<1> SUFFICES ASSUME Init PROVE ChannelInv
    OBVIOUS
<1>1. /\ queue \in Seq(Command) /\ Len(queue) <= QueueLen
      /\ \A i \in DOMAIN queue : queue[i].from = Self
    <2>1. CASE queue = <<>>
        BY <2>1, QueueAssumption
    <2>2. CASE queue = [i \in DOMAIN DetectSends |-> Own(DetectSends[i])]
        <3>1. /\ DOMAIN DetectSends = 1..Len(DetectSends) /\ Len(DetectSends) \in Nat
              /\ \A i \in DOMAIN DetectSends : DetectSends[i] \in Type
            BY SendsAssumption
        <3>2. queue \in [1..Len(DetectSends) -> Command]
            BY <2>2, <3>1, Commands
        <3>3. queue \in Seq(Command) /\ Len(queue) = Len(DetectSends)
            BY <3>1, <3>2
        <3>4. Len(DetectSends) <= QueueLen
            BY SendsAssumption
        <3> QED  BY <2>2, <3>1, <3>3, <3>4, Commands
    <2> QED  BY <2>1, <2>2 DEF Init
<1>2. QueueType
    <2>1. <<>> \in Seq(Reply) /\ Len(<<>>) <= ReplyLen
        BY QueueAssumption
    <2> QED  BY <1>1, <2>1 DEF Init, QueueType
<1>3. FlagType
    BY DEF Init, FlagType
<1>4. ThreadType
    BY QueueAssumption, BoundAssumption DEF Init, ThreadType
<1>5. ClientType
    BY BoundAssumption DEF Init, ClientType, Type
<1>6. ReaderInv /\ TurnInv
    BY DEF Init, ReaderInv, TurnInv
<1>7. SerialInv /\ UnderWayInv
    BY <1>1, AsksAssumption DEF Init, SerialInv, UnderWayInv, Active
<1>8. ReplyInv /\ NoneForgotten
    BY DEF Init, ReplyInv, NoneForgotten
<1> QED  BY <1>2, <1>3, <1>4, <1>5, <1>6, <1>7, <1>8, TypeParts DEF ChannelInv

\* The invariant is inductive.
LEMMA ChannelStep == ChannelInv /\ [Next]_vars => ChannelInv'
<1> SUFFICES ASSUME ChannelInv, [Next]_vars PROVE ChannelInv'
    OBVIOUS
<1>1. QueueType /\ FlagType /\ ThreadType /\ ClientType /\ (wpc = "write" => cur # None)
    BY TypeParts DEF ChannelInv, TurnInv
<1>2. QueueType' /\ FlagType' /\ ThreadType' /\ ClientType'
    BY <1>1, QueueStep, FlagStep, ThreadStep, ClientStep DEF ChannelInv
<1>3. TypeOK'
    BY <1>2 DEF TypeOK, QueueType, FlagType, ThreadType, ClientType
<1>4. ReaderInv' /\ TurnInv' /\ SerialInv' /\ UnderWayInv' /\ ReplyInv' /\ NoneForgotten'
    BY <1>1, ReaderStep, TurnStep, SerialStep, UnderWayStep, ReplyStep, ForgottenStep
       DEF ChannelInv
<1> QED  BY <1>3, <1>4 DEF ChannelInv

\* It holds in every state.
LEMMA ChannelInductive == Spec => []ChannelInv
<1> QED  BY ChannelInit, ChannelStep, PTL DEF Spec

----------------------------------------------------------------------------
\* While the card has a command, or the reader its answer or an error to hand on, the
\* writer waits with the semaphore down and there is no second one, until the reader
\* gives a command up out of turn: any number of clients, of commands and of card
\* changes.
THEOREM TakesTurns == Spec => []ChannelSound
<1>1. ChannelInv => ChannelSound
    <2> SUFFICES ASSUME ChannelInv PROVE TypeOK /\ OneAtATime
        BY DEF ChannelSound
    <2>1. CASE hasty
        BY <2>1 DEF ChannelInv, OneAtATime
    <2>2. CASE ~hasty
        <3>1. TurnInv /\ port \in Seq(Command) /\ sem <= 1
            BY <2>2, TypeParts DEF ChannelInv, ThreadType, TurnInv
        <3>2. Cardinality({ans} \ {None}) = IF ans = None THEN 0 ELSE 1
            <4>1. CASE ans = None
                <5>1. {ans} \ {None} = {}
                    BY <4>1
                <5> QED  BY <4>1, <5>1, FS_EmptySet
            <4>2. CASE ans # None
                <5>1. {ans} \ {None} = {ans}
                    BY <4>2
                <5> QED  BY <4>2, <5>1, FS_Singleton
            <4> QED  BY <4>1, <4>2
        <3>3. Len(port) \in Nat /\ Len(port) <= 1
            BY <2>2, <3>1 DEF TurnInv
        <3>4. port = <<>> => Len(port) = 0
            OBVIOUS
        <3>5. port # <<>> => ans = None /\ rpc # "error"
            BY <2>2, <3>1 DEF TurnInv
        <3>6. ans # None => rpc # "error"
            BY <2>2, <3>1 DEF TurnInv
        <3>7. Len(port) + (IF ans = None THEN 0 ELSE 1) + (IF rpc = "error" THEN 1 ELSE 0) <= 1
            <4>1. CASE port = <<>>
                BY <3>4, <3>6, <4>1
            <4>2. CASE port # <<>>
                BY <3>3, <3>5, <4>2
            <4> QED  BY <4>1, <4>2
        <3> QED  BY <2>2, <3>1, <3>2, <3>7 DEF ChannelInv, TurnInv, OneAtATime
    <2> QED  BY <2>1, <2>2
<1> QED  BY <1>1, ChannelInductive, PTL

\* A reply goes to the module that asked although the handler sends it to the one
\* that g_stAtFromOther names when the answer has come.
THEOREM AskerGetsReply == Spec => []HandedToAsker
<1>1. ChannelInv => HandedToAsker
    BY ReplyTo DEF ChannelInv, ReplyInv, ReplySound, HandedToAsker
<1> QED  BY <1>1, ChannelInductive, PTL

\* AtRcv of a client whose calls never timed out finds nothing but the outcome of the
\* command it has just sent, and no command is answered twice; calls apart.
THEOREM NothingStale == Spec => []Fresh
<1>1. ChannelInv => Fresh
    <2> SUFFICES ASSUME ChannelInv, ~hasty, NEW c \in Client,
                        NEW i \in DOMAIN replies[c], NEW j \in DOMAIN replies[c],
                        replies[c][i].to.typ \notin Calls
                 PROVE  /\ tired[c] \/ (cpc[c] = "wait" /\ replies[c][i].to = CommandOf(c))
                        /\ replies[c][j].to = replies[c][i].to => i = j
        BY DEF Fresh
    <2>1. replies[c][i].to \in Command
        BY ReplyTo DEF ChannelInv
    <2>2. ReplySound(c, i, replies[c][i].to)
        BY <2>1 DEF ChannelInv, ReplyInv
    <2> QED  BY <2>1, <2>2, Commands DEF ReplySound, Settled, Expected
<1> QED  BY <1>1, ChannelInductive, PTL

\* The command a client waits for is in the request queue, or it is its turn, or its
\* outcome is in the client's queue, unless that was full; calls apart.  Nothing a card
\* does, and no error path of the two threads, drops a command without an outcome.
THEOREM NothingForgotten == Spec => []NoneForgotten
<1> QED  BY ChannelInductive, PTL DEF ChannelInv

=============================================================================
