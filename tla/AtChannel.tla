------------------------------ MODULE AtChannel ------------------------------
(***************************************************************************)
(* The daemon that owns the command port of the 3G card                    *)
(* (userapps/opensource/ttyUSB/ttyUSB.c) and the processes that send AT    *)
(* commands through it, as the PPP daemon does                             *)
(* (userapps/opensource/ppp/pppoe/at/at_sm.c).                             *)
(*                                                                         *)
(* Requests come in on one System V message queue.  The writer thread      *)
(* takes one when the semaphore lets it and writes it to the card; the     *)
(* reader thread hands the answer, or an error, to the queue of the module *)
(* that asked and posts the semaphore.  The two share g_stAtFromOther,     *)
(* g_iWriteFlag, g_sndflg and the card's state, under work_mutex only in   *)
(* part.                                                                   *)
(*                                                                         *)
(* Several handlers of the reader use the card themselves, some after they *)
(* have posted the semaphore, and what their own reads miss is read later  *)
(* as the answer to whatever was asked since.                              *)
(*                                                                         *)
(* A command is a module, a type and a serial number the code has not: it  *)
(* is there to tell whose answer a reply is.                               *)
(***************************************************************************)
EXTENDS Naturals, Sequences, FiniteSets

CONSTANTS
    Client,       \* the modules with a reply queue: modem, http, voice, tr069, ...
    Self,         \* AT_MODULE: the daemon's own commands, which get no reply
    Asks,         \* Asks[c]: the types of the commands client c sends
    QueueLen,     \* messages the request queue holds
    ReplyLen,     \* messages a reply queue holds
    Voice,        \* VOICE_MODULE
    DetectSends,  \* the types of the commands HspaDeviceDetect queues for a card it
                  \* has opened: <<"query", "query", "sysinfo", "query">> in the code,
                  \* without the last one when DelayTimeInformIMSI is to queue it
    None,         \* no command: a zeroed g_stAtFromOther
    MaxAsk,       \* bound: commands of one client
    MaxOwn,       \* bound: commands of the daemon that no card change causes
    MaxMove,      \* bound: times the card is plugged in or pulled out
    MaxLate       \* bound: times the card answers later than it is waited for

\* What the handlers of g_stAtFunCom do besides replying and posting tells the
\* types apart:
\*   "cfun"     CFUN_SET, which arms the alarm when it is written
\*   "sysinfo"  SYSTEM_INFO_QUERY, whose handler asks the card for the SIM lock
\*   "pin"      PIN_MANAGE: after the post CLIP is switched on and two commands are
\*              queued
\*   "dial"     DIAL and AT+CHUP: a reply tells of an error only
\*   "accept"   ACCEPT: an error goes to the voice module, whoever asked
\*   "dex"      DEX_SET of the daemon: the outcome of a call goes to the voice
\*              module
\*   "query"    all the others
\* The handler of PIN_ENABLE_QUERY, a "query", also writes AT^CURC=1 and reads no
\* answer; the answer names no handler, so that the reader drops it.
Type == {"cfun", "sysinfo", "pin", "dial", "accept", "dex", "query"}
ToVoice == {"accept", "dex"}
Calls   == {"dial"} \cup ToVoice

Command == [from : Client \cup {Self}, typ : Type, id : Nat]
Own(t)  == [from |-> Self, typ |-> t, id |-> 0]
Reply   == [typ : Type, to : Command]  \* "to": the command it is the outcome of

ASSUME QueueAssumption == QueueLen \in Nat \ {0} /\ ReplyLen \in Nat \ {0}
ASSUME SendsAssumption == DetectSends \in Seq(Type) /\ Len(DetectSends) <= QueueLen
ASSUME AsksAssumption  == Asks \in [Client -> SUBSET Type] /\ Self \notin Client
ASSUME NoneAssumption  == None \notin Command
ASSUME BoundAssumption == MaxAsk \in Nat /\ MaxOwn \in Nat /\ MaxMove \in Nat /\ MaxLate \in Nat

VARIABLES
    queue,    \* g_lAtMsgId
    replies,  \* replies[c]: the reply queue of client c
    sem,      \* value of sem
    cur,      \* g_stAtFromOther
    wflag,    \* g_iWriteFlag
    sndflg,   \* g_sndflg
    exist,    \* g_HspaExistFlag
    signal,   \* g_SignalRcv
    card,     \* "out", plugged in and not opened, opened by the daemon
    port,     \* commands the card was given and has not answered
    wpc,      \* the writer thread
    alarm,    \* alarm(10) is running
    wowe,     \* commands the alarm handler has still to queue, in the writer
    rpc,      \* the reader thread
    rowe,     \* commands the reader has still to queue
    ans,      \* the command whose answer the reader is handling
    cpc,      \* each client: idle, or in the first or the second loop of AtRcv
    asked,    \* the serial number and the type of each client's last command
    own,      \* counts MaxOwn
    moves,    \* counts MaxMove
    late,     \* counts MaxLate
    hasty,    \* history: the reader went on while the card still owed an answer or
              \* the writer a command: it gave up a command that was not yet written
              \* or that the card still had, or a handler did not wait for the answer
              \* to a command of its own
    tired     \* history: tired[c]: some call of c ended with AT_TIMEOUT

queues  == <<queue, replies>>
shared  == <<sem, cur, wflag, sndflg>>
device  == <<exist, signal, card, port>>
writer  == <<wpc, alarm, wowe>>
reader  == <<rpc, rowe, ans>>
clients == <<cpc, asked>>
history == <<own, moves, late, hasty, tired>>
vars == <<queues, shared, device, writer, reader, clients, history>>

\* ttyusb_main: the first HspaDeviceDetect has run, and found a card it could
\* open, or none, or could not look because its configuration was not there.  No
\* answer to its own commands was late.
Init ==
    /\ \/ /\ exist = "yes" /\ card = "open"
          /\ queue = [i \in DOMAIN DetectSends |-> Own(DetectSends[i])]
       \/ exist \in {"no", "unknown"} /\ card = "out" /\ queue = <<>>
    /\ replies = [c \in Client |-> <<>>]
    /\ sem = 1 /\ cur = None
    /\ wflag = "unknown" /\ sndflg = FALSE /\ signal = FALSE /\ port = <<>>
    /\ wpc = "wait" /\ alarm = FALSE /\ wowe = 0
    /\ rpc = "top" /\ rowe = <<>> /\ ans = None
    /\ cpc = [c \in Client |-> "idle"]
    /\ asked = [c \in Client |-> [id |-> 0, typ |-> "query"]]
    /\ own = 0 /\ moves = 0 /\ late = 0 /\ hasty = FALSE /\ tired = [c \in Client |-> FALSE]

Full == Len(queue) >= QueueLen

\* work_mutex is taken: only HspaDeviceDetect holds it over several steps.
Locked == rpc \in {"detect", "opened"}

----------------------------------------------------------------------------
\* The clients.

\* at_sm_submit_at up to its AtSend, which is retried while the queue is full.
Submit(c) ==
    \E t \in Asks[c] :
        /\ cpc[c] = "idle" /\ asked[c].id < MaxAsk /\ ~Full
        /\ asked' = [asked EXCEPT ![c] = [id |-> @.id + 1, typ |-> t]]
        /\ queue' = Append(queue, [from |-> c, typ |-> t, id |-> asked[c].id + 1])
        /\ cpc' = [cpc EXCEPT ![c] = "wait"]
        /\ UNCHANGED <<replies, shared, device, writer, reader, history>>

OfType(c, r) == r.typ = asked[c].typ

\* msgrcv takes the first message of the type asked for.
Oldest(c, i) ==
    /\ OfType(c, replies[c][i])
    /\ \A j \in DOMAIN replies[c] : OfType(c, replies[c][j]) => i <= j

Without(s, i) == [k \in 1..(Len(s) - 1) |-> IF k < i THEN s[k] ELSE s[k + 1]]

\* AtRcv: the first reply, and then all the others there are, one a second; the last
\* one counts.
TakeLeaving(c, i, rest) ==
    /\ cpc[c] \in {"wait", "drain"} /\ Oldest(c, i)
    /\ replies' = [replies EXCEPT ![c] = rest]
    /\ cpc' = [cpc EXCEPT ![c] = "drain"]
    /\ UNCHANGED <<queue, shared, device, writer, reader, asked, history>>

\* Mutant of Take: the reply is copied and left in the queue.
TakePeeks(c) == \E i \in DOMAIN replies[c] : TakeLeaving(c, i, replies[c])

Take(c) == \E i \in DOMAIN replies[c] : TakeLeaving(c, i, Without(replies[c], i))

\* The second loop of AtRcv finds no other one.
Drained(c) ==
    /\ cpc[c] = "drain"
    /\ \A i \in DOMAIN replies[c] : ~OfType(c, replies[c][i])
    /\ cpc' = [cpc EXCEPT ![c] = "idle"]
    /\ UNCHANGED <<queues, shared, device, writer, reader, asked, history>>

\* AtRcv after 15 tries, one a second.
GiveUp(c) ==
    /\ cpc[c] = "wait"
    /\ \A i \in DOMAIN replies[c] : ~OfType(c, replies[c][i])
    /\ cpc' = [cpc EXCEPT ![c] = "idle"]
    /\ tired' = [tired EXCEPT ![c] = TRUE]
    /\ UNCHANGED <<queues, shared, device, writer, reader, asked, own, moves, late, hasty>>

----------------------------------------------------------------------------
\* The writer thread, WritePcui.  It takes no step of its own while the alarm
\* handler runs in it.

SemWaitIf(posted) ==
    /\ wpc = "wait" /\ wowe = 0 /\ posted
    /\ sem' = IF sem > 0 THEN sem - 1 ELSE 0
    /\ wpc' = "clear"
    /\ UNCHANGED <<queues, cur, wflag, sndflg, device, alarm, wowe, reader, clients, history>>

\* Mutant of SemWait: the writer does not wait.
SemWaitNot == SemWaitIf(TRUE)

SemWait == SemWaitIf(sem > 0)

\* sem.__sem_value = 0: posts out of turn are forgotten.
Clear ==
    /\ wpc = "clear" /\ wowe = 0
    /\ sem' = 0
    /\ cur' = None
    /\ wpc' = "rcv"
    /\ UNCHANGED <<queues, wflag, sndflg, device, alarm, wowe, reader, clients, history>>

MsgRcv ==
    /\ wpc = "rcv" /\ wowe = 0 /\ queue # <<>>
    /\ cur' = Head(queue)
    /\ queue' = Tail(queue)
    /\ wpc' = "write"
    /\ UNCHANGED <<replies, sem, wflag, sndflg, device, alarm, wowe, reader, clients, history>>

\* From the lock to the unlock.  The failures counted to HSPA_ERR_LIMIT are left
\* out: any failed write may be the one that asks for a new look at the card.
Write ==
    /\ wpc = "write" /\ wowe = 0 /\ ~Locked
    /\ alarm' = (alarm \/ cur.typ = "cfun")
    /\ IF exist = "yes" /\ card = "open"
       THEN /\ wflag' = "ok"
            /\ port' = Append(port, cur)
            /\ UNCHANGED signal
       ELSE /\ wflag' = "no"
            /\ signal' \in IF exist = "yes" THEN {signal, TRUE} ELSE {signal}
            /\ UNCHANGED port
    /\ wpc' = "wait"
    /\ UNCHANGED <<queues, sem, cur, sndflg, exist, card, wowe, reader, clients, history>>

\* SIGALRM: HspaSwtichDelay runs where the writer sleeps.
AlarmFires ==
    /\ alarm /\ wpc \in {"wait", "rcv"}
    /\ alarm' = FALSE
    /\ wowe' = 2
    /\ UNCHANGED <<queues, shared, device, wpc, reader, clients, history>>

\* AtSend: msgsnd is repeated for ever while the queue is full.
AtSend(t) == ~Full /\ queue' = Append(queue, Own(t))

AlarmSend ==
    /\ wowe > 0
    /\ AtSend(IF wowe = 2 THEN "query" ELSE "sysinfo")
    /\ wowe' = wowe - 1
    /\ UNCHANGED <<replies, shared, device, wpc, alarm, reader, clients, history>>

\* The third thread; the thread that queues an IMSI_QUERY some time after a card was
\* opened; and the signal handler debugswitch, which queues a query too.
SendSysinfo         == exist = "yes" /\ AtSend("sysinfo")
DelayTimeInformIMSI == AtSend("query")

Poll ==
    /\ own < MaxOwn
    /\ SendSysinfo \/ DelayTimeInformIMSI
    /\ own' = own + 1
    /\ UNCHANGED <<replies, shared, device, writer, reader, clients, moves, late, hasty, tired>>

----------------------------------------------------------------------------
\* The reader thread, ReadPcui.

\* From the lock to the unlock, with HspaDeviceDetect in between when a signal has
\* asked for it: a command that was not written, or was written to a card that is
\* gone, is answered with an error.
UnansweredUnwritten == cur # None /\ wflag = "no"  \* mutant: a lost card is not noticed

Unanswered == cur # None /\ (wflag = "no" \/ (exist' = "no" /\ wflag = "ok"))

GivesUp ==
    /\ wflag' = "unknown"
    /\ rpc' = "error"
    /\ hasty' = (hasty \/ ~(wpc = "wait" /\ sem = 0) \/ port' # <<>>)

Check ==
    IF Unanswered
    THEN GivesUp
    ELSE rpc' = (IF exist' = "no" THEN "top" ELSE "read") /\ UNCHANGED <<wflag, hasty>>

\* The answer to a command of type t that the reader itself wrote, behind those the
\* card owes already, is not there when it is read.
Leaves(owed, t) ==
    /\ late < MaxLate
    /\ late' = late + 1
    /\ hasty' = TRUE
    /\ port' = Append(owed, Own(t))

Top ==
    /\ rpc = "top"
    /\ signal' = FALSE
    /\ UNCHANGED <<exist, card, port>>
    /\ IF signal THEN rpc' = "detect" /\ UNCHANGED <<wflag, hasty>> ELSE Check
    /\ UNCHANGED <<queues, sem, cur, sndflg, writer, rowe, ans, clients, own, moves, late, tired>>

\* HspaDeviceDetect, under the mutex.  It sets the card up with commands of its own;
\* of an answer that comes too late it leaves at most one.
Opens ==
    /\ card # "out" /\ exist # "yes"
    /\ exist' = "yes" /\ card' = "open"
    /\ \/ port' = <<>> /\ UNCHANGED <<late, hasty>>
       \/ \E t \in {"query", "pin"} : Leaves(<<>>, t)
    /\ rowe' = DetectSends
    /\ rpc' = "opened"
    /\ UNCHANGED <<signal, wflag>>

\* No card, or one that cannot be opened or set up.
FindsNone ==
    /\ card = "out" \/ exist # "yes"
    /\ exist' = "no" /\ port' = <<>>
    /\ Check
    /\ UNCHANGED <<signal, card, rowe, late>>

\* The card that is open; or there is no configuration file, or /proc/UsbModem does
\* not say what there is.
FindsNothingNew ==
    /\ UNCHANGED <<exist, card, port, signal, rowe, late>>
    /\ Check

\* Another card than the one that is open: that one first.
FindsAnother ==
    /\ card = "new" /\ exist = "yes"
    /\ exist' = "no" /\ port' = <<>> /\ signal' = TRUE
    /\ Check
    /\ UNCHANGED <<card, rowe, late>>

Detect ==
    /\ rpc = "detect"
    /\ Opens \/ FindsNone \/ FindsNothingNew \/ FindsAnother
    /\ UNCHANGED <<queues, sem, cur, sndflg, writer, ans, clients, own, moves, tired>>

\* AtSend in the reader: in HspaDeviceDetect, and in handlers before and after they
\* post the semaphore.
ReaderSend ==
    /\ rpc \in {"opened", "send", "queue"} /\ rowe # <<>>
    /\ AtSend(Head(rowe))
    /\ rowe' = Tail(rowe)
    /\ UNCHANGED <<replies, shared, device, writer, rpc, ans, clients, history>>

ReaderSent ==
    /\ rpc \in {"opened", "send", "queue"} /\ rowe = <<>>
    /\ UNCHANGED device
    /\ \/ rpc = "opened" /\ Check
       \/ rpc = "send" /\ rpc' = "handle" /\ UNCHANGED <<wflag, hasty>>
       \/ rpc = "queue" /\ rpc' = "top" /\ UNCHANGED <<wflag, hasty>>
    /\ UNCHANGED <<queues, sem, cur, sndflg, writer, rowe, ans, clients, own, moves, late, tired>>

\* msgsnd with IPC_NOWAIT: nowhere for the daemon's own command, and lost when the
\* queue is full.
Deliver(m, t, of) ==
    replies' = IF m \in Client /\ Len(replies[m]) < ReplyLen
               THEN [replies EXCEPT ![m] = Append(@, [typ |-> t, to |-> of])]
               ELSE replies

\* MsgIdCompute: to the module in g_stAtFromOther.
SendReply(t, of) == Deliver(IF cur = None THEN Self ELSE cur.from, t, of)

\* Every answer that is handled, and every error, ends with the flag cleared and the
\* semaphore posted.
Post ==
    /\ sndflg' = FALSE
    /\ sem' = sem + 1

ErrorReplyIf(replied) ==
    /\ rpc = "error"
    /\ IF cur # None /\ replied THEN SendReply(cur.typ, cur) ELSE UNCHANGED replies
    /\ Post
    /\ rpc' = "top"
    /\ UNCHANGED <<queue, cur, wflag, device, writer, rowe, ans, clients, history>>

\* Mutant of ErrorReply: the semaphore is posted and nobody told.
ErrorReplySilent == ErrorReplyIf(FALSE)

ErrorReply == ErrorReplyIf(TRUE)

\* read() finds the answer to the oldest command.
ReadAnswer ==
    /\ rpc = "read" /\ card = "open" /\ port # <<>>
    /\ ans' = Head(port)
    /\ port' = Tail(port)
    /\ rpc' = IF Head(port).typ = "sysinfo" THEN "probe" ELSE "handle"
    /\ UNCHANGED <<queues, shared, exist, signal, card, writer, rowe, clients, history>>

\* read() finds ^CONF or ^CONN, of a call: AutoConf and AutoConn queue a DEX_SET.
ReadReport ==
    /\ rpc = "read" /\ card = "open" /\ own < MaxOwn
    /\ own' = own + 1
    /\ rowe' = <<"dex">>
    /\ rpc' = "queue"
    /\ UNCHANGED <<queues, shared, device, writer, ans, clients, moves, late, hasty, tired>>

\* SystemInfoQuery writes AT+CLCK, and AT^CPIN when the SIM wants its PIN, and reads
\* once after each: all that was owed up to the answer, or less.  When it has found
\* no SIM it does so again.  Then it may queue a CFUN_SET.
Probe ==
    /\ rpc = "probe"
    /\ \/ port' = <<>> /\ rpc' \in {"send", "handle"} /\ UNCHANGED <<late, hasty>>
       \/ /\ card = "open"
          /\ \E n \in 1..(Len(port) + 1), t \in {"query", "pin"} :
                Leaves(SubSeq(port, n, Len(port)), t)
          /\ rpc' \in {"probe", "send", "handle"}
    /\ IF rpc' = "send"
       THEN own < MaxOwn /\ own' = own + 1 /\ rowe' = <<"cfun">>
       ELSE UNCHANGED <<own, rowe>>
    /\ UNCHANGED <<queues, shared, exist, signal, card, writer, ans, clients, moves, tired>>

\* The handlers of g_stAtFunCom.  The reply has the type of the answer and goes to the
\* module in g_stAtFromOther; what comes of a call goes to the voice module, and what
\* comes of a dial is told by the report of the card.  An answer is one text here; the
\* handlers read on when its end is missing.
Told ==
    \/ ans.typ \notin ToVoice /\ SendReply(ans.typ, ans)
    \/ ans.typ \in Calls /\ UNCHANGED replies
    \/ ans.typ \in ToVoice /\ \E t \in {"accept", "dial"} : Deliver(Voice, t, ans)

Handle ==
    /\ rpc = "handle"
    /\ Told
    /\ Post
    /\ ans' = None
    /\ rpc' \in IF ans.typ = "pin" THEN {"clip", "top"} ELSE {"top"}
    /\ UNCHANGED <<queue, cur, wflag, device, writer, rowe, clients, history>>

\* PinNumVerfication after its post: it writes AT+CLIP and reads once, whatever the
\* card has by then answered to the writer's next command too, and then queues a
\* PIN_ENABLE_QUERY and an IMSI_QUERY.
Clip ==
    /\ rpc = "clip"
    /\ \E n \in 1..(Len(port) + 1) : port' = SubSeq(port, n, Len(port))
    /\ rowe' = <<"query", "query">>
    /\ rpc' = "queue"
    /\ UNCHANGED <<queues, shared, exist, signal, card, writer, ans, clients, history>>

\* read() ends after 5 seconds with nothing.  Two such ends are too far apart for
\* the writer to be between msgrcv and the lock at both.  Any empty or failed read
\* may be the one that makes iErrReadNum pass its limit; the new look at the card
\* this asks for changes something only when the open card is gone.
ReadNothingPosting(n) ==
    /\ rpc = "read"
    /\ late' = IF sndflg /\ port # <<>> THEN late + 1 ELSE late
    /\ late' <= MaxLate
    /\ sndflg /\ card = "open" => wpc # "write"
    /\ signal' \in IF card = "open" THEN {signal} ELSE {signal, TRUE}
    /\ sndflg' = (sndflg \/ cur # None)
    /\ rpc' = IF sndflg /\ cur # None THEN "failed" ELSE "top"
    /\ sem' = sem + n
    /\ UNCHANGED <<queues, cur, wflag, exist, card, port, writer, rowe, ans, clients, own, moves,
                   hasty, tired>>

\* Mutant of ReadNothing: every empty read lets the next command out.
ReadNothingPosts == ReadNothingPosting(1)

ReadNothing == ReadNothingPosting(0)

\* read() fails: the card that was open is gone, or none ever was.
ReadFails ==
    /\ rpc = "read" /\ card # "open"
    /\ signal' \in {signal, TRUE}
    /\ rpc' = IF cur # None THEN "failed" ELSE "top"
    /\ UNCHANGED <<queues, shared, exist, card, port, writer, rowe, ans, clients, history>>

Failed ==
    /\ rpc = "failed"
    /\ UNCHANGED device
    /\ IF wflag = "ok" THEN GivesUp ELSE rpc' = "top" /\ UNCHANGED <<wflag, hasty>>
    /\ UNCHANGED <<queues, sem, cur, sndflg, writer, rowe, ans, clients, own, moves, late, tired>>

----------------------------------------------------------------------------
\* The card.  The kernel signals the daemon (SIGUSR1) at each change.

Move(to) ==
    /\ moves < MaxMove
    /\ moves' = moves + 1
    /\ card' = to
    /\ port' = <<>>
    /\ signal' = TRUE
    /\ UNCHANGED <<queues, shared, exist, writer, reader, clients, own, late, hasty, tired>>

PullOut == card # "out" /\ Move("out")
PlugIn  == card = "out" /\ Move("new")
Swap    == card = "open" /\ Move("new")  \* pulled out and plugged in between two looks

----------------------------------------------------------------------------
Writer == SemWait \/ Clear \/ MsgRcv \/ Write \/ AlarmFires \/ AlarmSend
Reader == Top \/ Detect \/ ReaderSend \/ ReaderSent \/ ErrorReply \/ ReadAnswer \/ ReadReport
          \/ Probe \/ Handle \/ Clip \/ ReadNothing \/ ReadFails \/ Failed

Next ==
    \/ \E c \in Client : Submit(c) \/ Take(c) \/ Drained(c) \/ GiveUp(c)
    \/ Writer
    \/ Reader
    \/ Poll
    \/ PullOut
    \/ PlugIn
    \/ Swap

Spec == Init /\ [][Next]_vars

\* Both threads of the daemon run, and the mutex lets the writer in at last.
FairSpec ==
    /\ Spec
    /\ WF_vars(SemWait \/ Clear \/ MsgRcv \/ AlarmSend) /\ SF_vars(Write)
    /\ WF_vars(Top \/ Detect \/ ReaderSend \/ ReaderSent \/ ErrorReply \/ ReadAnswer \/ Probe
               \/ Handle \/ Clip \/ ReadNothing \/ ReadFails \/ Failed)

----------------------------------------------------------------------------
\* What the daemon and its clients hold, and the bounds of the counters.
TypeOK ==
    /\ queue \in Seq(Command) /\ Len(queue) <= QueueLen
    /\ replies \in [Client -> Seq(Reply)] /\ \A c \in Client : Len(replies[c]) <= ReplyLen
    /\ sem \in Nat
    /\ cur \in Command \cup {None}
    /\ wflag \in {"unknown", "ok", "no"} /\ sndflg \in BOOLEAN
    /\ exist \in {"unknown", "yes", "no"} /\ signal \in BOOLEAN
    /\ card \in {"out", "new", "open"} /\ port \in Seq(Command)
    /\ wpc \in {"wait", "clear", "rcv", "write"} /\ alarm \in BOOLEAN /\ wowe \in 0..2
    /\ rpc \in {"top", "detect", "opened", "send", "queue", "error", "read", "probe", "handle",
               "clip", "failed"}
    /\ rowe \in Seq(Type) /\ ans \in Command \cup {None}
    /\ cpc \in [Client -> {"idle", "wait", "drain"}] /\ tired \in [Client -> BOOLEAN]
    /\ asked \in [Client -> [id : 0..MaxAsk, typ : Type]]
    /\ own \in 0..MaxOwn /\ moves \in 0..MaxMove /\ late \in 0..MaxLate /\ hasty \in BOOLEAN
    /\ wpc = "write" => cur # None

\* One command at a time: while the card owes the answer to a command, or the reader
\* has one or an error to hand on, the writer waits and the semaphore is down, and
\* there is no second one, unless the reader went on too early once (hasty).
OneAtATime ==
    \/ hasty
    \/ /\ sem <= 1
       /\ port # <<>> \/ ans # None \/ rpc = "error" => wpc = "wait" /\ sem = 0
       /\ Len(port) + Cardinality({ans} \ {None}) + (IF rpc = "error" THEN 1 ELSE 0) <= 1

\* Commands, queues and threads are what the code takes them for, and take turns.
ChannelSound == TypeOK /\ OneAtATime

CommandOf(c) == [from |-> c, typ |-> asked[c].typ, id |-> asked[c].id]

\* The module that asked gets the reply, although the handlers send it to whatever
\* g_stAtFromOther names at that time.  What comes of a call is for the voice module.
HandedToAsker ==
    hasty \/ \A c \in Client : \A i \in DOMAIN replies[c] :
                 LET cmd == replies[c][i].to
                 IN  cmd.from = c \/ (cmd.typ \in ToVoice /\ c = Voice)

\* What AtRcv may take is the outcome of the command the client has just sent, as
\* long as no call of the client has timed out: after that each call may take what
\* the one before it left.  No command is answered twice.  Calls are left out: what
\* comes of one is told in several messages of the same type.
Fresh ==
    hasty \/ \A c \in Client : \A i, j \in DOMAIN replies[c] :
                 LET cmd == replies[c][i].to
                 IN  \/ cmd.typ \in Calls
                     \/ /\ tired[c] \/ (cpc[c] = "wait" /\ cmd = CommandOf(c))
                        /\ replies[c][j].to = cmd => i = j

\* A command was taken from the queue and its outcome is not yet told.
Active == wpc = "write" \/ (wpc = "wait" /\ sem = 0)

\* No command is forgotten: while a client waits, its command is in the request queue,
\* or is the one whose turn it is, or its outcome is in the client's queue, unless
\* that was full.  A call that the card accepts is told of by a report only.
NoneForgotten ==
    hasty \/ \A c \in Client : cpc[c] = "wait" /\ asked[c].typ \notin Calls =>
                 \/ \E i \in DOMAIN queue : queue[i] = CommandOf(c)
                 \/ Active /\ cur = CommandOf(c)
                 \/ \E i \in DOMAIN replies[c] : replies[c][i].to = CommandOf(c)
                 \/ Len(replies[c]) >= ReplyLen

\* The writer never waits for ever: the answer, a failed read, or the loss of the
\* card posts the semaphore, in every interleaving and out of turn too.  The
\* exception is AtSend, which the reader and the alarm handler of the writer call:
\* with the request queue full the thread that should empty it may be the one that
\* waits.
Served == <>[]Full \/ []<>(wpc # "wait")
=============================================================================
