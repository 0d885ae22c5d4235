------------------------ MODULE ExtensionConnection ------------------------
(***************************************************************************)
(* The extension's side of Native Messaging: one NativeConnection, used by *)
(* the manager pages through the background page, and the helper processes *)
(* it starts, one for each port it opens.                                  *)
(*                                                                         *)
(* The background page is single-threaded.  A step is one turn of its      *)
(* event loop (a message of a page or of a port, a disconnection, a timer) *)
(* or one continuation of an await (Continue); continuations go before the *)
(* next turn.  A step of a helper is one message it reads, or one effect   *)
(* of a change of settings (HostSettings).  What the messages tell about   *)
(* tasks is EventStream's subject; here a snapshot counts by its pages.    *)
(***************************************************************************)
EXTENDS HostSettings, Sequences, FiniteSets

CONSTANTS
  Pages,        \* manager pages
  Limit,        \* how many commands may be pending
  MaxActions,   \* bound: what the pages ask for, altogether
  MaxPorts,     \* bound: ports opened
  MaxOverflows, \* bound: overflow snapshots
  MaxFaults     \* bound: faults of any kind

ASSUME ConnectionBounds ==
  /\ Limit \in Nat \ {0}
  /\ {MaxActions, MaxPorts, MaxOverflows, MaxFaults} \subseteq Nat

VARIABLES
  actions,      \* what pages asked for, in order, and how far each has come
  link,         \* the fields of NativeConnection
  commands,     \* NativeConnection.#commands: the actions that await a response
  shown,        \* NativeConnection.#settings
  ports,        \* the ports opened so far, each with its pipes and its process
  shownFrom,    \* history: the port whose snapshot replaced the table last
  faults, overflows

extension == <<actions, link, commands, shown, shownFrom>>
vars == <<settingsVars, extension, ports, faults, overflows>>

Ids == 1 .. MaxActions

\* connect: connect and get_settings.  add: a command that needs a capability.
\* control: any other command.
Operations == {"connect", "update", "add", "control"}

\* opening: awaits connect(); resumed: connect() has been resolved; calling and
\* called: the same inside command(); waiting: awaits the response.
Places == {"opening", "resumed", "calling", "called", "waiting", "done"}

\* refused: rejected before anything was posted.  failed: the helper answered with
\* an error.  uncertain: rejected after it was posted.  To the page, refused and
\* uncertain read alike, as a lost connection; only the history tells them apart.
Verdicts == {"none", "ok", "refused", "failed", "uncertain"}

Idle == [port |-> 0, pending |-> FALSE, hello |-> FALSE, assembling |-> FALSE,
         next |-> 0, timer |-> FALSE]

Init ==
  /\ SettingsInit
  /\ actions = <<>>
  /\ link = Idle
  /\ commands = {}
  /\ shown = Absent
  /\ ports = <<>>
  /\ shownFrom = 0
  /\ faults = 0 /\ overflows = 0

-----------------------------------------------------------------------------
(* The background page *)

\* state().connected
Connected == link.port # 0 /\ link.hello /\ ~link.pending

\* No continuation is left to run: the next turn may begin.
Settled == \A i \in DOMAIN actions : actions[i].at \notin {"resumed", "called"}

Fault == faults < MaxFaults /\ faults' = faults + 1

\* #port.disconnect(): the helper sees the end of its input after what is in the pipe.
Closing(ps, p) ==
  IF p = 0 THEN ps ELSE [ps EXCEPT ![p].open = FALSE, ![p].output = <<>>]

\* Every await of the connection, and every pending command, is rejected.
Rejected(as, pending) ==
  [i \in DOMAIN as |->
     CASE as[i].at \in {"opening", "calling"} ->
            [as[i] EXCEPT !.at = "done", !.told = "refused"]
       [] i \in pending -> [as[i] EXCEPT !.at = "done", !.told = "uncertain"]
       [] OTHER -> as[i]]

\* The pending connection is resolved.
Resolved ==
  [i \in DOMAIN actions |->
     CASE actions[i].at = "opening" -> [actions[i] EXCEPT !.at = "resumed"]
       [] actions[i].at = "calling" -> [actions[i] EXCEPT !.at = "called"]
       [] OTHER -> actions[i]]

\* #reject, with the actions and ports as the caller has left them, and port as #port
RejectOn(as, ps, port) ==
  /\ actions' = Rejected(as, commands)
  /\ commands' = {}
  /\ link' = [Idle EXCEPT !.next = link.next]
  /\ ports' = Closing(ps, port)
  /\ UNCHANGED <<shown, shownFrom>>

RejectWith(as, ps) == RejectOn(as, ps, link.port)

Reject == RejectWith(actions, ports)

NewPort == [open |-> TRUE, input |-> <<"hello">>, output |-> <<>>,
            process |-> "starting", sequence |-> 0]

\* connect() finds nothing to wait for.
Usable == link.port # 0 /\ link.hello /\ ~link.assembling

\* connect() for the action i of as, which awaits it at wait and goes on at resume
Connect(as, i, wait, resume) ==
  LET waiting == [as EXCEPT ![i].at = wait] IN
  \/ /\ link.pending
     /\ actions' = waiting
     /\ UNCHANGED <<link, commands, shown, shownFrom, ports, faults>>
  \/ /\ ~link.pending /\ Usable
     /\ actions' = [as EXCEPT ![i].at = resume]
     /\ UNCHANGED <<link, commands, shown, shownFrom, ports, faults>>
  \/ /\ ~link.pending /\ ~Usable
     /\ Len(ports) < MaxPorts
     /\ ports' = Append(ports, NewPort)
     /\ link' = [port |-> Len(ports) + 1, pending |-> TRUE, hello |-> FALSE,
                 assembling |-> FALSE, next |-> 0, timer |-> TRUE]
     /\ actions' = waiting
     /\ UNCHANGED <<commands, shown, shownFrom, faults>>
  \/ /\ ~link.pending /\ ~Usable
     \* The browser cannot start the helper; at the bound it never can.
     /\ Fault \/ (Len(ports) >= MaxPorts /\ UNCHANGED faults)
     /\ RejectWith(waiting, ports)
  \/ /\ ~link.pending /\ ~Usable
     /\ Len(ports) < MaxPorts
     \* postMessage throws on hello: the new port is closed, not the one it replaces.  What
     \* is in the pipe of a helper that nobody hears makes no difference.
     /\ Fault
     /\ RejectOn(waiting, Append(ports, NewPort), Len(ports) + 1)

\* A page that is not busy sends a message to the background page.
Ask(page, op, value) ==
  /\ Settled
  /\ \A i \in DOMAIN actions : actions[i].page = page => actions[i].at = "done"
  /\ Len(actions) < MaxActions
  /\ LET action == [page |-> page, op |-> op, value |-> value, at |-> "done",
                    told |-> "none", ran |-> 0]
         place == IF op = "connect" THEN <<"opening", "resumed">> ELSE <<"calling", "called">>
     IN Connect(Append(actions, action), Len(actions) + 1, place[1], place[2])
  /\ UNCHANGED <<settingsVars, overflows>>

Refuse(i) ==
  /\ actions' = [actions EXCEPT ![i].at = "done", ![i].told = "refused"]
  /\ UNCHANGED <<link, commands, shown, shownFrom, ports, faults>>

\* Without a port nothing is posted, and a process that has gone reads nothing.
Posted(i) ==
  IF link.port = 0 \/ ports[link.port].process = "gone" THEN ports
  ELSE [ports EXCEPT ![link.port].input = Append(@, i)]

\* Mutant: the limit is checked after the message has been posted.
PostThenCheck(i) ==
  /\ ports' = Posted(i)
  /\ IF Cardinality(commands) >= Limit
     THEN /\ actions' = [actions EXCEPT ![i].at = "done", ![i].told = "refused"]
          /\ UNCHANGED commands
     ELSE /\ commands' = commands \cup {i}
          /\ actions' = [actions EXCEPT ![i].at = "waiting"]
  /\ UNCHANGED <<link, shown, shownFrom, faults>>

\* Mutant: one command too many.
PostOneMore(i) ==
  \/ Cardinality(commands) > Limit /\ Refuse(i)
  \/ /\ Cardinality(commands) <= Limit
     /\ commands' = commands \cup {i}
     /\ actions' = [actions EXCEPT ![i].at = "waiting"]
     /\ ports' = Posted(i)
     /\ UNCHANGED <<link, shown, shownFrom, faults>>

\* The rest of command().  A command that was not posted is settled by its timer.
Post(i) ==
  \/ Cardinality(commands) >= Limit /\ Refuse(i)
  \/ /\ Cardinality(commands) < Limit
     /\ commands' = commands \cup {i}
     /\ actions' = [actions EXCEPT ![i].at = "waiting"]
     /\ ports' = Posted(i)
     /\ UNCHANGED <<link, shown, shownFrom, faults>>

\* postMessage throws on a port whose process has gone: #reject settles this command too.
PostThrows(i) ==
  /\ Cardinality(commands) < Limit
  /\ link.port # 0 /\ ports[link.port].process = "gone"
  /\ actions' = Rejected(actions, commands \cup {i})
  /\ commands' = {}
  /\ link' = [Idle EXCEPT !.next = link.next]
  /\ ports' = Closing(ports, link.port)
  /\ UNCHANGED <<shown, shownFrom, faults>>

\* An await of connect() has been resolved, and the connection may have been lost to the
\* continuation of another action since.
Continue(i) ==
  /\ \/ /\ actions[i].at = "resumed"
        /\ Connect(actions, i, "calling", "called")
     \/ /\ actions[i].at = "called"
        /\ IF actions[i].op = "add" /\ ~Connected THEN Refuse(i) ELSE Post(i) \/ PostThrows(i)
  /\ UNCHANGED <<settingsVars, overflows>>

-----------------------------------------------------------------------------
(* What arrives from a port *)

\* A message of p that is read, with what else the browser does to ports
Read(p) == [ports EXCEPT ![p].output = Tail(@)]

\* Mutant: a connection that waits for its snapshot is no longer timed.
HelloUntimed(p, ok) ==
  IF link.hello \/ ~ok THEN RejectWith(actions, Read(p))
  ELSE /\ link' = [link EXCEPT !.hello = TRUE, !.timer = FALSE]
       /\ ports' = Read(p)
       /\ UNCHANGED <<actions, commands, shown, shownFrom>>

\* Mutant: hello is enough to be ready.
HelloIsEnough(p, ok) ==
  IF link.hello \/ ~ok THEN RejectWith(actions, Read(p))
  ELSE /\ link' = [link EXCEPT !.hello = TRUE, !.pending = FALSE, !.timer = FALSE]
       /\ actions' = Resolved
       /\ ports' = Read(p)
       /\ UNCHANGED <<commands, shown, shownFrom>>

\* #receiveResponse to hello
ReceiveHello(p, ok) ==
  IF link.hello \/ ~ok THEN RejectWith(actions, Read(p))
  ELSE /\ link' = [link EXCEPT !.hello = TRUE, !.timer = TRUE]
       /\ ports' = Read(p)
       /\ UNCHANGED <<actions, commands, shown, shownFrom>>

\* The pending command a response to i belongs to
AnswersTo(i) == commands \cap {i}

\* #receiveResponse to a command
ReceiveReply(p, message) ==
  IF AnswersTo(message.id) = {} \/ ~link.hello THEN RejectWith(actions, Read(p))
  ELSE \E i \in AnswersTo(message.id) :
         /\ commands' = commands \ {i}
         /\ actions' = [actions EXCEPT ![i].at = "done",
                                       ![i].told = IF message.ok THEN "ok" ELSE "failed"]
         /\ shown' = IF message.ok /\ message.value # Absent THEN message.value ELSE shown
         /\ ports' = Read(p)
         /\ UNCHANGED <<link, shownFrom>>

\* #receiveEvent and #receiveSnapshot: a page of a snapshot, the last of which replaces
\* the table and makes a new connection ready
ReceivePage(p, message) ==
  IF \/ ~link.hello \/ message.sequence # link.next
     \/ message.first = link.assembling
  THEN RejectWith(actions, Read(p))
  ELSE /\ link' = [link EXCEPT !.next = @ + 1,
                               !.assembling = ~message.last,
                               !.pending = @ /\ ~message.last,
                               !.timer = link.pending /\ ~message.last]
       /\ shownFrom' = IF message.last THEN p ELSE shownFrom
       /\ actions' = IF message.last THEN Resolved ELSE actions
       /\ ports' = Read(p)
       /\ UNCHANGED <<commands, shown>>

\* A port that is not the current one is not listened to.
Deliver(p) ==
  /\ Settled
  /\ ports[p].open /\ ports[p].output # <<>>
  /\ LET message == Head(ports[p].output) IN
       \/ /\ p # link.port
          /\ ports' = Read(p) /\ UNCHANGED extension
       \/ /\ p = link.port
          /\ \/ message.kind = "hello" /\ ReceiveHello(p, message.ok)
             \/ message.kind = "reply" /\ ReceiveReply(p, message)
             \/ message.kind = "page" /\ ReceivePage(p, message)
  /\ UNCHANGED <<settingsVars, faults, overflows>>

\* The browser reports the end of a process after what it had written.
Disconnected(p) ==
  /\ Settled
  /\ ports[p].open /\ ports[p].process = "gone" /\ ports[p].output = <<>>
  /\ IF p = link.port THEN Reject
     ELSE ports' = Closing(ports, p) /\ UNCHANGED extension
  /\ UNCHANGED <<settingsVars, faults, overflows>>

HandshakeTimeout ==
  /\ Settled /\ link.timer
  /\ Reject
  /\ UNCHANGED <<settingsVars, faults, overflows>>

\* The timer of one command gives up the connection, whichever that is by now.
CommandTimeout(i) ==
  /\ Settled /\ i \in commands
  /\ Reject
  /\ UNCHANGED <<settingsVars, faults, overflows>>

-----------------------------------------------------------------------------
(* The helper processes *)

Alive == {"listening", "greeted", "serving"}

\* The lock of the state root: a second helper gives up at once.
LockFree == \A p \in DOMAIN ports : ports[p].process \notin Alive

\* A helper goes on to process, has read its first message if it did, and writes.
Helper(p, process, input, messages, written) ==
  ports' = [ports EXCEPT ![p].process = process, ![p].input = input,
                         ![p].output = IF ports[p].open THEN @ \o messages ELSE <<>>,
                         ![p].sequence = @ + written]

\* TaskEngine::open, SettingsStore::load, the first reconfigure
StartHelper(p) ==
  /\ ports[p].process = "starting"
  /\ \/ LockFree /\ LoadSettings /\ Helper(p, "listening", ports[p].input, <<>>, 0)
     \/ ~LockFree /\ Helper(p, "gone", <<>>, <<>>, 0) /\ UNCHANGED settingsVars
  /\ UNCHANGED <<extension, faults, overflows>>

\* negotiate: the answer to hello, or the refusal of another version ...
Greet(p) ==
  /\ ports[p].process = "listening" /\ ports[p].input # <<>>
  /\ \/ /\ Helper(p, "greeted", Tail(ports[p].input), <<[kind |-> "hello", ok |-> TRUE]>>, 0)
        /\ UNCHANGED <<settingsVars, faults>>
     \/ /\ Fault
        /\ Helper(p, "gone", <<>>, <<[kind |-> "hello", ok |-> FALSE]>>, 0)
        /\ LoseProcess
  /\ UNCHANGED <<extension, overflows>>

PageOf(p, index) ==
  [kind |-> "page", first |-> index = 1, last |-> index = 2,
   sequence |-> ports[p].sequence + index - 1]

\* send_snapshot_events, of two pages
Snapshot(p) ==
  Helper(p, "serving", ports[p].input, <<PageOf(p, 1), PageOf(p, 2)>>, 2)

\* ... and the first snapshot
SendSnapshot(p) ==
  /\ ports[p].process = "greeted"
  /\ Snapshot(p)
  /\ UNCHANGED <<settingsVars, extension, faults, overflows>>

Serving(p) == ports[p].process = "serving" /\ update = NoUpdate

\* run_active_session after an overflow
SendOverflow(p) ==
  /\ Serving(p)
  /\ overflows < MaxOverflows /\ overflows' = overflows + 1
  /\ Snapshot(p)
  /\ UNCHANGED <<settingsVars, extension, faults>>

Reply(p, ok, value) ==
  LET i == Head(ports[p].input) IN
  Helper(p, "serving", Tail(ports[p].input),
         <<[kind |-> "reply", id |-> i, ok |-> ok, value |-> value]>>, 0)

Ran(i) == actions' = [actions EXCEPT ![i].ran = @ + 1]

Quiet == UNCHANGED <<link, commands, shown, shownFrom, overflows>>

\* Session::dispatch.  A command of the engine may take effect in part and still fail.
Dispatch(p) ==
  /\ Serving(p) /\ ports[p].input # <<>>
  /\ LET i == Head(ports[p].input) IN
       \/ /\ actions[i].op = "connect"
          /\ Ran(i) /\ Reply(p, TRUE, current) /\ UNCHANGED settingsVars
       \/ /\ actions[i].op \in {"add", "control"}
          /\ \/ Ran(i) /\ Reply(p, TRUE, Absent)
             \/ (Ran(i) \/ UNCHANGED actions) /\ Reply(p, FALSE, Absent)
          /\ UNCHANGED settingsVars
       \/ /\ actions[i].op = "update"
          /\ \/ Reply(p, FALSE, Absent) /\ RefuseUpdate
             \/ BeginUpdate(actions[i].value) /\ UNCHANGED ports
          /\ UNCHANGED actions
  /\ Quiet /\ UNCHANGED faults

\* The effects of apply_settings, and its response
Apply(p) ==
  /\ ports[p].process = "serving" /\ update # NoUpdate
  /\ \/ WriteTemporary /\ UNCHANGED <<actions, ports, faults>>
     \/ ReplaceFile /\ Ran(Head(ports[p].input)) /\ Reply(p, TRUE, update.to)
        /\ UNCHANGED faults
     \/ SaveFails /\ Fault /\ Reply(p, FALSE, Absent) /\ UNCHANGED actions
  /\ Quiet

\* The end of the input: run_host returns.
Exit(p) ==
  /\ ports[p].process \in {"listening", "serving"} /\ update = NoUpdate
  /\ ~ports[p].open /\ ports[p].input = <<>>
  /\ Helper(p, "gone", <<>>, <<>>, 0)
  /\ LoseProcess
  /\ UNCHANGED <<extension, faults, overflows>>

\* A process dies, or cannot write its answers to a port that was closed.
Die(p) ==
  /\ ports[p].process \in Alive
  /\ IF ports[p].open THEN Fault ELSE UNCHANGED faults
  /\ Helper(p, "gone", <<>>, <<>>, 0)
  /\ LoseProcess
  /\ UNCHANGED <<extension, overflows>>

-----------------------------------------------------------------------------
PageStep ==
  \E page \in Pages, op \in Operations, value \in Values :
    (op = "update" <=> value # Default) /\ Ask(page, op, value)

TurnOf(p) == Deliver(p) \/ Disconnected(p)

HelperStep(p) ==
  \/ StartHelper(p) \/ Greet(p) \/ SendSnapshot(p) \/ SendOverflow(p)
  \/ Dispatch(p) \/ Apply(p) \/ Exit(p) \/ Die(p)

Next ==
  \/ PageStep
  \/ \E i \in DOMAIN actions : Continue(i)
  \/ HandshakeTimeout \/ \E i \in commands : CommandTimeout(i)
  \/ \E p \in DOMAIN ports : TurnOf(p) \/ HelperStep(p)

Spec == Init /\ [][Next]_vars

\* Continuations run and timers fire.  Nothing is assumed of the helper, which may hang,
\* or of the pipe.
FairSpec ==
  /\ Spec
  /\ WF_vars(\E i \in DOMAIN actions : Continue(i))
  /\ WF_vars(HandshakeTimeout)
  /\ WF_vars(\E i \in commands : CommandTimeout(i))

-----------------------------------------------------------------------------
Actions == [page : Pages, op : Operations, value : Values, at : Places,
            told : Verdicts, ran : Nat]

TypeOK ==
  /\ SettingsTypeOK
  /\ actions \in Seq(Actions) /\ Len(actions) <= MaxActions
  /\ link \in [port : 0 .. MaxPorts, pending : BOOLEAN, hello : BOOLEAN,
               assembling : BOOLEAN, next : Nat, timer : BOOLEAN]
  /\ commands \subseteq DOMAIN actions /\ Cardinality(commands) <= Limit
  /\ shown \in Values \cup {Absent}
  /\ \A p \in DOMAIN ports : ports[p].process \in Alive \cup {"starting", "gone"}
  /\ shownFrom \in 0 .. MaxPorts
  /\ faults \in Nat /\ overflows \in Nat

\* Whatever is lost, closed or timed out in between, no command takes effect twice; what a
\* page is told succeeded has taken effect; and what the connection rejects before it is
\* posted never does.
AnswersAreTrue ==
  \A i \in DOMAIN actions :
    /\ actions[i].ran <= 1
    /\ actions[i].told = "ok" => actions[i].ran = 1
    /\ actions[i].told = "refused" => actions[i].ran = 0

\* What the pages show as connected is the table of the current port's helper, not one
\* that an earlier connection left.
ReadyIsCurrent == Connected => shownFrom = link.port /\ ports[link.port].open

\* A page is never busy for good, although the helper may hang or go at any moment.
ActionsSettle ==
  \A i \in Ids :
    (i \in DOMAIN actions) ~> (i \in DOMAIN actions /\ actions[i].at = "done")

\* "Owns one on-demand native port": a port that is replaced has been closed.
OneOpenPort == Cardinality({p \in DOMAIN ports : ports[p].open}) <= 1
=============================================================================
