--------------------- MODULE ExtensionConnectionProofs ---------------------
(***************************************************************************)
(* What ExtensionConnection promises the pages, and what its helpers keep  *)
(* true of their settings, proved for every set of values, any number of   *)
(* pages and ports, and all bounds.                                        *)
(*                                                                         *)
(* SettingsAgree says nothing while an update is under way, so it is not   *)
(* inductive.  SettingsInv adds what an update must keep for its end to    *)
(* restore it: the engine runs with the candidate, and the session, its    *)
(* default destination and the file still agree.                           *)
(*                                                                         *)
(* AnswersAreTrue relates what a page was told to what a helper did, which *)
(* lie several messages apart.  Truthful fills the distance: an action is  *)
(* posted at most once, and is then held by one pipe and has not run, or   *)
(* has a reply on its way that says what became of it, or has been settled *)
(* or lost.  Three lemmas show that this lasts: a step that posts and runs *)
(* nothing (ListenStepKeeps), a posted command (PostKeeps), and a command  *)
(* that a helper runs and answers (AnswerKeeps).  HelpersInv is what the   *)
(* last of them needs of the helpers: one at a time, and a change of       *)
(* settings under way still has its order in the pipe.                     *)
(***************************************************************************)
EXTENDS ExtensionConnection, FiniteSetTheorems, SequenceTheorems, TLAPS

SettingsInv ==
  /\ update \in [to : Values \cup {Absent}, next : {"none", "write", "rename"}]
  /\ update # NoUpdate => update.to \in Values /\ engine = update.to
  /\ current # Absent => destination = current /\ Loaded = current
  /\ (current # Absent /\ update = NoUpdate /\ ~unrestored) => engine = current

\* What any step of the system does to the settings.
SettingsStep ==
  \/ LoadSettings
  \/ \E v \in Values : BeginUpdate(v)
  \/ WriteTemporary \/ ReplaceFile \/ SaveFails \/ LoseProcess
  \/ UNCHANGED settingsVars

\* Nothing but the helpers' own effects touches the settings: pages, ports and timers of
\* the extension leave them alone.
LEMMA OnlySettingsSteps == [Next]_vars => SettingsStep
<1> SUFFICES ASSUME [Next]_vars PROVE SettingsStep
  OBVIOUS
<1>1. CASE PageStep
  BY <1>1 DEF PageStep, Ask, SettingsStep
<1>2. CASE \E i \in DOMAIN actions : Continue(i)
  BY <1>2 DEF Continue, SettingsStep
<1>3. CASE HandshakeTimeout \/ \E i \in commands : CommandTimeout(i)
  BY <1>3 DEF HandshakeTimeout, CommandTimeout, SettingsStep
<1>4. ASSUME NEW p \in DOMAIN ports, TurnOf(p) PROVE SettingsStep
  BY <1>4 DEF TurnOf, Deliver, Disconnected, SettingsStep
<1>5. ASSUME NEW p \in DOMAIN ports, HelperStep(p) PROVE SettingsStep
  <2>1. CASE StartHelper(p)
    BY <2>1 DEF StartHelper, SettingsStep
  <2>2. CASE Greet(p)
    BY <2>2 DEF Greet, SettingsStep
  <2>3. CASE SendSnapshot(p) \/ SendOverflow(p)
    BY <2>3 DEF SendSnapshot, SendOverflow, SettingsStep
  <2>4. CASE Dispatch(p)
    <3>1. \/ UNCHANGED settingsVars
          \/ BeginUpdate(actions[Head(ports[p].input)].value)
      BY <2>4 DEF Dispatch, RefuseUpdate
    <3> QED
      BY <3>1 DEF SettingsStep, BeginUpdate
  <2>5. CASE Apply(p)
    BY <2>5 DEF Apply, SettingsStep
  <2>6. CASE Exit(p) \/ Die(p)
    BY <2>6 DEF Exit, Die, SettingsStep
  <2> QED
    BY <1>5, <2>1, <2>2, <2>3, <2>4, <2>5, <2>6 DEF HelperStep
<1>6. CASE UNCHANGED vars
  BY <1>6 DEF vars, SettingsStep
<1> QED
  BY <1>1, <1>2, <1>3, <1>4, <1>5, <1>6 DEF Next

LEMMA SettingsInvInductive == SettingsInv /\ SettingsStep => SettingsInv'
<1> SUFFICES ASSUME SettingsInv, SettingsStep PROVE SettingsInv'
  OBVIOUS
<1> USE SettingsAssumption DEF SettingsInv, NoUpdate, Loaded
<1>1. CASE LoadSettings
  BY <1>1 DEF LoadSettings
<1>2. ASSUME NEW v \in Values, BeginUpdate(v) PROVE SettingsInv'
  BY <1>2 DEF BeginUpdate
<1>3. CASE WriteTemporary
  BY <1>3 DEF WriteTemporary
<1>4. CASE ReplaceFile
  BY <1>4 DEF ReplaceFile
<1>5. CASE SaveFails
  BY <1>5 DEF SaveFails, Leftovers
<1>6. CASE LoseProcess
  BY <1>6 DEF LoseProcess, Leftovers
<1>7. CASE UNCHANGED settingsVars
  BY <1>7 DEF settingsVars
<1> QED
  BY <1>1, <1>2, <1>3, <1>4, <1>5, <1>6, <1>7 DEF SettingsStep

\* Between two updates the engine, the session, the default destination and the file have
\* the same settings, whatever failed, died or was restarted before, unless an update failed
\* and the engine could not be taken back either (unrestored).
THEOREM SettingsAlwaysAgree == Spec => []SettingsAgree
<1>1. Init => SettingsInv
  BY DEF Init, SettingsInit, SettingsInv, NoUpdate
<1>2. SettingsInv /\ [Next]_vars => SettingsInv'
  BY OnlySettingsSteps, SettingsInvInductive
<1>3. SettingsInv => SettingsAgree
  BY DEF SettingsInv, SettingsAgree
<1> QED
  BY <1>1, <1>2, <1>3, PTL DEF Spec

-----------------------------------------------------------------------------
(* The pipes.  What a helper still has to run of its input, and the replies it *)
(* has written and nobody has read, say all that matters of a port to the      *)
(* pages.                                                                      *)

Order == Ids \cup {"hello"}

ReplyMessage == [kind : {"reply"}, id : Nat, ok : BOOLEAN, value : Values \cup {Absent}]

Message ==
  [kind : {"hello"}, ok : BOOLEAN] \cup ReplyMessage
    \cup [kind : {"page"}, first : BOOLEAN, last : BOOLEAN, sequence : Nat]

Port == [open : BOOLEAN, input : Seq(Order), output : Seq(Message),
         process : Alive \cup {"starting", "gone"}, sequence : Nat]

Among(m, s) == \E k \in DOMAIN s : s[k] = m

\* The message that is read first is hello.
Ungreeted(x) == x.process \in {"starting", "listening"}

Orders(x) == IF Ungreeted(x) THEN Tail(x.input) ELSE x.input

PortOK(x) ==
  /\ x \in Port
  /\ Ungreeted(x) => x.input # <<>>
  /\ Orders(x) \in Seq(Ids)

PortsOK(ps) == ps \in Seq(Port) /\ \A p \in DOMAIN ps : PortOK(ps[p])

\* The actions some helper may still run.
Held(ps) ==
  {i \in Ids : \E p \in DOMAIN ps : \E k \in DOMAIN Orders(ps[p]) : Orders(ps[p])[k] = i}

\* The replies on their way.
Replies(ps) ==
  {m \in ReplyMessage : \E p \in DOMAIN ps : Among(m, ps[p].output)}

\* No action was posted twice.
Once(ps) ==
  \A p, q \in DOMAIN ps :
    \A k \in DOMAIN Orders(ps[p]), l \in DOMAIN Orders(ps[q]) :
      Orders(ps[p])[k] = Orders(ps[q])[l] => p = q /\ k = l

\* Nothing was added to a port that a page could notice.
Less(y, x) ==
  /\ PortOK(y)
  /\ Orders(y) \in {Orders(x), <<>>}
  /\ \A m \in ReplyMessage : Among(m, y.output) => Among(m, x.output)

Fewer(qs, ps) ==
  /\ PortsOK(qs) /\ Len(qs) = Len(ps)
  /\ \A p \in DOMAIN ps : Less(qs[p], ps[p])

LEMMA PortFields ==
  ASSUME NEW x, PortOK(x)
  PROVE  /\ x.open \in BOOLEAN /\ x.input \in Seq(Order) /\ x.output \in Seq(Message)
         /\ x.process \in Alive \cup {"starting", "gone"} /\ x.sequence \in Nat
         /\ Orders(x) \in Seq(Ids)
BY DEF PortOK, Port

LEMMA PortOf ==
  ASSUME NEW ps, PortsOK(ps)
  PROVE  /\ Len(ps) \in Nat /\ DOMAIN ps = 1 .. Len(ps)
         /\ \A p \in DOMAIN ps : PortOK(ps[p])
BY DEF PortsOK

\* One port is replaced.
LEMMA PortReplaced ==
  ASSUME NEW ps, PortsOK(ps), NEW p \in DOMAIN ps, NEW y, PortOK(y)
  PROVE  LET qs == [ps EXCEPT ![p] = y]
         IN /\ PortsOK(qs) /\ Len(qs) = Len(ps) /\ DOMAIN qs = DOMAIN ps
            /\ qs[p] = y /\ \A q \in DOMAIN ps \ {p} : qs[q] = ps[q]
<1> DEFINE qs == [ps EXCEPT ![p] = y]
<1>1. DOMAIN ps = 1 .. Len(ps) /\ ps \in Seq(Port) /\ y \in Port
  BY DEF PortsOK, PortOK
<1>2. /\ qs \in Seq(Port) /\ Len(qs) = Len(ps)
      /\ \A q \in 1 .. Len(ps) : qs[q] = IF q = p THEN y ELSE ps[q]
  BY <1>1, ExceptSeq
<1>3. DOMAIN qs = DOMAIN ps
  OBVIOUS
<1> HIDE DEF qs
<1>4. PortsOK(qs)
  BY <1>1, <1>2, <1>3 DEF PortsOK
<1>5. qs[p] = y /\ \A q \in DOMAIN ps \ {p} : qs[q] = ps[q]
  BY <1>1, <1>2
<1>6. PortsOK(qs) /\ Len(qs) = Len(ps) /\ DOMAIN qs = DOMAIN ps
  BY <1>2, <1>3, <1>4
<1> QED
  BY <1>5, <1>6 DEF qs

LEMMA SameIsLess ==
  ASSUME NEW x, PortOK(x)
  PROVE  Less(x, x)
BY DEF Less

LEMMA SameIsFewer ==
  ASSUME NEW ps, PortsOK(ps)
  PROVE  Fewer(ps, ps)
BY SameIsLess DEF Fewer, PortsOK

LEMMA ReplacedIsFewer ==
  ASSUME NEW ps, PortsOK(ps), NEW p \in DOMAIN ps, NEW y, Less(y, ps[p])
  PROVE  Fewer([ps EXCEPT ![p] = y], ps)
<1> DEFINE qs == [ps EXCEPT ![p] = y]
<1>1. PortOK(y)
  BY DEF Less
<1>2. /\ PortsOK(qs) /\ Len(qs) = Len(ps)
      /\ qs[p] = y /\ \A q \in DOMAIN ps \ {p} : qs[q] = ps[q]
  BY <1>1, PortReplaced
<1> HIDE DEF qs
<1>3. \A q \in DOMAIN ps : Less(qs[q], ps[q])
  BY <1>2, SameIsLess DEF PortsOK
<1>4. Fewer(qs, ps)
  BY <1>2, <1>3 DEF Fewer
<1> QED
  BY <1>4 DEF qs

LEMMA FewerIsTransitive ==
  ASSUME NEW ps, NEW qs, NEW rs, PortsOK(ps), Fewer(qs, ps), Fewer(rs, qs)
  PROVE  Fewer(rs, ps)
<1>1. DOMAIN qs = DOMAIN ps
  BY DEF Fewer, PortsOK
<1>2. ASSUME NEW p \in DOMAIN ps
      PROVE  Less(rs[p], ps[p])
  <2>1. Less(rs[p], qs[p]) /\ Less(qs[p], ps[p])
    BY <1>1, <1>2 DEF Fewer
  <2>2. Orders(rs[p]) \in {Orders(ps[p]), <<>>}
    BY <2>1 DEF Less
  <2> QED
    BY <2>1, <2>2 DEF Less
<1> QED
  BY <1>2 DEF Fewer

LEMMA FewerHolds ==
  ASSUME NEW ps, NEW qs, PortsOK(ps), Fewer(qs, ps)
  PROVE  /\ Held(qs) \subseteq Held(ps) /\ Replies(qs) \subseteq Replies(ps)
         /\ Once(ps) => Once(qs)
<1>1. DOMAIN qs = DOMAIN ps
  BY DEF Fewer, PortsOK
<1>2. \A p \in DOMAIN ps :
        /\ Orders(qs[p]) \in {Orders(ps[p]), <<>>}
        /\ \A m \in ReplyMessage : Among(m, qs[p].output) => Among(m, ps[p].output)
  BY DEF Fewer, Less
<1>3. \A p \in DOMAIN ps : \A k \in DOMAIN Orders(qs[p]) :
        k \in DOMAIN Orders(ps[p]) /\ Orders(ps[p])[k] = Orders(qs[p])[k]
  BY <1>2
<1>4. Held(qs) \subseteq Held(ps)
  BY <1>1, <1>3 DEF Held
<1>5. Replies(qs) \subseteq Replies(ps)
  BY <1>1, <1>2 DEF Replies
<1>6. Once(ps) => Once(qs)
  BY <1>1, <1>3 DEF Once
<1> QED
  BY <1>4, <1>5, <1>6

-----------------------------------------------------------------------------
(* What is done to the pipes *)

LEMMA ClosedIsLess ==
  ASSUME NEW x, PortOK(x)
  PROVE  Less([x EXCEPT !.open = FALSE, !.output = <<>>], x)
<1> DEFINE no == FALSE
           y == [x EXCEPT !.open = no, !.output = <<>>]
<1>0. x \in Port /\ no \in BOOLEAN
  BY DEF PortOK
<1> HIDE DEF no
<1>1. y = [open |-> no, input |-> x.input, output |-> <<>>, process |-> x.process,
           sequence |-> x.sequence]
  <2> DEFINE z == [x EXCEPT !.open = no]
  <2>1. z = [open |-> no, input |-> x.input, output |-> x.output,
             process |-> x.process, sequence |-> x.sequence]
    BY <1>0 DEF Port
  <2> HIDE DEF z
  <2>2. [z EXCEPT !.output = <<>>] = [open |-> no, input |-> x.input, output |-> <<>>,
                                      process |-> x.process, sequence |-> x.sequence]
    BY <2>1
  <2> QED
    BY <2>2 DEF z
<1> HIDE DEF y
<1>2. y.process = x.process /\ y.input = x.input /\ y.output = <<>> /\ y \in Port
  BY <1>0, <1>1 DEF Port
<1>3. Orders(y) = Orders(x) /\ (Ungreeted(y) <=> Ungreeted(x))
  BY <1>2 DEF Orders, Ungreeted
<1>4. PortOK(y)
  BY <1>2, <1>3 DEF PortOK
<1>5. \A m : ~Among(m, y.output)
  BY <1>2 DEF Among
<1>6. Less(y, x)
  BY <1>3, <1>4, <1>5 DEF Less
<1> QED
  BY <1>6 DEF y, no

LEMMA ClosingIsFewer ==
  ASSUME NEW ps, PortsOK(ps), NEW p \in 0 .. Len(ps)
  PROVE  Fewer(Closing(ps, p), ps)
<1>1. CASE p = 0
  BY <1>1, SameIsFewer DEF Closing
<1>2. CASE p # 0
  <2> DEFINE y == [ps[p] EXCEPT !.open = FALSE, !.output = <<>>]
  <2>1. p \in DOMAIN ps /\ PortOK(ps[p])
    BY <1>2 DEF PortsOK
  <2>2. Less(y, ps[p])
    BY <2>1, ClosedIsLess
  <2>3. Fewer([ps EXCEPT ![p] = y], ps)
    BY <2>1, <2>2, ReplacedIsFewer
  <2>4. Closing(ps, p) = [ps EXCEPT ![p] = y]
    BY <1>2 DEF Closing
  <2> QED
    BY <2>3, <2>4
<1> QED
  BY <1>1, <1>2

LEMMA ReadIsFewer ==
  ASSUME PortsOK(ports), NEW p \in DOMAIN ports, ports[p].output # <<>>
  PROVE  /\ Fewer(Read(p), ports)
         /\ Read(p)[p] = [ports[p] EXCEPT !.output = Tail(@)]
         /\ \A q \in DOMAIN ports \ {p} : Read(p)[q] = ports[q]
<1> DEFINE x == ports[p]
           y == [x EXCEPT !.output = Tail(x.output)]
<1>0. PortOK(x) /\ x \in Port /\ x.output \in Seq(Message) /\ x.output # <<>>
  BY PortFields DEF PortsOK, PortOK
<1>1. /\ Tail(x.output) \in Seq(Message)
      /\ Len(Tail(x.output)) = Len(x.output) - 1
      /\ \A k \in 1 .. Len(Tail(x.output)) : Tail(x.output)[k] = x.output[k + 1]
  BY <1>0, HeadTailProperties
<1>2. y \in Port /\ y.process = x.process /\ y.input = x.input /\ y.output = Tail(x.output)
  BY <1>0, <1>1 DEF Port
<1>3. /\ DOMAIN x.output = 1 .. Len(x.output) /\ DOMAIN y.output = 1 .. Len(Tail(x.output))
      /\ Len(x.output) \in Nat
  BY <1>0, <1>1, <1>2
<1>4. Read(p) = [ports EXCEPT ![p] = y]
  BY DEF Read
<1> HIDE DEF x, y
<1>5. Orders(y) = Orders(x) /\ (Ungreeted(y) <=> Ungreeted(x))
  BY <1>2 DEF Orders, Ungreeted
<1>6. PortOK(y)
  BY <1>0, <1>2, <1>5 DEF PortOK
<1>7. \A m : Among(m, y.output) => Among(m, x.output)
  <2>1. \A k \in DOMAIN y.output : k + 1 \in DOMAIN x.output /\ x.output[k + 1] = y.output[k]
    BY <1>1, <1>2, <1>3
  <2> QED
    BY <2>1 DEF Among
<1>8. Less(y, x)
  BY <1>5, <1>6, <1>7 DEF Less
<1>9. Fewer(Read(p), ports)
  BY <1>4, <1>8, ReplacedIsFewer DEF x
<1> QED
  BY <1>4, <1>6, <1>9, PortReplaced DEF x, y

\* What Helper makes of a port.
WrittenPort(x, process, input, messages, written) ==
  [open |-> x.open, input |-> input,
   output |-> IF x.open THEN x.output \o messages ELSE <<>>,
   process |-> process, sequence |-> x.sequence + written]

LEMMA HelperWrites ==
  ASSUME PortsOK(ports), NEW p \in DOMAIN ports,
         NEW process, NEW input, NEW messages, NEW written,
         Helper(p, process, input, messages, written)
  PROVE  ports' = [ports EXCEPT ![p] = WrittenPort(ports[p], process, input, messages, written)]
<1> DEFINE x == ports[p]
           y == [x EXCEPT !.process = process, !.input = input,
                          !.output = IF x.open THEN x.output \o messages ELSE <<>>,
                          !.sequence = x.sequence + written]
<1>1. x \in Port
  BY DEF PortsOK, PortOK
<1>2. ports' = [ports EXCEPT ![p] = y]
  BY DEF Helper
<1> DEFINE output == IF x.open THEN x.output \o messages ELSE <<>>
           sequence == x.sequence + written
<1>3. y = WrittenPort(x, process, input, messages, written)
  <2> DEFINE a == [x EXCEPT !.process = process]
             b == [a EXCEPT !.input = input]
             c == [b EXCEPT !.output = output]
  <2> HIDE DEF output, sequence
  <2>1. a = [open |-> x.open, input |-> x.input, output |-> x.output,
             process |-> process, sequence |-> x.sequence]
    BY <1>1 DEF Port
  <2> HIDE DEF a
  <2>2. b = [open |-> x.open, input |-> input, output |-> x.output,
             process |-> process, sequence |-> x.sequence]
    BY <2>1
  <2> HIDE DEF b
  <2>3. c = [open |-> x.open, input |-> input, output |-> output,
             process |-> process, sequence |-> x.sequence]
    BY <2>2
  <2> HIDE DEF c
  <2>4. [c EXCEPT !.sequence = sequence]
          = [open |-> x.open, input |-> input, output |-> output,
             process |-> process, sequence |-> sequence]
    BY <2>3
  <2> QED
    BY <2>4 DEF WrittenPort, a, b, c, output, sequence
<1> QED
  BY <1>2, <1>3

LEMMA WrittenIsPort ==
  ASSUME NEW x, PortOK(x), NEW process \in Alive \cup {"starting", "gone"},
         NEW input \in Seq(Order), NEW messages \in Seq(Message), NEW written \in Nat,
         NEW y, y = WrittenPort(x, process, input, messages, written)
  PROVE  /\ y \in Port
         /\ \A m : Among(m, y.output) => Among(m, x.output) \/ Among(m, messages)
<1>0. /\ x.open \in BOOLEAN /\ x.output \in Seq(Message) /\ x.sequence \in Nat
  BY PortFields
<1>1. /\ x.output \o messages \in Seq(Message)
      /\ Len(x.output \o messages) = Len(x.output) + Len(messages)
      /\ \A k \in 1 .. Len(x.output) + Len(messages) :
           (x.output \o messages)[k] = IF k <= Len(x.output) THEN x.output[k]
                                       ELSE messages[k - Len(x.output)]
  BY <1>0, ConcatProperties
<1>2. /\ y.output = IF x.open THEN x.output \o messages ELSE <<>>
      /\ y.open = x.open /\ y.input = input /\ y.process = process
      /\ y.sequence = x.sequence + written
  BY DEF WrittenPort
<1>3. <<>> \in Seq(Message) /\ y.sequence \in Nat
  BY <1>0, <1>2
<1>4. y.output \in Seq(Message)
  BY <1>1, <1>2, <1>3
<1>5. y \in Port
  BY <1>0, <1>3, <1>4 DEF WrittenPort, Port
<1>6. /\ Len(x.output) \in Nat /\ Len(messages) \in Nat
      /\ DOMAIN x.output = 1 .. Len(x.output) /\ DOMAIN messages = 1 .. Len(messages)
  BY <1>0
<1>7. ASSUME NEW k \in DOMAIN y.output
      PROVE  \/ \E l \in DOMAIN x.output : x.output[l] = y.output[k]
             \/ \E l \in DOMAIN messages : messages[l] = y.output[k]
  <2>1. y.output = x.output \o messages
    BY <1>2, <1>7
  <2>2. k \in 1 .. Len(x.output) + Len(messages)
    BY <1>1, <1>7, <2>1
  <2>3. CASE k <= Len(x.output)
    BY <1>1, <1>6, <2>1, <2>2, <2>3
  <2>4. CASE ~(k <= Len(x.output))
    <3>1. k - Len(x.output) \in DOMAIN messages
      BY <1>6, <2>2, <2>4
    <3>2. messages[k - Len(x.output)] = y.output[k]
      BY <1>1, <2>1, <2>2, <2>4
    <3> QED
      BY <3>1, <3>2
  <2> QED
    BY <2>3, <2>4
<1> QED
  BY <1>5, <1>7 DEF Among

LEMMA HelperIsFewer ==
  ASSUME PortsOK(ports), NEW p \in DOMAIN ports,
         NEW process \in Alive \cup {"starting", "gone"}, NEW input \in Seq(Order),
         NEW messages \in Seq(Message), NEW written \in Nat,
         Helper(p, process, input, messages, written),
         \A m \in ReplyMessage : ~Among(m, messages),
         process \in {"starting", "listening"} => input # <<>>,
         (IF process \in {"starting", "listening"} THEN Tail(input) ELSE input)
           \in {Orders(ports[p]), <<>>}
  PROVE  Fewer(ports', ports)
<1> DEFINE x == ports[p]
           y == WrittenPort(x, process, input, messages, written)
<1>1. PortOK(x)
  BY DEF PortsOK
<1> HIDE DEF x
<1>2. /\ y \in Port
      /\ \A m : Among(m, y.output) => Among(m, x.output) \/ Among(m, messages)
  <2>1. process \in Alive \cup {"starting", "gone"} /\ input \in Seq(Order)
        /\ messages \in Seq(Message) /\ written \in Nat
    OBVIOUS
  <2>2. y = WrittenPort(x, process, input, messages, written)
    OBVIOUS
  <2> HIDE DEF y
  <2> QED
    BY <1>1, <2>1, <2>2, WrittenIsPort
<1>3. y.process = process /\ y.input = input
  BY DEF WrittenPort
<1>4. ports' = [ports EXCEPT ![p] = y]
  BY HelperWrites DEF x
<1> HIDE DEF y
<1>5. Orders(y) \in {Orders(x), <<>>} /\ (Ungreeted(y) => y.input # <<>>)
  BY <1>3 DEF x, Orders, Ungreeted
<1>6. Orders(y) \in Seq(Ids)
  <2>1. Orders(x) \in Seq(Ids) /\ <<>> \in Seq(Ids)
    BY <1>1, PortFields
  <2> QED
    BY <1>5, <2>1
<1>7. PortOK(y)
  BY <1>2, <1>5, <1>6 DEF PortOK
<1>8. \A m \in ReplyMessage : Among(m, y.output) => Among(m, x.output)
  BY <1>2
<1>9. Less(y, x)
  BY <1>5, <1>7, <1>8 DEF Less
<1> QED
  BY <1>4, <1>9, ReplacedIsFewer DEF x

\* A new port holds nothing but hello.
LEMMA NewPortHolds ==
  ASSUME NEW ps, PortsOK(ps)
  PROVE  LET qs == Append(ps, NewPort)
         IN /\ PortsOK(qs) /\ Len(qs) = Len(ps) + 1
            /\ \A p \in DOMAIN ps : p \in DOMAIN qs /\ qs[p] = ps[p]
            /\ Len(ps) + 1 \in DOMAIN qs /\ qs[Len(ps) + 1] = NewPort
            /\ Held(qs) \subseteq Held(ps) /\ Replies(qs) \subseteq Replies(ps)
            /\ Once(ps) => Once(qs)
<1> DEFINE qs == Append(ps, NewPort)
           n == Len(ps) + 1
           hello == <<"hello">>
<1>1. hello \in Seq(Order) /\ hello # <<>> /\ Tail(hello) = <<>>
  <2>1. "hello" \in Order
    BY DEF Order
  <2>2. hello = Append(<<>>, "hello") /\ <<>> \in Seq(Order)
    OBVIOUS
  <2>3. hello \in Seq(Order) /\ hello # <<>>
    BY <2>1, <2>2, AppendProperties
  <2>4. Tail(Append(<<>>, "hello")) = <<>>
    BY <2>2, HeadTailAppend
  <2> QED
    BY <2>2, <2>3, <2>4
<1> DEFINE yes == TRUE
<1>2. /\ NewPort = [open |-> yes, input |-> hello, output |-> <<>>,
                    process |-> "starting", sequence |-> 0]
      /\ yes \in BOOLEAN
  BY DEF NewPort
<1> HIDE DEF hello, yes
<1>3. NewPort \in Port
  <2>1. <<>> \in Seq(Message)
    OBVIOUS
  <2> QED
    BY <1>1, <1>2, <2>1 DEF Port
<1>4. Orders(NewPort) = <<>> /\ Ungreeted(NewPort) /\ NewPort.output = <<>>
      /\ NewPort.input = hello
  BY <1>1, <1>2 DEF Orders, Ungreeted
<1>5. PortOK(NewPort)
  BY <1>1, <1>3, <1>4 DEF PortOK
<1>6. ps \in Seq(Port) /\ DOMAIN ps = 1 .. Len(ps) /\ Len(ps) \in Nat
  BY DEF PortsOK
<1>7. /\ qs \in Seq(Port) /\ Len(qs) = n
      /\ \A p \in 1 .. Len(ps) : qs[p] = ps[p]
      /\ qs[n] = NewPort
  BY <1>3, <1>6, AppendProperties
<1>8. DOMAIN qs = 1 .. n
  BY <1>7
<1> HIDE DEF qs
<1>9. \A p \in DOMAIN qs : (p \in DOMAIN ps /\ qs[p] = ps[p]) \/ (p = n /\ qs[p] = NewPort)
  BY <1>6, <1>7, <1>8
<1>10. PortsOK(qs)
  BY <1>5, <1>7, <1>9 DEF PortsOK
<1>11. \A p \in DOMAIN ps : p \in DOMAIN qs /\ qs[p] = ps[p]
  BY <1>6, <1>7, <1>8
<1>12. DOMAIN Orders(NewPort) = {} /\ \A m : ~Among(m, NewPort.output)
  BY <1>4 DEF Among
<1>13. \A p \in DOMAIN qs : DOMAIN Orders(qs[p]) # {} => p \in DOMAIN ps /\ qs[p] = ps[p]
  BY <1>9, <1>12
<1>14. Held(qs) \subseteq Held(ps)
  BY <1>13 DEF Held
<1>15. Replies(qs) \subseteq Replies(ps)
  BY <1>9, <1>12 DEF Replies
<1>16. Once(ps) => Once(qs)
  BY <1>13 DEF Once
<1>17. n \in DOMAIN qs
  BY <1>6, <1>8
<1> QED
  BY <1>7, <1>10, <1>11, <1>14, <1>15, <1>16, <1>17 DEF qs

\* An action that was held nowhere is posted to the current port.
LEMMA PostedHolds ==
  ASSUME PortsOK(ports), link.port \in 0 .. Len(ports), Once(ports),
         NEW i \in Ids, i \notin Held(ports)
  PROVE  /\ PortsOK(Posted(i)) /\ Len(Posted(i)) = Len(ports)
         /\ \A p \in DOMAIN ports :
              /\ Posted(i)[p].process = ports[p].process /\ Posted(i)[p].open = ports[p].open
              /\ ports[p].input # <<>> => Posted(i)[p].input # <<>>
         /\ Held(Posted(i)) \subseteq Held(ports) \cup {i}
         /\ Replies(Posted(i)) \subseteq Replies(ports)
         /\ Once(Posted(i))
<1>1. CASE link.port = 0 \/ ports[link.port].process = "gone"
  BY <1>1 DEF Posted
<1>2. CASE ~(link.port = 0 \/ ports[link.port].process = "gone")
  <2> DEFINE c == link.port
             x == ports[c]
             y == [x EXCEPT !.input = Append(x.input, i)]
             qs == [ports EXCEPT ![c] = y]
  <2>1. c \in DOMAIN ports /\ PortOK(x) /\ x \in Port
    BY <1>2 DEF PortsOK, PortOK
  <2>2. Posted(i) = qs
    BY <1>2 DEF Posted
  <2>3. i \in Order /\ x.input \in Seq(Order) /\ Orders(x) \in Seq(Ids)
    BY <2>1, PortFields DEF Order
  <2>4. Append(x.input, i) \in Seq(Order) /\ Append(x.input, i) # <<>>
    <3> DEFINE o == x.input
    <3>1. o \in Seq(Order) /\ i \in Order
      BY <2>3
    <3> HIDE DEF o
    <3>2. Append(o, i) \in Seq(Order) /\ Append(o, i) # <<>>
      BY <3>1, AppendProperties
    <3> QED
      BY <3>2 DEF o
  <2>5. /\ y \in Port /\ y.process = x.process /\ y.open = x.open
        /\ y.input = Append(x.input, i) /\ y.output = x.output
    BY <2>1, <2>4 DEF Port
  <2> HIDE DEF y
  <2>6. Orders(y) = Append(Orders(x), i)
    <3>1. CASE Ungreeted(x)
      <4>1. x.input # <<>>
        BY <2>1, <3>1 DEF PortOK
      <4>2. Tail(Append(x.input, i)) = Append(Tail(x.input), i)
        BY <2>3, <4>1, HeadTailAppend
      <4> QED
        BY <2>5, <3>1, <4>2 DEF Orders, Ungreeted
    <3>2. CASE ~Ungreeted(x)
      BY <2>5, <3>2 DEF Orders, Ungreeted
    <3> QED
      BY <3>1, <3>2
  <2>7. /\ Orders(y) \in Seq(Ids) /\ Len(Orders(y)) = Len(Orders(x)) + 1
        /\ \A k \in 1 .. Len(Orders(x)) : Orders(y)[k] = Orders(x)[k]
        /\ Orders(y)[Len(Orders(x)) + 1] = i
    <3> DEFINE o == Orders(x)
    <3>1. o \in Seq(Ids)
      BY <2>3
    <3> HIDE DEF o
    <3>2. /\ Append(o, i) \in Seq(Ids) /\ Len(Append(o, i)) = Len(o) + 1
          /\ \A k \in 1 .. Len(o) : Append(o, i)[k] = o[k]
          /\ Append(o, i)[Len(o) + 1] = i
      BY <3>1, AppendProperties
    <3> QED
      BY <2>6, <3>2 DEF o
  <2>8. PortOK(y)
    BY <2>4, <2>5, <2>7 DEF PortOK
  <2>9. /\ PortsOK(qs) /\ Len(qs) = Len(ports) /\ DOMAIN qs = DOMAIN ports
        /\ qs[c] = y /\ \A q \in DOMAIN ports \ {c} : qs[q] = ports[q]
    BY <2>1, <2>8, PortReplaced
  <2> HIDE DEF qs
  <2>10. ASSUME NEW k \in DOMAIN Orders(y)
         PROVE  \/ k \in DOMAIN Orders(x) /\ Orders(y)[k] = Orders(x)[k]
                \/ k = Len(Orders(x)) + 1 /\ Orders(y)[k] = i
    BY <2>3, <2>7
  <2>11. \A p \in DOMAIN qs : \A k \in DOMAIN Orders(qs[p]) :
           \/ k \in DOMAIN Orders(ports[p]) /\ Orders(qs[p])[k] = Orders(ports[p])[k]
           \/ p = c /\ k = Len(Orders(x)) + 1 /\ Orders(qs[p])[k] = i
    BY <2>9, <2>10
  <2>12. Held(qs) \subseteq Held(ports) \cup {i}
    BY <2>9, <2>11 DEF Held
  <2>13. Replies(qs) \subseteq Replies(ports)
    BY <2>1, <2>5, <2>9 DEF Replies
  <2>14. \A p \in DOMAIN ports : \A k \in DOMAIN Orders(ports[p]) : Orders(ports[p])[k] # i
    BY DEF Held
  <2>15. Once(qs)
    BY <2>9, <2>11, <2>14 DEF Once
  <2>16. \A p \in DOMAIN ports :
           /\ qs[p].process = ports[p].process /\ qs[p].open = ports[p].open
           /\ ports[p].input # <<>> => qs[p].input # <<>>
    BY <2>4, <2>5, <2>9
  <2> QED
    BY <2>2, <2>9, <2>12, <2>13, <2>15, <2>16
<1> QED
  BY <1>1, <1>2

TheReply(i, ok, value) == [kind |-> "reply", id |-> i, ok |-> ok, value |-> value]

\* A helper has run the first of its orders and answers it.
LEMMA ReplyHolds ==
  ASSUME PortsOK(ports), Once(ports), NEW p \in DOMAIN ports,
         ports[p].process = "serving", ports[p].input # <<>>,
         NEW ok \in BOOLEAN, NEW value \in Values \cup {Absent}, Reply(p, ok, value)
  PROVE  LET i == Head(ports[p].input)
         IN /\ i \in Held(ports)
            /\ PortsOK(ports') /\ Len(ports') = Len(ports)
            /\ \A q \in DOMAIN ports :
                 ports'[q].process = ports[q].process /\ ports'[q].open = ports[q].open
            /\ Held(ports') \subseteq Held(ports) \ {i}
            /\ Replies(ports') \subseteq Replies(ports) \cup {TheReply(i, ok, value)}
            /\ Once(ports')
<1> DEFINE x == ports[p]
           i == Head(x.input)
           m == TheReply(i, ok, value)
           messages == <<m>>
           input == Tail(x.input)
<1>1. PortOK(x) /\ x.process = "serving" /\ x.input # <<>>
  BY DEF PortsOK
<1>2. Orders(x) = x.input /\ x.input \in Seq(Ids) /\ x.input \in Seq(Order)
  BY <1>1, PortFields DEF Orders, Ungreeted
<1>3. /\ i \in Ids /\ input \in Seq(Ids) /\ input \in Seq(Order)
      /\ Len(input) = Len(x.input) - 1 /\ Len(x.input) \in Nat \ {0}
      /\ \A k \in 1 .. Len(input) : input[k] = x.input[k + 1]
      /\ i = x.input[1]
  <2> DEFINE s == x.input
  <2>1. s \in Seq(Ids) /\ s \in Seq(Order) /\ s # <<>>
    BY <1>1, <1>2
  <2> HIDE DEF s
  <2>2. /\ Head(s) \in Ids /\ Tail(s) \in Seq(Ids) /\ Tail(s) \in Seq(Order)
        /\ Len(Tail(s)) = Len(s) - 1
        /\ \A k \in 1 .. Len(Tail(s)) : Tail(s)[k] = s[k + 1]
    BY <2>1, HeadTailProperties
  <2>3. Len(s) \in Nat \ {0} /\ Head(s) = s[1]
    BY <2>1, EmptySeq
  <2> QED
    BY <2>2, <2>3 DEF s
<1>4. m \in ReplyMessage /\ m \in Message /\ messages \in Seq(Message)
  <2>1. i \in Nat
    BY <1>3, ConnectionBounds DEF Ids
  <2> HIDE DEF i
  <2>2. m \in ReplyMessage
    BY <2>1 DEF TheReply, ReplyMessage
  <2>3. m \in Message
    BY <2>2 DEF Message
  <2> HIDE DEF m
  <2> QED
    BY <2>2, <2>3
<1>5. PICK y : y = WrittenPort(x, "serving", input, messages, 0)
  OBVIOUS
<1> HIDE DEF input, messages, m, i
<1>6. ports' = [ports EXCEPT ![p] = y]
  <2>1. Helper(p, "serving", input, messages, 0)
    BY DEF Reply, i, m, messages, input, TheReply
  <2> QED
    BY <1>5, <2>1, HelperWrites
<1> HIDE DEF x
<1>7. /\ y \in Port
      /\ \A n : Among(n, y.output) => Among(n, x.output) \/ Among(n, messages)
  <2>1. "serving" \in Alive \cup {"starting", "gone"} /\ 0 \in Nat
    BY DEF Alive
  <2> QED
    BY <1>1, <1>3, <1>4, <1>5, <2>1, WrittenIsPort
<1>8. y.process = "serving" /\ y.input = input /\ y.open = x.open
  BY <1>5 DEF WrittenPort
<1>9. Orders(y) = input /\ ~Ungreeted(y)
  BY <1>8 DEF Orders, Ungreeted
<1>10. PortOK(y)
  BY <1>3, <1>7, <1>9 DEF PortOK
<1>11. /\ PortsOK(ports') /\ Len(ports') = Len(ports) /\ DOMAIN ports' = DOMAIN ports
       /\ ports'[p] = y /\ \A q \in DOMAIN ports \ {p} : ports'[q] = ports[q]
  <2> DEFINE qs == [ports EXCEPT ![p] = y]
  <2>1. /\ PortsOK(qs) /\ Len(qs) = Len(ports) /\ DOMAIN qs = DOMAIN ports
        /\ qs[p] = y /\ \A q \in DOMAIN ports \ {p} : qs[q] = ports[q]
    BY <1>10, PortReplaced
  <2>2. ports' = qs
    BY <1>6
  <2> HIDE DEF qs
  <2> QED
    BY <2>1, <2>2
<1>12. \A q \in DOMAIN ports :
         ports'[q].process = ports[q].process /\ ports'[q].open = ports[q].open
  BY <1>1, <1>8, <1>11 DEF x
<1>13. /\ DOMAIN input = 1 .. Len(input) /\ DOMAIN x.input = 1 .. Len(x.input)
       /\ Len(input) \in Nat
  BY <1>2, <1>3
<1>14. \A k \in DOMAIN input :
         k \in Nat \ {0} /\ k + 1 \in DOMAIN x.input /\ x.input[k + 1] = input[k]
  BY <1>3, <1>13
<1>15. \A k \in DOMAIN Orders(y) :
         /\ k \in Nat \ {0} /\ k + 1 \in DOMAIN Orders(ports[p])
         /\ Orders(ports[p])[k + 1] = Orders(y)[k]
  BY <1>2, <1>9, <1>14 DEF x
<1>16. 1 \in DOMAIN Orders(ports[p]) /\ Orders(ports[p])[1] = i
  BY <1>2, <1>3, <1>13 DEF x
<1>17. i \in Held(ports)
  BY <1>3, <1>16 DEF Held
<1>18. ASSUME NEW q \in DOMAIN ports', NEW k \in DOMAIN Orders(ports'[q])
       PROVE  \E l \in DOMAIN Orders(ports[q]) :
                /\ Orders(ports[q])[l] = Orders(ports'[q])[k]
                /\ l = IF q = p THEN k + 1 ELSE k
  BY <1>11, <1>15, <1>18
<1>19. ASSUME NEW q \in DOMAIN ports', NEW k \in DOMAIN Orders(ports'[q]) PROVE Orders(ports'[q])[k] # i
  <2>1. PICK l \in DOMAIN Orders(ports[q]) :
          /\ Orders(ports[q])[l] = Orders(ports'[q])[k]
          /\ l = IF q = p THEN k + 1 ELSE k
    BY <1>18, <1>19
  <2>2. q # p \/ l # 1
    BY <1>11, <1>15, <1>19, <2>1
  <2>3. Orders(ports[q])[l] = Orders(ports[p])[1] => q = p /\ l = 1
    BY <1>11, <1>16, <1>19, <2>1 DEF Once
  <2> QED
    BY <1>16, <2>1, <2>2, <2>3
<1>20. Held(ports') \subseteq Held(ports) \ {i}
  BY <1>11, <1>18, <1>19 DEF Held
<1>21. Replies(ports') \subseteq Replies(ports) \cup {m}
  <2>1. \A n : Among(n, messages) => n = m
    BY DEF Among, messages
  <2>2. \A q \in DOMAIN ports : \A n :
          Among(n, ports'[q].output) => Among(n, ports[q].output) \/ n = m
    BY <1>7, <1>11, <2>1 DEF x
  <2> QED
    BY <1>11, <2>2 DEF Replies
<1>22. Once(ports')
  <2> SUFFICES ASSUME NEW q \in DOMAIN ports', NEW r \in DOMAIN ports',
                      NEW k \in DOMAIN Orders(ports'[q]), NEW l \in DOMAIN Orders(ports'[r]),
                      Orders(ports'[q])[k] = Orders(ports'[r])[l]
               PROVE  q = r /\ k = l
    BY DEF Once
  <2>1. PICK a \in DOMAIN Orders(ports[q]) :
          /\ Orders(ports[q])[a] = Orders(ports'[q])[k]
          /\ a = IF q = p THEN k + 1 ELSE k
    BY <1>18
  <2>2. PICK b \in DOMAIN Orders(ports[r]) :
          /\ Orders(ports[r])[b] = Orders(ports'[r])[l]
          /\ b = IF r = p THEN l + 1 ELSE l
    BY <1>18
  <2>3. q = r /\ a = b
    BY <1>11, <2>1, <2>2 DEF Once
  <2>4. q = p => k \in Nat /\ l \in Nat
    BY <1>11, <1>15, <2>3
  <2> QED
    BY <2>1, <2>2, <2>3, <2>4
<1> QED
  BY <1>11, <1>12, <1>17, <1>20, <1>21, <1>22 DEF i, m, x

-----------------------------------------------------------------------------
(* What pages are told *)

\* Not posted yet.
Early == {"opening", "resumed", "calling", "called"}

LEMMA ActionFields ==
  ASSUME NEW a, a \in Actions
  PROVE  /\ a.page \in Pages /\ a.op \in Operations /\ a.value \in Values
         /\ a.at \in Places /\ a.told \in Verdicts /\ a.ran \in Nat
BY DEF Actions

\* An action goes on; an action of a list is replaced.
Moved(a, place) == [a EXCEPT !.at = place]
Ended(a, verdict) == [a EXCEPT !.at = "done", !.told = verdict]
With(xs, i, b) == [xs EXCEPT ![i] = b]
Placed(xs, i, place) == [xs EXCEPT ![i].at = place]
EndedAt(xs, i, verdict) == [xs EXCEPT ![i].at = "done", ![i].told = verdict]
Maps(ys, xs) == ys \in [DOMAIN xs -> Actions]

LEMMA ActionMoved ==
  ASSUME NEW a, a \in Actions, NEW place \in Places, NEW b, b = Moved(a, place)
  PROVE  b \in Actions /\ b.at = place /\ b.told = a.told /\ b.ran = a.ran /\ b.op = a.op
BY DEF Actions, Moved

LEMMA ActionEnded ==
  ASSUME NEW a, a \in Actions, NEW verdict \in Verdicts,
         NEW b, b = Ended(a, verdict)
  PROVE  b \in Actions /\ b.at = "done" /\ b.told = verdict /\ b.ran = a.ran /\ b.op = a.op
<1> DEFINE c == [a EXCEPT !.at = "done"]
<1>1. "done" \in Places
  BY DEF Places
<1>2. c \in Actions /\ c.at = "done" /\ c.told = a.told /\ c.ran = a.ran /\ c.op = a.op
  BY <1>1 DEF Actions
<1>3. b = [c EXCEPT !.told = verdict]
  BY DEF Ended
<1> HIDE DEF c
<1> QED
  BY <1>2, <1>3 DEF Actions

\* One action is replaced.
LEMMA ActionReplaced ==
  ASSUME NEW xs, xs \in Seq(Actions), NEW i, i \in DOMAIN xs, NEW b, b \in Actions,
         NEW ys, ys = With(xs, i, b)
  PROVE  /\ ys \in Seq(Actions) /\ Len(ys) = Len(xs) /\ DOMAIN ys = DOMAIN xs
         /\ ys[i] = b /\ \A j \in DOMAIN xs \ {i} : ys[j] = xs[j]
<1>1. DOMAIN xs = 1 .. Len(xs)
  BY LenProperties
<1>2. /\ ys \in Seq(Actions) /\ Len(ys) = Len(xs)
      /\ \A j \in 1 .. Len(xs) : ys[j] = IF j = i THEN b ELSE xs[j]
  BY <1>1, ExceptSeq DEF With
<1> QED
  BY <1>1, <1>2

LEMMA PlaceReplaced ==
  ASSUME NEW xs, xs \in Seq(Actions), NEW i, i \in DOMAIN xs, NEW place \in Places,
         NEW ys, ys = Placed(xs, i, place)
  PROVE  /\ ys \in Seq(Actions) /\ Len(ys) = Len(xs) /\ DOMAIN ys = DOMAIN xs
         /\ ys[i].at = place /\ ys[i].told = xs[i].told /\ ys[i].ran = xs[i].ran
         /\ ys[i].op = xs[i].op
         /\ \A j \in DOMAIN xs \ {i} : ys[j] = xs[j]
<1>0. xs[i] \in Actions
  BY LenProperties, ElementOfSeq
<1>1. PICK b : b = Moved(xs[i], place)
  OBVIOUS
<1>2. b \in Actions /\ b.at = place /\ b.told = xs[i].told /\ b.ran = xs[i].ran
      /\ b.op = xs[i].op
  BY <1>0, <1>1, ActionMoved
<1>3. ys = With(xs, i, b)
  BY <1>1 DEF With, Moved, Placed
<1>4. /\ ys \in Seq(Actions) /\ Len(ys) = Len(xs) /\ DOMAIN ys = DOMAIN xs
      /\ ys[i] = b /\ \A j \in DOMAIN xs \ {i} : ys[j] = xs[j]
  BY <1>2, <1>3, ActionReplaced
<1> QED
  BY <1>2, <1>4

LEMMA EndReplaced ==
  ASSUME NEW xs, xs \in Seq(Actions), NEW i, i \in DOMAIN xs, NEW verdict \in Verdicts,
         NEW ys, ys = EndedAt(xs, i, verdict)
  PROVE  /\ ys \in Seq(Actions) /\ Len(ys) = Len(xs) /\ DOMAIN ys = DOMAIN xs
         /\ ys[i].at = "done" /\ ys[i].told = verdict /\ ys[i].ran = xs[i].ran
         /\ ys[i].op = xs[i].op
         /\ \A j \in DOMAIN xs \ {i} : ys[j] = xs[j]
<1>0. "done" \in Places
  BY DEF Places
<1>1. PICK zs : zs = Placed(xs, i, "done")
  OBVIOUS
<1>2. /\ zs \in Seq(Actions) /\ Len(zs) = Len(xs) /\ DOMAIN zs = DOMAIN xs
      /\ zs[i].at = "done" /\ zs[i].told = xs[i].told /\ zs[i].ran = xs[i].ran
      /\ zs[i].op = xs[i].op
      /\ \A j \in DOMAIN xs \ {i} : zs[j] = xs[j]
  BY <1>0, <1>1, PlaceReplaced
<1>3. zs[i] \in Actions
  BY <1>2, LenProperties, ElementOfSeq
<1>4. PICK b : b = [zs[i] EXCEPT !.told = verdict]
  OBVIOUS
<1>5. b \in Actions /\ b.at = "done" /\ b.told = verdict /\ b.ran = xs[i].ran
      /\ b.op = xs[i].op
  BY <1>2, <1>3, <1>4 DEF Actions
<1>6. ys = With(zs, i, b)
  BY <1>1, <1>4 DEF With, EndedAt, Placed
<1>7. /\ ys \in Seq(Actions) /\ Len(ys) = Len(zs) /\ DOMAIN ys = DOMAIN zs
      /\ ys[i] = b /\ \A j \in DOMAIN zs \ {i} : ys[j] = zs[j]
  <2>1. zs \in Seq(Actions) /\ i \in DOMAIN zs /\ b \in Actions
    BY <1>2, <1>5
  <2> QED
    BY <1>6, <2>1, ActionReplaced
<1> QED
  BY <1>2, <1>5, <1>7

LEMMA SameRange ==
  ASSUME NEW m \in Nat, NEW n \in Nat, 1 .. m = 1 .. n
  PROVE  m = n
<1>1. m = 0 \/ m \in 1 .. n
  OBVIOUS
<1>2. n = 0 \/ n \in 1 .. m
  OBVIOUS
<1> QED
  BY <1>1, <1>2

LEMMA MappedActions ==
  ASSUME NEW xs, xs \in Seq(Actions), NEW ys, Maps(ys, xs)
  PROVE  ys \in Seq(Actions) /\ Len(ys) = Len(xs) /\ DOMAIN ys = DOMAIN xs
<1>1. DOMAIN xs = 1 .. Len(xs) /\ Len(xs) \in Nat
  BY LenProperties
<1>2. ys \in Seq(Actions)
  BY <1>1, SeqDef DEF Maps
<1>3. DOMAIN ys = 1 .. Len(ys) /\ Len(ys) \in Nat
  BY <1>2, LenProperties
<1>4. DOMAIN ys = DOMAIN xs
  BY DEF Maps
<1>6. Len(ys) = Len(xs)
  BY <1>1, <1>3, <1>4, SameRange
<1> QED
  BY <1>2, <1>4, <1>6

\* b is what a may have become without being posted or run; replies are those on their way.
Heard(b, a, i, replies) ==
  /\ b.ran = a.ran /\ b.op = a.op
  /\ \/ b.at = a.at /\ b.told = a.told
     \/ a.at \in Early /\ b.at \in Early /\ b.told = a.told
     \/ a.at \in Early /\ b.at = "done" /\ b.told = "refused"
     \/ a.at \in Early \cup {"waiting"} /\ b.at = "done" /\ b.told = "uncertain"
     \/ /\ a.at = "waiting" /\ b.at = "done"
        /\ \E m \in replies : m.id = i /\ b.told = IF m.ok THEN "ok" ELSE "failed"

\* An action that was just asked for.
Fresh(b) ==
  /\ b.ran = 0
  /\ (b.at \in Early /\ b.told = "none") \/ (b.at = "done" /\ b.told = "refused")

Listened(ys, xs, replies) ==
  /\ DOMAIN xs \subseteq DOMAIN ys
  /\ \A i \in DOMAIN xs : Heard(ys[i], xs[i], i, replies)
  /\ \A i \in DOMAIN ys \ DOMAIN xs : Fresh(ys[i])

\* What is known of actions, given those that are held and the replies on their way.
Truthful(xs, held, replies) ==
  /\ held \subseteq DOMAIN xs
  /\ \A m \in replies :
       /\ m.id \in DOMAIN xs
       /\ m.ok => xs[m.id].ran = 1
  /\ \A i \in DOMAIN xs :
       /\ xs[i].ran \in {0, 1}
       /\ xs[i].at # "done" => xs[i].told = "none"
       /\ (xs[i].at \in Early \/ xs[i].told = "refused") =>
            xs[i].ran = 0 /\ i \notin held /\ \A m \in replies : m.id # i
       /\ i \in held =>
            /\ xs[i].ran = 0 /\ xs[i].told \in {"none", "uncertain"}
            /\ \A m \in replies : m.id # i
       /\ xs[i].told = "ok" => xs[i].ran = 1

LEMMA ListenedTruthful ==
  ASSUME NEW xs, NEW ys, NEW held, NEW replies, Truthful(xs, held, replies),
         Listened(ys, xs, replies),
         NEW held2, held2 \subseteq held, NEW replies2, replies2 \subseteq replies
  PROVE  Truthful(ys, held2, replies2)
<1>1. held2 \subseteq DOMAIN ys
  BY DEF Truthful, Listened
<1>2. ASSUME NEW m \in replies2
      PROVE  /\ m.id \in DOMAIN ys
             /\ m.ok => ys[m.id].ran = 1
  <2>1. /\ m.id \in DOMAIN xs
        /\ m.ok => xs[m.id].ran = 1
    BY <1>2 DEF Truthful
  <2>2. m.id \in DOMAIN ys /\ ys[m.id].ran = xs[m.id].ran /\ ys[m.id].op = xs[m.id].op
    BY <2>1 DEF Listened, Heard
  <2> QED
    BY <2>1, <2>2
<1> DEFINE Good(zs, i, h, r) ==
       /\ zs[i].ran \in {0, 1}
       /\ zs[i].at # "done" => zs[i].told = "none"
       /\ (zs[i].at \in Early \/ zs[i].told = "refused") =>
            zs[i].ran = 0 /\ i \notin h /\ \A m \in r : m.id # i
       /\ i \in h =>
            /\ zs[i].ran = 0 /\ zs[i].told \in {"none", "uncertain"}
            /\ \A m \in r : m.id # i
       /\ zs[i].told = "ok" => zs[i].ran = 1
<1>3. ASSUME NEW i \in DOMAIN ys \ DOMAIN xs
      PROVE  Good(ys, i, held2, replies2)
  <2>1. Fresh(ys[i])
    BY <1>3 DEF Listened
  <2>2. i \notin held2 /\ \A m \in replies2 : m.id # i
    BY <1>3 DEF Truthful
  <2> QED
    BY <2>1, <2>2 DEF Fresh, Early
<1>4. ASSUME NEW i \in DOMAIN xs
      PROVE  Good(ys, i, held2, replies2)
  <2> DEFINE a == xs[i]
             b == ys[i]
  <2>1. Good(xs, i, held, replies)
    BY <1>4 DEF Truthful
  <2>2. Heard(b, a, i, replies) /\ b.ran = a.ran /\ b.op = a.op
    BY <1>4 DEF Listened, Heard
  <2>3. CASE b.at = a.at /\ b.told = a.told
    BY <2>1, <2>2, <2>3
  <2>4. CASE a.at \in Early /\ b.at \in Early /\ b.told = a.told
    BY <2>1, <2>2, <2>4 DEF Early
  <2>5. CASE a.at \in Early /\ b.at = "done" /\ b.told = "refused"
    BY <2>1, <2>2, <2>5 DEF Early
  <2>6. CASE a.at \in Early \cup {"waiting"} /\ b.at = "done" /\ b.told = "uncertain"
    BY <2>1, <2>2, <2>6 DEF Early
  <2>7. CASE /\ a.at = "waiting" /\ b.at = "done"
             /\ \E m \in replies : m.id = i /\ b.told = IF m.ok THEN "ok" ELSE "failed"
    <3>1. PICK m \in replies : m.id = i /\ b.told = IF m.ok THEN "ok" ELSE "failed"
      BY <2>7
    <3>2. m.ok => a.ran = 1
      BY <3>1 DEF Truthful
    <3>3. i \notin held
      BY <2>1, <3>1
    <3>4. CASE m.ok
      BY <2>1, <2>2, <2>7, <3>1, <3>2, <3>3, <3>4 DEF Early
    <3>5. CASE ~m.ok
      BY <2>1, <2>2, <2>7, <3>1, <3>2, <3>3, <3>5 DEF Early
    <3> QED
      BY <3>4, <3>5
  <2> QED
    BY <2>2, <2>3, <2>4, <2>5, <2>6, <2>7 DEF Heard
<1> QED
  BY <1>1, <1>2, <1>3, <1>4 DEF Truthful

-----------------------------------------------------------------------------
(* The inductive invariant of the connection *)

Waiting(xs) == {i \in DOMAIN xs : xs[i].at = "waiting"}

LinkType == [port : 0 .. MaxPorts, pending : BOOLEAN, hello : BOOLEAN,
             assembling : BOOLEAN, next : Nat, timer : BOOLEAN]

\* The current port is open, and shows its own table once it is not pending.
Current(l, ps, from) ==
  /\ l.port \in 0 .. Len(ps)
  /\ l.port # 0 => ps[l.port].open /\ (~l.pending => from = l.port)

CoreInv ==
  /\ actions \in Seq(Actions) /\ Len(actions) <= MaxActions
  /\ link \in LinkType
  /\ commands = Waiting(actions) /\ Cardinality(commands) <= Limit
  /\ shown \in Values \cup {Absent} /\ shownFrom \in 0 .. MaxPorts
  /\ PortsOK(ports) /\ Len(ports) <= MaxPorts /\ Once(ports)
  /\ Current(link, ports, shownFrom)
  /\ Truthful(actions, Held(ports), Replies(ports))

\* A step that posts nothing and runs nothing.
ListenStep ==
  /\ actions' \in Seq(Actions) /\ Len(actions') <= MaxActions
  /\ Listened(actions', actions, Replies(ports))
  /\ link' \in LinkType
  /\ commands' = Waiting(actions') /\ Cardinality(commands') <= Limit
  /\ shown' \in Values \cup {Absent} /\ shownFrom' \in 0 .. MaxPorts
  /\ PortsOK(ports') /\ Len(ports') <= MaxPorts /\ Once(ports')
  /\ Held(ports') \subseteq Held(ports) /\ Replies(ports') \subseteq Replies(ports)
  /\ Current(link', ports', shownFrom')

LEMMA ListenStepKeeps == CoreInv /\ ListenStep => CoreInv'
<1> SUFFICES ASSUME CoreInv, ListenStep PROVE CoreInv'
  OBVIOUS
<1>1. Truthful(actions', Held(ports'), Replies(ports'))
  BY ListenedTruthful DEF CoreInv, ListenStep
<1> QED
  BY <1>1 DEF CoreInv, ListenStep

LEMMA ActionAt ==
  ASSUME NEW xs, xs \in Seq(Actions), NEW i, i \in DOMAIN xs
  PROVE  xs[i] \in Actions
BY LenProperties, ElementOfSeq

\* Fewer commands are within the limit, too.
LEMMA FewerCommands ==
  ASSUME CoreInv, NEW S, S \subseteq commands
  PROVE  IsFiniteSet(S) /\ Cardinality(S) <= Limit
<1>1. DOMAIN actions = 1 .. Len(actions) /\ Len(actions) \in Nat
  BY LenProperties DEF CoreInv
<1>2. IsFiniteSet(1 .. Len(actions))
  BY <1>1, FS_Interval
<1>3. commands \subseteq 1 .. Len(actions)
  BY <1>1 DEF CoreInv, Waiting
<1>4. IsFiniteSet(commands)
  BY <1>2, <1>3, FS_Subset
<1>5. IsFiniteSet(S) /\ Cardinality(S) <= Cardinality(commands)
  BY <1>4, FS_Subset
<1>6. Cardinality(S) \in Nat /\ Cardinality(commands) \in Nat /\ Limit \in Nat
  BY <1>4, <1>5, FS_CardinalityType, ConnectionBounds
<1> QED
  BY <1>5, <1>6 DEF CoreInv

\* xs are the actions, some of which have gone on to another await, and maybe a new one.
Prepared(xs) ==
  /\ xs \in Seq(Actions) /\ Len(xs) <= MaxActions
  /\ DOMAIN actions \subseteq DOMAIN xs
  /\ \A i \in DOMAIN actions :
       \/ xs[i] = actions[i]
       \/ /\ actions[i].at \in Early /\ xs[i].at \in Early
          /\ xs[i].told = actions[i].told /\ xs[i].ran = actions[i].ran
          /\ xs[i].op = actions[i].op
  /\ \A i \in DOMAIN xs \ DOMAIN actions :
       xs[i].at \in Early /\ xs[i].told = "none" /\ xs[i].ran = 0

LEMMA PreparedListens ==
  ASSUME CoreInv, NEW xs, Prepared(xs)
  PROVE  Listened(xs, actions, Replies(ports)) /\ Waiting(xs) = commands
<1>1. Listened(xs, actions, Replies(ports))
  BY DEF Prepared, Listened, Heard, Fresh
<1>2. ASSUME NEW i \in DOMAIN xs
      PROVE  xs[i].at = "waiting" <=> i \in commands
  <2>1. CASE i \in DOMAIN actions
    BY <2>1 DEF Prepared, CoreInv, Waiting, Early
  <2>2. CASE i \notin DOMAIN actions
    BY <1>2, <2>2 DEF Prepared, CoreInv, Waiting, Early
  <2> QED
    BY <2>1, <2>2
<1>3. commands \subseteq DOMAIN xs
  BY DEF Prepared, CoreInv, Waiting
<1> QED
  BY <1>1, <1>2, <1>3 DEF Waiting

LEMMA RejectedListens ==
  ASSUME CoreInv, NEW xs, Prepared(xs), NEW pending, commands \subseteq pending,
         \A i \in pending \ commands :
           i \in DOMAIN actions /\ xs[i] = actions[i] /\ actions[i].at = "called",
         NEW ys, ys = Rejected(xs, pending)
  PROVE  /\ ys \in Seq(Actions) /\ Len(ys) = Len(xs)
         /\ Listened(ys, actions, Replies(ports)) /\ Waiting(ys) = {}
<1>0. xs \in Seq(Actions)
  BY DEF Prepared
<1>1. DOMAIN ys = DOMAIN xs
  BY DEF Rejected
<1>9. \A i \in pending : xs[i].at \in {"waiting", "called"}
  BY DEF CoreInv, Prepared, Waiting, Early
<1>2. ASSUME NEW i \in DOMAIN xs
      PROVE  \/ /\ xs[i].at \in {"opening", "calling"}
                /\ ys[i] = Ended(xs[i], "refused")
             \/ /\ xs[i].at \notin {"opening", "calling"} /\ i \in pending
                /\ ys[i] = Ended(xs[i], "uncertain")
             \/ xs[i].at \notin {"opening", "calling"} /\ i \notin pending /\ ys[i] = xs[i]
  <2>1. CASE xs[i].at \in {"opening", "calling"}
    <3>1. i \notin pending
      BY <2>1, <1>9 DEF Early
    <3> QED
      BY <1>2, <2>1, <3>1 DEF Rejected, Ended
  <2>2. CASE xs[i].at \notin {"opening", "calling"} /\ i \in pending
    BY <1>2, <2>2 DEF Rejected, Ended
  <2>3. CASE xs[i].at \notin {"opening", "calling"} /\ i \notin pending
    BY <1>2, <2>3 DEF Rejected
  <2> QED
    BY <2>1, <2>2, <2>3
<1>3. ASSUME NEW i \in DOMAIN xs
      PROVE  /\ ys[i] \in Actions /\ ys[i].ran = xs[i].ran /\ ys[i].op = xs[i].op
             /\ \/ /\ xs[i].at \in {"opening", "calling"}
                   /\ ys[i].at = "done" /\ ys[i].told = "refused"
                \/ /\ xs[i].at \notin {"opening", "calling"} /\ i \in pending
                   /\ ys[i].at = "done" /\ ys[i].told = "uncertain"
                \/ /\ xs[i].at \notin {"opening", "calling"} /\ i \notin pending
                   /\ ys[i] = xs[i]
  <2>1. xs[i] \in Actions
    BY <1>0, <1>3, ActionAt
  <2>2. "refused" \in Verdicts /\ "uncertain" \in Verdicts
    BY DEF Verdicts
  <2>3. CASE /\ ys[i] = xs[i]
             /\ xs[i].at \notin {"opening", "calling"} /\ i \notin pending
    BY <1>3, <2>1, <2>3
  <2>4. CASE ys[i] = Ended(xs[i], "refused") /\ xs[i].at \in {"opening", "calling"}
    BY <1>3, <2>1, <2>2, <2>4, ActionEnded
  <2>5. CASE /\ ys[i] = Ended(xs[i], "uncertain")
             /\ xs[i].at \notin {"opening", "calling"} /\ i \in pending
    BY <1>3, <2>1, <2>2, <2>5, ActionEnded
  <2> QED
    BY <1>2, <1>3, <2>3, <2>4, <2>5
<1>4. Maps(ys, xs)
  BY <1>1, <1>3 DEF Maps, Rejected
<1>5. ys \in Seq(Actions) /\ Len(ys) = Len(xs)
  BY <1>0, <1>4, MappedActions
<1>6. ASSUME NEW i \in DOMAIN actions
      PROVE  Heard(ys[i], actions[i], i, Replies(ports))
  <2>1. /\ i \in DOMAIN xs
        /\ \/ xs[i] = actions[i]
           \/ /\ actions[i].at \in Early /\ xs[i].at \in Early
              /\ xs[i].told = actions[i].told /\ xs[i].ran = actions[i].ran
              /\ xs[i].op = actions[i].op
    BY <1>6 DEF Prepared
  <2>2. ys[i].ran = actions[i].ran /\ ys[i].op = actions[i].op
    BY <1>3, <2>1
  <2>3. CASE xs[i].at \in {"opening", "calling"}
    BY <1>3, <2>1, <2>2, <2>3 DEF Heard, Early
  <2>4. CASE xs[i].at \notin {"opening", "calling"} /\ i \in pending
    <3>1. actions[i].at \in Early \cup {"waiting"}
      BY <1>6, <2>4 DEF CoreInv, Waiting, Early
    <3> QED
      BY <1>3, <2>1, <2>2, <2>4, <3>1 DEF Heard
  <2>5. CASE xs[i].at \notin {"opening", "calling"} /\ i \notin pending
    BY <1>3, <2>1, <2>2, <2>5 DEF Heard
  <2> QED
    BY <2>3, <2>4, <2>5
<1>7. ASSUME NEW i \in DOMAIN xs \ DOMAIN actions
      PROVE  Fresh(ys[i])
  <2>1. xs[i].at \in Early /\ xs[i].told = "none" /\ xs[i].ran = 0
    BY <1>7 DEF Prepared
  <2>2. i \notin pending
    BY <1>7 DEF CoreInv, Waiting
  <2> QED
    BY <1>3, <1>7, <2>1, <2>2 DEF Fresh
<1>8. Listened(ys, actions, Replies(ports))
  BY <1>1, <1>6, <1>7 DEF Listened, Prepared
<1>10. ASSUME NEW i \in DOMAIN ys PROVE ys[i].at # "waiting"
  <2>1. xs[i].at = "waiting" => i \in pending
    BY <1>1, <1>10, PreparedListens DEF Waiting
  <2> QED
    BY <1>1, <1>3, <1>10, <2>1
<1> QED
  BY <1>5, <1>8, <1>10 DEF Waiting

IdleLink(l) == l = [Idle EXCEPT !.next = link.next]

LEMMA IdleLinkType ==
  ASSUME link \in LinkType, NEW l, IdleLink(l)
  PROVE  l \in LinkType /\ l.port = 0
<1>1. MaxPorts \in Nat
  BY ConnectionBounds
<1>2. link.next \in Nat
  BY DEF LinkType
<1> DEFINE no == FALSE
<1>3. no \in BOOLEAN
  OBVIOUS
<1> HIDE DEF no
<1>4. Idle = [port |-> 0, pending |-> no, hello |-> no, assembling |-> no, next |-> 0,
              timer |-> no]
  BY DEF Idle, no
<1>5. l = [port |-> 0, pending |-> no, hello |-> no, assembling |-> no,
           next |-> link.next, timer |-> no]
  BY <1>4 DEF IdleLink
<1> QED
  BY <1>1, <1>2, <1>3, <1>5 DEF LinkType

\* #reject, whatever was going on.
LEMMA RejectingListens ==
  ASSUME CoreInv, NEW xs, Prepared(xs), NEW pending, commands \subseteq pending,
         \A i \in pending \ commands :
           i \in DOMAIN actions /\ xs[i] = actions[i] /\ actions[i].at = "called",
         NEW ps, Fewer(ps, ports),
         actions' = Rejected(xs, pending), commands' = {},
         IdleLink(link'), ports' = Closing(ps, link.port),
         UNCHANGED <<shown, shownFrom>>
  PROVE  ListenStep
<1>1. /\ actions' \in Seq(Actions) /\ Len(actions') = Len(xs)
      /\ Listened(actions', actions, Replies(ports)) /\ Waiting(actions') = {}
  BY RejectedListens
<1>2. Len(actions') <= MaxActions
  BY <1>1 DEF Prepared
<1>3. commands' = Waiting(actions') /\ Cardinality(commands') <= Limit
  BY <1>1, FewerCommands
<1>4. link' \in LinkType /\ link'.port = 0
  BY IdleLinkType DEF CoreInv
<1>5. PortsOK(ports) /\ PortsOK(ps) /\ Len(ps) = Len(ports) /\ link.port \in 0 .. Len(ps)
  BY DEF CoreInv, Current, Fewer
<1>6. Fewer(ports', ports)
  BY <1>5, ClosingIsFewer, FewerIsTransitive
<1>7. /\ Held(ports') \subseteq Held(ports) /\ Replies(ports') \subseteq Replies(ports)
      /\ Once(ports') /\ PortsOK(ports') /\ Len(ports') <= MaxPorts
      /\ Len(ports') \in Nat
  BY <1>5, <1>6, FewerHolds, PortOf DEF CoreInv, Fewer
<1>8. Current(link', ports', shownFrom')
  BY <1>4, <1>7 DEF Current
<1> QED
  BY <1>1, <1>2, <1>3, <1>4, <1>7, <1>8 DEF ListenStep, CoreInv

LEMMA RejectWithListens ==
  ASSUME CoreInv, NEW xs, Prepared(xs), NEW ps, Fewer(ps, ports), RejectWith(xs, ps)
  PROVE  ListenStep
BY RejectingListens DEF RejectWith, RejectOn, IdleLink

LEMMA NothingPrepared ==
  ASSUME CoreInv
  PROVE  Prepared(actions)
BY DEF CoreInv, Prepared

LEMMA RejectListens == CoreInv /\ Reject => ListenStep
BY RejectWithListens, NothingPrepared, SameIsFewer DEF Reject, CoreInv

LEMMA NewLink ==
  ASSUME Len(ports) \in Nat, Len(ports) < MaxPorts, NEW l,
         l = [port |-> Len(ports) + 1, pending |-> TRUE, hello |-> FALSE,
              assembling |-> FALSE, next |-> 0, timer |-> TRUE]
  PROVE  l \in LinkType /\ l.port = Len(ports) + 1 /\ l.pending
<1> DEFINE no == FALSE
           yes == TRUE
           n == Len(ports) + 1
<1>1. no \in BOOLEAN /\ yes \in BOOLEAN /\ n \in 0 .. MaxPorts /\ yes
  BY ConnectionBounds
<1>2. l = [port |-> n, pending |-> yes, hello |-> no, assembling |-> no, next |-> 0,
           timer |-> yes]
  OBVIOUS
<1> HIDE DEF no, yes, n
<1>3. l \in LinkType /\ l.port = n /\ l.pending = yes
  BY <1>1, <1>2 DEF LinkType
<1> QED
  BY <1>1, <1>3 DEF n

\* hello cannot be posted to the new port.
LEMMA UnpostedListens ==
  ASSUME CoreInv, NEW xs, Prepared(xs), Len(ports) < MaxPorts,
         RejectOn(xs, Append(ports, NewPort), Len(ports) + 1)
  PROVE  ListenStep
<1> DEFINE qs == Append(ports, NewPort)
           rs == Closing(qs, Len(ports) + 1)
<1>1. /\ actions' = Rejected(xs, commands) /\ commands' = {} /\ IdleLink(link')
      /\ ports' = rs /\ UNCHANGED <<shown, shownFrom>>
  BY DEF RejectOn, IdleLink
<1>2. /\ actions' \in Seq(Actions) /\ Len(actions') = Len(xs)
      /\ Listened(actions', actions, Replies(ports)) /\ Waiting(actions') = {}
  BY <1>1, RejectedListens
<1>3. Len(actions') <= MaxActions
  BY <1>2 DEF Prepared
<1>4. commands' = Waiting(actions') /\ Cardinality(commands') <= Limit
  BY <1>1, <1>2, FewerCommands
<1>5. link' \in LinkType /\ link'.port = 0
  BY <1>1, IdleLinkType DEF CoreInv
<1>6. PortsOK(ports) /\ Once(ports) /\ Len(ports) \in Nat
  BY PortOf DEF CoreInv
<1>7. /\ PortsOK(qs) /\ Len(qs) = Len(ports) + 1 /\ Once(qs)
      /\ Held(qs) \subseteq Held(ports) /\ Replies(qs) \subseteq Replies(ports)
  BY <1>6, NewPortHolds
<1> HIDE DEF qs
<1>8. Fewer(rs, qs)
  BY <1>6, <1>7, ClosingIsFewer
<1> HIDE DEF rs
<1>9. /\ Held(rs) \subseteq Held(ports) /\ Replies(rs) \subseteq Replies(ports)
      /\ Once(rs) /\ PortsOK(rs) /\ Len(rs) = Len(ports) + 1
  BY <1>7, <1>8, FewerHolds DEF Fewer
<1>10. Len(ports') <= MaxPorts /\ Current(link', ports', shownFrom')
  BY <1>1, <1>5, <1>6, <1>9, ConnectionBounds DEF Current
<1> QED
  BY <1>1, <1>2, <1>3, <1>4, <1>5, <1>9, <1>10 DEF ListenStep, CoreInv

LEMMA ConnectListens ==
  ASSUME CoreInv, NEW xs, NEW i, NEW wait, NEW resume,
         Prepared(Placed(xs, i, wait)), Prepared(Placed(xs, i, resume)),
         Connect(xs, i, wait, resume)
  PROVE  ListenStep
<1>0. \/ actions' \in {Placed(xs, i, wait), Placed(xs, i, resume)}
         /\ UNCHANGED <<link, commands, shown, shownFrom, ports>>
      \/ /\ Len(ports) < MaxPorts
         /\ ports' = Append(ports, NewPort)
         /\ link' = [port |-> Len(ports) + 1, pending |-> TRUE, hello |-> FALSE,
                     assembling |-> FALSE, next |-> 0, timer |-> TRUE]
         /\ actions' = Placed(xs, i, wait)
         /\ UNCHANGED <<commands, shown, shownFrom>>
      \/ RejectWith(Placed(xs, i, wait), ports)
      \/ /\ Len(ports) < MaxPorts
         /\ RejectOn(Placed(xs, i, wait), Append(ports, NewPort), Len(ports) + 1)
  BY DEF Connect, Placed
<1>1. PortsOK(ports) /\ Fewer(ports, ports)
  BY SameIsFewer DEF CoreInv
<1>2. CASE /\ actions' \in {Placed(xs, i, wait), Placed(xs, i, resume)}
           /\ UNCHANGED <<link, commands, shown, shownFrom, ports>>
  <2>1. Prepared(actions')
    BY <1>2
  <2>2. Listened(actions', actions, Replies(ports)) /\ Waiting(actions') = commands'
    BY <1>2, <2>1, PreparedListens
  <2>3. actions' \in Seq(Actions) /\ Len(actions') <= MaxActions
    BY <2>1 DEF Prepared
  <2> QED
    BY <1>2, <2>2, <2>3 DEF ListenStep, CoreInv
<1>3. CASE /\ Len(ports) < MaxPorts
           /\ ports' = Append(ports, NewPort)
           /\ link' = [port |-> Len(ports) + 1, pending |-> TRUE, hello |-> FALSE,
                       assembling |-> FALSE, next |-> 0, timer |-> TRUE]
           /\ actions' = Placed(xs, i, wait)
           /\ UNCHANGED <<commands, shown, shownFrom>>
  <2>1. Prepared(actions')
    BY <1>3
  <2>2. Listened(actions', actions, Replies(ports)) /\ Waiting(actions') = commands'
    BY <1>3, <2>1, PreparedListens
  <2>3. actions' \in Seq(Actions) /\ Len(actions') <= MaxActions
    BY <2>1 DEF Prepared
  <2>4. Len(ports) \in Nat
    BY <1>1, PortOf
  <2>5. link' \in LinkType /\ link'.port = Len(ports) + 1 /\ link'.pending
    BY <1>3, <2>4, NewLink
  <2> DEFINE qs == Append(ports, NewPort)
  <2>6. /\ PortsOK(qs) /\ Len(qs) = Len(ports) + 1 /\ qs[Len(ports) + 1] = NewPort
        /\ Held(qs) \subseteq Held(ports) /\ Replies(qs) \subseteq Replies(ports)
        /\ Once(ports) => Once(qs)
    BY <1>1, NewPortHolds
  <2>7. ports' = qs
    BY <1>3
  <2> HIDE DEF qs
  <2>8. NewPort.open
    BY DEF NewPort
  <2>9. Len(ports') <= MaxPorts /\ link'.port \in 0 .. Len(ports')
    BY <1>3, <2>4, <2>5, <2>6, <2>7, ConnectionBounds
  <2>10. ports'[link'.port].open
    BY <2>5, <2>6, <2>7, <2>8
  <2>11. Current(link', ports', shownFrom')
    BY <2>5, <2>9, <2>10 DEF Current
  <2> QED
    BY <1>3, <2>2, <2>3, <2>5, <2>6, <2>7, <2>9, <2>11 DEF ListenStep, CoreInv
<1>4. CASE RejectWith(Placed(xs, i, wait), ports)
  BY <1>1, <1>4, RejectWithListens
<1>5. CASE /\ Len(ports) < MaxPorts
           /\ RejectOn(Placed(xs, i, wait), Append(ports, NewPort), Len(ports) + 1)
  BY <1>5, UnpostedListens
<1> QED
  BY <1>0, <1>2, <1>3, <1>4, <1>5

LEMMA ContinuePrepared ==
  ASSUME CoreInv, NEW i, i \in DOMAIN actions, actions[i].at \in Early, NEW place \in Early
  PROVE  Prepared(Placed(actions, i, place))
<1>1. actions \in Seq(Actions) /\ place \in Places
  BY DEF CoreInv, Early, Places
<1>2. PICK ys : ys = Placed(actions, i, place)
  OBVIOUS
<1>3. /\ ys \in Seq(Actions) /\ Len(ys) = Len(actions) /\ DOMAIN ys = DOMAIN actions
      /\ ys[i].at = place /\ ys[i].told = actions[i].told /\ ys[i].ran = actions[i].ran
      /\ ys[i].op = actions[i].op
      /\ \A j \in DOMAIN actions \ {i} : ys[j] = actions[j]
  BY <1>1, <1>2, PlaceReplaced
<1>4. Prepared(ys)
  BY <1>3 DEF Prepared, CoreInv
<1> QED
  BY <1>2, <1>4

LEMMA AskPrepared ==
  ASSUME CoreInv, NEW a, a \in Actions, a.told = "none", a.ran = 0,
         Len(actions) < MaxActions, NEW place \in Early
  PROVE  Prepared(Placed(Append(actions, a), Len(actions) + 1, place))
<1> DEFINE n == Len(actions) + 1
<1>1. actions \in Seq(Actions) /\ place \in Places /\ MaxActions \in Nat
  BY ConnectionBounds DEF CoreInv, Early, Places
<1>2. PICK xs : xs = Append(actions, a)
  OBVIOUS
<1>3. /\ xs \in Seq(Actions) /\ Len(xs) = n
      /\ \A i \in 1 .. Len(actions) : xs[i] = actions[i]
      /\ xs[n] = a
  BY <1>1, <1>2, AppendProperties
<1>4. /\ DOMAIN xs = 1 .. Len(xs) /\ DOMAIN actions = 1 .. Len(actions)
      /\ Len(actions) \in Nat
  BY <1>1, <1>3, LenProperties
<1>5. n \in DOMAIN xs /\ n \notin DOMAIN actions /\ DOMAIN actions \subseteq DOMAIN xs
      /\ n <= MaxActions /\ \A i \in DOMAIN xs : i \in DOMAIN actions \/ i = n
  BY <1>1, <1>3, <1>4
<1> HIDE DEF n
<1>6. PICK ys : ys = Placed(xs, n, place)
  OBVIOUS
<1>7. /\ ys \in Seq(Actions) /\ Len(ys) = Len(xs) /\ DOMAIN ys = DOMAIN xs
      /\ ys[n].at = place /\ ys[n].told = "none" /\ ys[n].ran = 0
      /\ \A j \in DOMAIN xs \ {n} : ys[j] = xs[j]
  BY <1>1, <1>3, <1>5, <1>6, PlaceReplaced
<1>8. Prepared(ys)
  BY <1>3, <1>4, <1>5, <1>7 DEF Prepared
<1> QED
  BY <1>2, <1>6, <1>8 DEF n

LEMMA AskListens ==
  ASSUME CoreInv, NEW page \in Pages, NEW op \in Operations, NEW value \in Values,
         Ask(page, op, value)
  PROVE  ListenStep
<1> DEFINE a == [page |-> page, op |-> op, value |-> value, at |-> "done",
                 told |-> "none", ran |-> 0]
<1>1. a \in Actions /\ a.told = "none" /\ a.ran = 0
  BY DEF Actions, Places, Verdicts
<1>2. PICK w \in Early, r \in Early : Connect(Append(actions, a), Len(actions) + 1, w, r)
  BY DEF Ask, Early
<1>3. Len(actions) < MaxActions
  BY DEF Ask
<1> HIDE DEF a
<1> QED
  BY <1>1, <1>2, <1>3, AskPrepared, ConnectListens

\* A command that is refused before it is posted.
LEMMA RefuseListens ==
  ASSUME CoreInv, NEW i, i \in DOMAIN actions, actions[i].at = "called", Refuse(i)
  PROVE  ListenStep
<1>1. actions \in Seq(Actions) /\ "refused" \in Verdicts
  BY DEF CoreInv, Verdicts
<1>2. PICK ys : ys = EndedAt(actions, i, "refused")
  OBVIOUS
<1>3. /\ ys \in Seq(Actions) /\ Len(ys) = Len(actions) /\ DOMAIN ys = DOMAIN actions
      /\ ys[i].at = "done" /\ ys[i].told = "refused" /\ ys[i].ran = actions[i].ran
      /\ ys[i].op = actions[i].op
      /\ \A j \in DOMAIN actions \ {i} : ys[j] = actions[j]
  BY <1>1, <1>2, EndReplaced
<1>4. Listened(ys, actions, Replies(ports))
  BY <1>3 DEF Listened, Heard, Early
<1>5. Waiting(ys) = commands
  BY <1>3 DEF Waiting, CoreInv
<1>6. actions' = ys /\ UNCHANGED <<link, commands, shown, shownFrom, ports>>
  BY <1>2 DEF Refuse, EndedAt
<1> QED
  BY <1>3, <1>4, <1>5, <1>6 DEF ListenStep, CoreInv

LEMMA PostThrowsListens ==
  ASSUME CoreInv, NEW i, i \in DOMAIN actions, actions[i].at = "called", PostThrows(i)
  PROVE  ListenStep
<1>1. Fewer(ports, ports)
  BY SameIsFewer DEF CoreInv
<1>2. /\ actions' = Rejected(actions, commands \cup {i}) /\ commands' = {}
      /\ IdleLink(link') /\ ports' = Closing(ports, link.port)
      /\ UNCHANGED <<shown, shownFrom>>
  BY DEF PostThrows, IdleLink
<1> DEFINE pending == commands \cup {i}
<1>3. commands \subseteq pending
      /\ \A j \in pending \ commands :
           j \in DOMAIN actions /\ actions[j] = actions[j] /\ actions[j].at = "called"
  OBVIOUS
<1>4. actions' = Rejected(actions, pending)
  BY <1>2
<1> HIDE DEF pending
<1> QED
  BY <1>1, <1>2, <1>3, <1>4, NothingPrepared, RejectingListens

\* A command that is posted, or that no port takes.
LEMMA PostKeeps ==
  ASSUME CoreInv, NEW i, i \in DOMAIN actions, actions[i].at = "called",
         Cardinality(commands) < Limit,
         commands' = commands \cup {i}, actions' = Placed(actions, i, "waiting"),
         ports' = Posted(i), UNCHANGED <<link, shown, shownFrom>>
  PROVE  CoreInv'
<1>1. actions \in Seq(Actions) /\ "waiting" \in Places
  BY DEF CoreInv, Places
<1>2. PICK ys : ys = Placed(actions, i, "waiting")
  OBVIOUS
<1>3. /\ ys \in Seq(Actions) /\ Len(ys) = Len(actions) /\ DOMAIN ys = DOMAIN actions
      /\ ys[i].at = "waiting" /\ ys[i].told = actions[i].told
      /\ ys[i].ran = actions[i].ran /\ ys[i].op = actions[i].op
      /\ \A j \in DOMAIN actions \ {i} : ys[j] = actions[j]
  BY <1>1, <1>2, PlaceReplaced
<1>4. actions' = ys
  BY <1>2
<1>5. DOMAIN actions = 1 .. Len(actions) /\ Len(actions) \in Nat /\ Len(actions) <= MaxActions
  BY <1>1, LenProperties DEF CoreInv
<1>6. i \in Ids
  BY <1>5, ConnectionBounds DEF Ids
<1>7. /\ actions[i].ran = 0 /\ actions[i].told = "none" /\ i \notin Held(ports)
      /\ \A m \in Replies(ports) : m.id # i
  BY DEF CoreInv, Truthful, Early
<1>8. /\ PortsOK(Posted(i)) /\ Len(Posted(i)) = Len(ports)
      /\ \A p \in DOMAIN ports : Posted(i)[p].open = ports[p].open
      /\ Held(Posted(i)) \subseteq Held(ports) \cup {i}
      /\ Replies(Posted(i)) \subseteq Replies(ports)
      /\ Once(Posted(i))
  BY <1>6, <1>7, PostedHolds DEF CoreInv, Current
<1>9. commands' = Waiting(ys) /\ i \notin commands
  BY <1>3 DEF CoreInv, Waiting
<1>10. Cardinality(commands') <= Limit
  <2>1. IsFiniteSet(commands)
    BY FewerCommands
  <2>2. Cardinality(commands \cup {i}) = Cardinality(commands) + 1
        /\ Cardinality(commands) \in Nat
    BY <1>9, <2>1, FS_AddElement, FS_CardinalityType
  <2> QED
    BY <2>2, ConnectionBounds
<1>11. Current(link', ports', shownFrom')
  BY <1>8, PortOf DEF CoreInv, Current
<1>12. Truthful(ys, Held(ports'), Replies(ports'))
  <2> DEFINE H == Held(ports')
             R == Replies(ports')
  <2>1. H \subseteq Held(ports) \cup {i} /\ R \subseteq Replies(ports)
    BY <1>8
  <2> HIDE DEF H, R
  <2>2. Truthful(actions, Held(ports), Replies(ports))
    BY DEF CoreInv
  <2>3. H \subseteq DOMAIN ys
    BY <1>3, <2>1, <2>2 DEF Truthful
  <2>4. \A m \in R :
          /\ m.id \in DOMAIN ys
          /\ m.ok => ys[m.id].ran = 1
    BY <1>3, <1>7, <2>1, <2>2 DEF Truthful
  <2>5. ASSUME NEW j \in DOMAIN ys
        PROVE  /\ ys[j].ran \in {0, 1}
               /\ ys[j].at # "done" => ys[j].told = "none"
               /\ (ys[j].at \in Early \/ ys[j].told = "refused") =>
                    ys[j].ran = 0 /\ j \notin H /\ \A m \in R : m.id # j
               /\ j \in H =>
                    /\ ys[j].ran = 0 /\ ys[j].told \in {"none", "uncertain"}
                    /\ \A m \in R : m.id # j
               /\ ys[j].told = "ok" => ys[j].ran = 1
    <3>1. CASE j = i
      BY <1>3, <1>7, <2>1, <3>1 DEF Early
    <3>2. CASE j # i
      <4>1. ys[j] = actions[j] /\ j \in DOMAIN actions /\ (j \in H => j \in Held(ports))
        BY <1>3, <2>1, <2>5, <3>2
      <4> QED
        BY <2>1, <2>2, <4>1 DEF Truthful
    <3> QED
      BY <3>1, <3>2
  <2>6. Truthful(ys, H, R)
    BY <2>3, <2>4, <2>5 DEF Truthful
  <2> QED
    BY <2>6 DEF H, R
<1> QED
  BY <1>3, <1>4, <1>8, <1>9, <1>10, <1>11, <1>12 DEF CoreInv

LEMMA ContinueKeeps ==
  ASSUME CoreInv, NEW i, i \in DOMAIN actions, Continue(i)
  PROVE  CoreInv'
<1>1. CASE actions[i].at = "resumed" /\ Connect(actions, i, "calling", "called")
  <2>1. /\ Prepared(Placed(actions, i, "calling"))
        /\ Prepared(Placed(actions, i, "called"))
    BY <1>1, ContinuePrepared DEF Early
  <2> QED
    BY <1>1, <2>1, ConnectListens, ListenStepKeeps
<1>2. CASE actions[i].at = "called" /\ Refuse(i)
  BY <1>2, RefuseListens, ListenStepKeeps
<1>3. CASE actions[i].at = "called" /\ PostThrows(i)
  BY <1>3, PostThrowsListens, ListenStepKeeps
<1>4. CASE actions[i].at = "called" /\ Post(i) /\ ~Refuse(i)
  BY <1>4, PostKeeps DEF Post, Placed
<1> QED
  BY <1>1, <1>2, <1>3, <1>4 DEF Continue

-----------------------------------------------------------------------------
(* What arrives *)

LEMMA HeadOfOutput ==
  ASSUME CoreInv, NEW p, p \in DOMAIN ports, ports[p].output # <<>>,
         NEW m, m = Head(ports[p].output)
  PROVE  m \in Message /\ (m.kind = "reply" => m \in Replies(ports))
<1> DEFINE o == ports[p].output
<1>1. o \in Seq(Message) /\ o # <<>>
  BY PortFields DEF CoreInv, PortsOK
<1>2. /\ Head(o) \in Message /\ Head(o) = o[1] /\ 1 \in DOMAIN o
  <2> HIDE DEF o
  <2>1. Head(o) \in Message
    BY <1>1, HeadTailProperties
  <2>2. Head(o) = o[1] /\ Len(o) \in Nat \ {0}
    BY <1>1, EmptySeq
  <2>3. DOMAIN o = 1 .. Len(o)
    BY <1>1, LenProperties
  <2> QED
    BY <2>1, <2>2, <2>3
<1>3. m \in Message /\ Among(m, o)
  BY <1>2 DEF Among
<1> HIDE DEF o
<1>4. m.kind = "reply" => m \in ReplyMessage
  BY <1>3 DEF Message
<1> QED
  BY <1>3, <1>4 DEF Replies, o

\* Reading a message leaves the current port open.
LEMMA ReadKeepsPorts ==
  ASSUME CoreInv, NEW p, p \in DOMAIN ports, ports[p].output # <<>>
  PROVE  /\ Fewer(Read(p), ports) /\ PortsOK(Read(p)) /\ Len(Read(p)) = Len(ports)
         /\ Held(Read(p)) \subseteq Held(ports) /\ Replies(Read(p)) \subseteq Replies(ports)
         /\ Once(Read(p)) /\ \A q \in DOMAIN ports : Read(p)[q].open = ports[q].open
<1>1. PortsOK(ports) /\ Once(ports)
  BY DEF CoreInv
<1>2. /\ Fewer(Read(p), ports)
      /\ Read(p)[p] = [ports[p] EXCEPT !.output = Tail(@)]
      /\ \A q \in DOMAIN ports \ {p} : Read(p)[q] = ports[q]
  BY <1>1, ReadIsFewer
<1>3. ports[p] \in Port
  BY <1>1 DEF PortsOK, PortOK
<1>4. Read(p)[p].open = ports[p].open
  BY <1>2, <1>3 DEF Port
<1> QED
  BY <1>1, <1>2, <1>4, FewerHolds DEF Fewer

LEMMA HelloLink ==
  ASSUME link \in LinkType, NEW l, l = [link EXCEPT !.hello = TRUE, !.timer = TRUE]
  PROVE  l \in LinkType /\ l.port = link.port /\ l.pending = link.pending
<1> DEFINE yes == TRUE
           k == [link EXCEPT !.hello = yes]
<1>1. yes \in BOOLEAN
  OBVIOUS
<1>2. l = [k EXCEPT !.timer = yes]
  OBVIOUS
<1> HIDE DEF yes
<1>3. k \in LinkType /\ k.port = link.port /\ k.pending = link.pending
  BY <1>1 DEF LinkType
<1> HIDE DEF k
<1> QED
  BY <1>1, <1>2, <1>3 DEF LinkType

LEMMA ReceiveHelloListens ==
  ASSUME CoreInv, NEW p, p \in DOMAIN ports, ports[p].output # <<>>, p = link.port,
         NEW ok, ReceiveHello(p, ok)
  PROVE  ListenStep
<1>1. /\ Fewer(Read(p), ports) /\ PortsOK(Read(p)) /\ Len(Read(p)) = Len(ports)
      /\ Held(Read(p)) \subseteq Held(ports) /\ Replies(Read(p)) \subseteq Replies(ports)
      /\ Once(Read(p)) /\ \A q \in DOMAIN ports : Read(p)[q].open = ports[q].open
  BY ReadKeepsPorts
<1>2. CASE RejectWith(actions, Read(p))
  BY <1>1, <1>2, RejectWithListens, NothingPrepared
<1>3. CASE /\ link' = [link EXCEPT !.hello = TRUE, !.timer = TRUE]
           /\ ports' = Read(p)
           /\ UNCHANGED <<actions, commands, shown, shownFrom>>
  <2>1. link' \in LinkType /\ link'.port = link.port /\ link'.pending = link.pending
    BY <1>3, HelloLink DEF CoreInv
  <2>2. Current(link', ports', shownFrom')
    BY <1>1, <1>3, <2>1 DEF CoreInv, Current
  <2>3. Listened(actions', actions, Replies(ports)) /\ Waiting(actions') = commands'
    BY <1>3, NothingPrepared, PreparedListens
  <2> QED
    BY <1>1, <1>3, <2>1, <2>2, <2>3 DEF ListenStep, CoreInv
<1> QED
  BY <1>2, <1>3 DEF ReceiveHello

LEMMA ReceiveReplyListens ==
  ASSUME CoreInv, NEW p, p \in DOMAIN ports, ports[p].output # <<>>, p = link.port,
         NEW m, m \in Replies(ports), ReceiveReply(p, m)
  PROVE  ListenStep
<1>1. /\ Fewer(Read(p), ports) /\ PortsOK(Read(p)) /\ Len(Read(p)) = Len(ports)
      /\ Held(Read(p)) \subseteq Held(ports) /\ Replies(Read(p)) \subseteq Replies(ports)
      /\ Once(Read(p)) /\ \A q \in DOMAIN ports : Read(p)[q].open = ports[q].open
  BY ReadKeepsPorts
<1>2. CASE RejectWith(actions, Read(p))
  BY <1>1, <1>2, RejectWithListens, NothingPrepared
<1>3. ASSUME NEW i \in AnswersTo(m.id),
             /\ commands' = commands \ {i}
             /\ actions' = EndedAt(actions, i, IF m.ok THEN "ok" ELSE "failed")
             /\ shown' = IF m.ok /\ m.value # Absent THEN m.value ELSE shown
             /\ ports' = Read(p)
             /\ UNCHANGED <<link, shownFrom>>
      PROVE  ListenStep
  <2> DEFINE verdict == IF m.ok THEN "ok" ELSE "failed"
  <2>1. i = m.id /\ i \in commands /\ i \in DOMAIN actions /\ actions[i].at = "waiting"
    BY <1>3 DEF AnswersTo, CoreInv, Waiting
  <2>2. m \in ReplyMessage /\ m.value \in Values \cup {Absent}
    BY DEF Replies, ReplyMessage
  <2>3. verdict \in Verdicts /\ actions \in Seq(Actions)
    BY DEF Verdicts, CoreInv
  <2>4. PICK ys : ys = EndedAt(actions, i, verdict)
    OBVIOUS
  <2>5. /\ ys \in Seq(Actions) /\ Len(ys) = Len(actions) /\ DOMAIN ys = DOMAIN actions
        /\ ys[i].at = "done" /\ ys[i].told = verdict /\ ys[i].ran = actions[i].ran
        /\ ys[i].op = actions[i].op
        /\ \A j \in DOMAIN actions \ {i} : ys[j] = actions[j]
    BY <2>1, <2>3, <2>4, EndReplaced
  <2>6. actions' = ys
    BY <1>3, <2>4
  <2>7. Heard(ys[i], actions[i], i, Replies(ports))
    BY <2>1, <2>5 DEF Heard
  <2>8. Listened(ys, actions, Replies(ports))
    BY <2>5, <2>7 DEF Listened, Heard
  <2>9. commands' = Waiting(ys)
    BY <1>3, <2>1, <2>5 DEF CoreInv, Waiting
  <2>10. Cardinality(commands') <= Limit
    BY <1>3, FewerCommands
  <2>11. Current(link', ports', shownFrom')
    BY <1>1, <1>3 DEF CoreInv, Current
  <2>12. shown' \in Values \cup {Absent}
    BY <1>3, <2>2 DEF CoreInv
  <2> QED
    BY <1>1, <1>3, <2>5, <2>6, <2>8, <2>9, <2>10, <2>11, <2>12 DEF ListenStep, CoreInv
<1> QED
  BY <1>2, <1>3 DEF ReceiveReply, EndedAt

\* The awaits of the connection are resolved.
LEMMA ResolvedPrepared ==
  ASSUME CoreInv
  PROVE  Prepared(Resolved)
<1>1. PICK ys : ys = Resolved
  OBVIOUS
<1>2. DOMAIN ys = DOMAIN actions
  BY <1>1 DEF Resolved
<1>3. ASSUME NEW i \in DOMAIN actions
      PROVE  /\ ys[i] \in Actions
             /\ \/ ys[i] = actions[i]
                \/ /\ actions[i].at \in Early /\ ys[i].at \in Early
                   /\ ys[i].told = actions[i].told /\ ys[i].ran = actions[i].ran
                   /\ ys[i].op = actions[i].op
  <2>1. actions[i] \in Actions
    BY <1>3, ActionAt DEF CoreInv
  <2>2. "resumed" \in Places /\ "called" \in Places
    BY DEF Places
  <2>3. \/ actions[i].at = "opening" /\ ys[i] = Moved(actions[i], "resumed")
        \/ actions[i].at = "calling" /\ ys[i] = Moved(actions[i], "called")
        \/ ys[i] = actions[i]
    BY <1>1, <1>3 DEF Resolved, Moved
  <2>4. CASE actions[i].at = "opening" /\ ys[i] = Moved(actions[i], "resumed")
    <3>1. /\ ys[i] \in Actions /\ ys[i].at = "resumed" /\ ys[i].told = actions[i].told
          /\ ys[i].ran = actions[i].ran /\ ys[i].op = actions[i].op
      BY <2>1, <2>2, <2>4, ActionMoved
    <3> QED
      BY <2>4, <3>1 DEF Early
  <2>5. CASE actions[i].at = "calling" /\ ys[i] = Moved(actions[i], "called")
    <3>1. /\ ys[i] \in Actions /\ ys[i].at = "called" /\ ys[i].told = actions[i].told
          /\ ys[i].ran = actions[i].ran /\ ys[i].op = actions[i].op
      BY <2>1, <2>2, <2>5, ActionMoved
    <3> QED
      BY <2>5, <3>1 DEF Early
  <2> QED
    BY <2>1, <2>3, <2>4, <2>5
<1>4. Maps(ys, actions)
  BY <1>1, <1>2, <1>3 DEF Maps, Resolved
<1>5. ys \in Seq(Actions) /\ Len(ys) = Len(actions)
  BY <1>4, MappedActions DEF CoreInv
<1>6. Prepared(ys)
  BY <1>2, <1>3, <1>5 DEF Prepared, CoreInv
<1> QED
  BY <1>1, <1>6

LEMMA PageLink ==
  ASSUME link \in LinkType, NEW last \in BOOLEAN,
         NEW l, l = [link EXCEPT !.next = @ + 1, !.assembling = ~last,
                                 !.pending = @ /\ ~last, !.timer = link.pending /\ ~last]
  PROVE  l \in LinkType /\ l.port = link.port /\ l.pending = (link.pending /\ ~last)
<1> DEFINE more == ~last
           pending == link.pending /\ ~last
           next == link.next + 1
           a == [link EXCEPT !.next = next]
           b == [a EXCEPT !.assembling = more]
           c == [b EXCEPT !.pending = pending]
<1>1. more \in BOOLEAN /\ pending \in BOOLEAN /\ next \in Nat
  BY DEF LinkType
<1>2. l = [c EXCEPT !.timer = pending]
  OBVIOUS
<1> HIDE DEF more, pending, next
<1>3. a \in LinkType /\ a.port = link.port
  BY <1>1 DEF LinkType
<1> HIDE DEF a
<1>4. b \in LinkType /\ b.port = link.port
  BY <1>1, <1>3 DEF LinkType
<1> HIDE DEF b
<1>5. c \in LinkType /\ c.port = link.port /\ c.pending = pending
  BY <1>1, <1>4 DEF LinkType
<1> HIDE DEF c
<1>6. l \in LinkType /\ l.port = link.port /\ l.pending = pending
  BY <1>1, <1>2, <1>5 DEF LinkType
<1> QED
  BY <1>6 DEF pending

LEMMA ReceivePageListens ==
  ASSUME CoreInv, NEW p, p \in DOMAIN ports, ports[p].output # <<>>, p = link.port,
         NEW m, m.last \in BOOLEAN, ReceivePage(p, m)
  PROVE  ListenStep
<1>1. /\ Fewer(Read(p), ports) /\ PortsOK(Read(p)) /\ Len(Read(p)) = Len(ports)
      /\ Held(Read(p)) \subseteq Held(ports) /\ Replies(Read(p)) \subseteq Replies(ports)
      /\ Once(Read(p)) /\ \A q \in DOMAIN ports : Read(p)[q].open = ports[q].open
  BY ReadKeepsPorts
<1>2. CASE RejectWith(actions, Read(p))
  BY <1>1, <1>2, RejectWithListens, NothingPrepared
<1>3. CASE /\ link' = [link EXCEPT !.next = @ + 1,
                                   !.assembling = ~m.last,
                                   !.pending = @ /\ ~m.last,
                                   !.timer = link.pending /\ ~m.last]
           /\ shownFrom' = IF m.last THEN p ELSE shownFrom
           /\ actions' = IF m.last THEN Resolved ELSE actions
           /\ ports' = Read(p)
           /\ UNCHANGED <<commands, shown>>
  <2>1. /\ link' \in LinkType /\ link'.port = link.port
        /\ link'.pending = (link.pending /\ ~m.last)
    BY <1>3, PageLink DEF CoreInv
  <2>2. shownFrom' \in 0 .. MaxPorts
    <3>1. link.port \in 0 .. MaxPorts
      BY DEF CoreInv, LinkType
    <3> QED
      BY <1>3, <3>1 DEF CoreInv
  <2>3. shownFrom' = IF m.last THEN link.port ELSE shownFrom
    BY <1>3
  <2>4. link'.port \in 0 .. Len(ports')
    BY <1>1, <1>3, <2>1 DEF CoreInv, Current
  <2>5. link'.port # 0 => ports'[link'.port].open
    BY <1>1, <1>3, <2>1 DEF CoreInv, Current
  <2>6. ~link'.pending => shownFrom' = link'.port
    <3>1. link.port # 0
      BY PortOf DEF CoreInv
    <3>2. ~link.pending => shownFrom = link.port
      BY <3>1 DEF CoreInv, Current
    <3>3. CASE m.last
      BY <2>1, <2>3, <3>3
    <3>4. CASE ~m.last
      BY <2>1, <2>3, <3>2, <3>4
    <3> QED
      BY <3>3, <3>4
  <2>7. Current(link', ports', shownFrom')
    BY <2>4, <2>5, <2>6 DEF Current
  <2>8. Prepared(actions')
    BY <1>3, NothingPrepared, ResolvedPrepared
  <2>9. Listened(actions', actions, Replies(ports)) /\ Waiting(actions') = commands'
    BY <1>3, <2>8, PreparedListens
  <2> QED
    BY <1>1, <1>3, <2>1, <2>2, <2>7, <2>8, <2>9 DEF ListenStep, CoreInv, Prepared
<1> QED
  BY <1>2, <1>3 DEF ReceivePage

LEMMA DeliverListens ==
  ASSUME CoreInv, NEW p, p \in DOMAIN ports, Deliver(p)
  PROVE  ListenStep
<1> DEFINE m == Head(ports[p].output)
<1>1. ports[p].output # <<>>
  BY DEF Deliver
<1>2. m \in Message /\ (m.kind = "reply" => m \in Replies(ports))
  BY <1>1, HeadOfOutput
<1>3. CASE ports' = Read(p) /\ p # link.port /\ UNCHANGED extension
  <2>1. /\ Fewer(Read(p), ports) /\ PortsOK(Read(p)) /\ Len(Read(p)) = Len(ports)
        /\ Held(Read(p)) \subseteq Held(ports) /\ Replies(Read(p)) \subseteq Replies(ports)
        /\ Once(Read(p)) /\ \A q \in DOMAIN ports : Read(p)[q].open = ports[q].open
    BY <1>1, ReadKeepsPorts
  <2>2. Current(link', ports', shownFrom')
    BY <1>3, <2>1 DEF CoreInv, Current, extension
  <2>3. Listened(actions', actions, Replies(ports)) /\ Waiting(actions') = commands'
    BY <1>3, NothingPrepared, PreparedListens DEF extension
  <2> QED
    BY <1>3, <2>1, <2>2, <2>3 DEF ListenStep, CoreInv, extension
<1>4. CASE p = link.port /\ m.kind = "hello" /\ ReceiveHello(p, m.ok)
  BY <1>1, <1>4, ReceiveHelloListens
<1>5. CASE p = link.port /\ m.kind = "reply" /\ ReceiveReply(p, m)
  BY <1>1, <1>2, <1>5, ReceiveReplyListens
<1>6. CASE p = link.port /\ m.kind = "page" /\ ReceivePage(p, m)
  <2>1. m.last \in BOOLEAN
    <3> HIDE DEF m
    <3> QED
      BY <1>2, <1>6 DEF Message, ReplyMessage
  <2> QED
    BY <1>1, <1>6, <2>1, ReceivePageListens
<1> QED
  BY <1>3, <1>4, <1>5, <1>6 DEF Deliver

LEMMA ClosedPort ==
  ASSUME PortsOK(ports), NEW p, p \in DOMAIN ports
  PROVE  \A q \in DOMAIN ports \ {p} : Closing(ports, p)[q] = ports[q]
BY PortOf DEF Closing

LEMMA DisconnectedListens ==
  ASSUME CoreInv, NEW p, p \in DOMAIN ports, Disconnected(p)
  PROVE  ListenStep
<1>1. CASE p = link.port /\ Reject
  BY <1>1, RejectListens
<1>2. CASE p # link.port /\ ports' = Closing(ports, p) /\ UNCHANGED extension
  <2>1. PortsOK(ports) /\ DOMAIN ports = 1 .. Len(ports) /\ Len(ports) \in Nat
    BY PortOf DEF CoreInv
  <2>2. Fewer(ports', ports)
    BY <1>2, <2>1, ClosingIsFewer
  <2>3. /\ Held(ports') \subseteq Held(ports) /\ Replies(ports') \subseteq Replies(ports)
        /\ Once(ports') /\ PortsOK(ports') /\ Len(ports') = Len(ports)
    BY <2>1, <2>2, FewerHolds DEF CoreInv, Fewer
  <2>4. \A q \in DOMAIN ports \ {p} : ports'[q] = ports[q]
    BY <1>2, <2>1, ClosedPort
  <2>5. Current(link', ports', shownFrom')
    BY <1>2, <2>1, <2>3, <2>4 DEF CoreInv, Current, extension
  <2>6. Listened(actions', actions, Replies(ports)) /\ Waiting(actions') = commands'
    BY <1>2, NothingPrepared, PreparedListens DEF extension
  <2> QED
    BY <1>2, <2>3, <2>5, <2>6 DEF ListenStep, CoreInv, extension
<1> QED
  BY <1>1, <1>2 DEF Disconnected

-----------------------------------------------------------------------------
(* The helpers *)

\* A helper's step that neither runs nor answers an action.
QuietHelper(p, process, input, messages, written) ==
  /\ process \in Alive \cup {"starting", "gone"}
  /\ input \in Seq(Order) /\ messages \in Seq(Message) /\ written \in Nat
  /\ \A m \in ReplyMessage : ~Among(m, messages)
  /\ process \in {"starting", "listening"} => input # <<>>
  /\ (IF process \in {"starting", "listening"} THEN Tail(input) ELSE input)
       \in {Orders(ports[p]), <<>>}
  /\ Helper(p, process, input, messages, written)

LEMMA QuietHelperListens ==
  ASSUME CoreInv, NEW p, p \in DOMAIN ports,
         NEW process, NEW input, NEW messages, NEW written,
         QuietHelper(p, process, input, messages, written), UNCHANGED extension
  PROVE  ListenStep
<1>1. PortsOK(ports)
  BY DEF CoreInv
<1>2. Fewer(ports', ports)
  BY <1>1, HelperIsFewer DEF QuietHelper
<1>3. /\ Held(ports') \subseteq Held(ports) /\ Replies(ports') \subseteq Replies(ports)
      /\ Once(ports') /\ PortsOK(ports') /\ Len(ports') = Len(ports)
  BY <1>1, <1>2, FewerHolds DEF CoreInv, Fewer
<1>4. ports' = [ports EXCEPT ![p] = WrittenPort(ports[p], process, input, messages, written)]
  BY <1>1, HelperWrites DEF QuietHelper
<1>5. \A q \in DOMAIN ports : ports'[q].open = ports[q].open
  BY <1>4 DEF WrittenPort
<1>6. Current(link', ports', shownFrom')
  BY <1>1, <1>3, <1>5, PortOf DEF CoreInv, Current, extension
<1>7. Listened(actions', actions, Replies(ports)) /\ Waiting(actions') = commands'
  BY NothingPrepared, PreparedListens DEF extension
<1> QED
  BY <1>3, <1>6, <1>7 DEF ListenStep, CoreInv, extension

\* A process that ends reads and writes nothing more.
LEMMA GoneIsQuiet ==
  ASSUME CoreInv, NEW p, p \in DOMAIN ports, NEW messages, messages \in Seq(Message),
         \A m \in ReplyMessage : ~Among(m, messages),
         Helper(p, "gone", <<>>, messages, 0)
  PROVE  QuietHelper(p, "gone", <<>>, messages, 0)
<1>1. <<>> \in Seq(Order) /\ 0 \in Nat
  OBVIOUS
<1> QED
  BY <1>1 DEF QuietHelper

LEMMA NoMessages ==
  /\ <<>> \in Seq(Message) /\ \A m \in ReplyMessage : ~Among(m, <<>>)
BY DEF Among

\* Neither a hello nor a page is a reply.
LEMMA OneMessage ==
  ASSUME NEW m, m \in Message, m.kind # "reply", NEW s, s = <<m>>
  PROVE  s \in Seq(Message) /\ \A n \in ReplyMessage : ~Among(n, s)
BY DEF Among, ReplyMessage

LEMMA TwoMessages ==
  ASSUME NEW m, m \in Message, m.kind # "reply", NEW n, n \in Message, n.kind # "reply",
         NEW s, s = <<m, n>>
  PROVE  s \in Seq(Message) /\ \A r \in ReplyMessage : ~Among(r, s)
<1>1. s = Append(<<m>>, n)
  OBVIOUS
<1> QED
  BY <1>1 DEF Among, ReplyMessage

LEMMA StartHelperListens ==
  ASSUME CoreInv, NEW p, p \in DOMAIN ports, StartHelper(p)
  PROVE  ListenStep
<1>1. UNCHANGED extension
  BY DEF StartHelper
<1>2. CASE Helper(p, "gone", <<>>, <<>>, 0)
  BY <1>1, <1>2, NoMessages, GoneIsQuiet, QuietHelperListens
<1>3. CASE Helper(p, "listening", ports[p].input, <<>>, 0)
  <2> DEFINE o == ports[p].input
  <2>1. PortOK(ports[p]) /\ ports[p].process = "starting"
    BY DEF CoreInv, PortsOK, StartHelper
  <2>2. o \in Seq(Order) /\ o # <<>> /\ Orders(ports[p]) = Tail(o)
    BY <2>1, PortFields DEF PortOK, Ungreeted, Orders
  <2>3. "listening" \in Alive \cup {"starting", "gone"} /\ 0 \in Nat
    BY DEF Alive
  <2>4. Helper(p, "listening", o, <<>>, 0)
    BY <1>3
  <2> HIDE DEF o
  <2>5. QuietHelper(p, "listening", o, <<>>, 0)
    BY <2>2, <2>3, <2>4, NoMessages DEF QuietHelper
  <2> QED
    BY <1>1, <2>5, QuietHelperListens
<1> QED
  BY <1>2, <1>3 DEF StartHelper

LEMMA GreetListens ==
  ASSUME CoreInv, NEW p, p \in DOMAIN ports, Greet(p)
  PROVE  ListenStep
<1>1. UNCHANGED extension
  BY DEF Greet
<1> DEFINE yes == TRUE
           no == FALSE
           Hello(ok) == [kind |-> "hello", ok |-> ok]
<1>2. yes \in BOOLEAN /\ no \in BOOLEAN
  OBVIOUS
<1>3. CASE Helper(p, "gone", <<>>, <<Hello(no)>>, 0)
  <2>1. PICK m : m = Hello(no)
    OBVIOUS
  <2> HIDE DEF no
  <2>2. m \in Message /\ m.kind # "reply"
    BY <1>2, <2>1 DEF Message
  <2>3. PICK s : s = <<m>>
    OBVIOUS
  <2>4. s \in Seq(Message) /\ \A n \in ReplyMessage : ~Among(n, s)
    BY <2>2, <2>3, OneMessage
  <2>5. Helper(p, "gone", <<>>, s, 0)
    BY <1>3, <2>1, <2>3
  <2> QED
    BY <1>1, <2>4, <2>5, GoneIsQuiet, QuietHelperListens
<1>4. CASE /\ ports[p].process = "listening" /\ ports[p].input # <<>>
           /\ Helper(p, "greeted", Tail(ports[p].input), <<Hello(yes)>>, 0)
  <2>1. PICK m : m = Hello(yes)
    OBVIOUS
  <2> HIDE DEF yes
  <2>2. m \in Message /\ m.kind # "reply"
    BY <1>2, <2>1 DEF Message
  <2>3. PICK s : s = <<m>>
    OBVIOUS
  <2>4. s \in Seq(Message) /\ \A n \in ReplyMessage : ~Among(n, s)
    BY <2>2, <2>3, OneMessage
  <2> DEFINE o == Tail(ports[p].input)
  <2>5. Helper(p, "greeted", o, s, 0)
    BY <1>4, <2>1, <2>3
  <2>6. PortOK(ports[p])
    BY DEF CoreInv, PortsOK
  <2>7. o = Orders(ports[p])
    BY <1>4 DEF Orders, Ungreeted
  <2>8. o \in Seq(Order)
    <3> DEFINE r == Orders(ports[p])
    <3>1. r \in Seq(Ids) /\ Ids \subseteq Order
      BY <2>6, PortFields DEF Order
    <3> HIDE DEF r
    <3>2. r \in Seq(Order)
      BY <3>1
    <3> QED
      BY <2>7, <3>2 DEF r
  <2>9. "greeted" \in Alive \cup {"starting", "gone"} /\ 0 \in Nat
    BY DEF Alive
  <2> HIDE DEF o
  <2>10. QuietHelper(p, "greeted", o, s, 0)
    BY <2>4, <2>5, <2>7, <2>8, <2>9 DEF QuietHelper
  <2> QED
    BY <1>1, <2>10, QuietHelperListens
<1> QED
  BY <1>3, <1>4 DEF Greet

LEMMA PageMessage ==
  ASSUME CoreInv, NEW p, p \in DOMAIN ports, NEW index \in {1, 2},
         NEW m, m = PageOf(p, index)
  PROVE  m \in Message /\ m.kind # "reply"
<1> DEFINE first == index = 1
           last == index = 2
           sequence == ports[p].sequence + index - 1
<1>1. ports[p].sequence \in Nat
  BY PortFields DEF CoreInv, PortsOK
<1>2. first \in BOOLEAN /\ last \in BOOLEAN /\ sequence \in Nat
  BY <1>1
<1>3. m = [kind |-> "page", first |-> first, last |-> last, sequence |-> sequence]
  BY DEF PageOf
<1> HIDE DEF first, last, sequence
<1> QED
  BY <1>2, <1>3 DEF Message

LEMMA SnapshotListens ==
  ASSUME CoreInv, NEW p, p \in DOMAIN ports, ports[p].process \in {"greeted", "serving"},
         Snapshot(p), UNCHANGED extension
  PROVE  ListenStep
<1>1. PICK m : m = PageOf(p, 1)
  OBVIOUS
<1>2. PICK n : n = PageOf(p, 2)
  OBVIOUS
<1>3. m \in Message /\ m.kind # "reply" /\ n \in Message /\ n.kind # "reply"
  BY <1>1, <1>2, PageMessage
<1>4. PICK s : s = <<m, n>>
  OBVIOUS
<1>5. s \in Seq(Message) /\ \A r \in ReplyMessage : ~Among(r, s)
  BY <1>3, <1>4, TwoMessages
<1> DEFINE o == ports[p].input
<1>6. Helper(p, "serving", o, s, 2)
  BY <1>1, <1>2, <1>4 DEF Snapshot
<1>7. o \in Seq(Order) /\ o = Orders(ports[p])
  BY PortFields DEF CoreInv, PortsOK, Orders, Ungreeted
<1>8. "serving" \in Alive \cup {"starting", "gone"} /\ 2 \in Nat
  BY DEF Alive
<1> HIDE DEF o
<1>9. QuietHelper(p, "serving", o, s, 2)
  BY <1>5, <1>6, <1>7, <1>8 DEF QuietHelper
<1> QED
  BY <1>9, QuietHelperListens

LEMMA OtherHelperListens ==
  ASSUME CoreInv, NEW p, p \in DOMAIN ports,
         SendSnapshot(p) \/ SendOverflow(p) \/ Exit(p) \/ Die(p)
  PROVE  ListenStep
<1>1. CASE SendSnapshot(p)
  BY <1>1, SnapshotListens DEF SendSnapshot
<1>2. CASE SendOverflow(p)
  BY <1>2, SnapshotListens DEF SendOverflow, Serving
<1>3. CASE Exit(p)
  BY <1>3, NoMessages, GoneIsQuiet, QuietHelperListens DEF Exit
<1>4. CASE Die(p)
  BY <1>4, NoMessages, GoneIsQuiet, QuietHelperListens DEF Die
<1> QED
  BY <1>1, <1>2, <1>3, <1>4

\* An action that is held runs, or is refused by the helper, and is answered.
LEMMA AnsweredTruthful ==
  ASSUME NEW xs, NEW held, NEW replies, Truthful(xs, held, replies),
         NEW i, i \in held, NEW m, m.id = i,
         NEW ys, DOMAIN ys = DOMAIN xs, \A j \in DOMAIN xs \ {i} : ys[j] = xs[j],
         ys[i].at = xs[i].at, ys[i].told = xs[i].told, ys[i].op = xs[i].op,
         ys[i].ran \in {0, 1}, m.ok => ys[i].ran = 1,
         NEW held2, held2 \subseteq held \ {i},
         NEW replies2, replies2 \subseteq replies \cup {m}
  PROVE  Truthful(ys, held2, replies2)
<1>1. held2 \subseteq DOMAIN ys
  BY DEF Truthful
<1>2. i \in DOMAIN xs /\ xs[i].ran = 0 /\ xs[i].told \in {"none", "uncertain"}
      /\ xs[i].at \notin Early /\ \A n \in replies : n.id # i
  BY DEF Truthful
<1>3. ASSUME NEW n \in replies2
      PROVE  /\ n.id \in DOMAIN ys
             /\ n.ok => ys[n.id].ran = 1
  <2>1. CASE n = m
    BY <1>2, <2>1
  <2>2. CASE n # m
    <3>1. n \in replies /\ n.id \in DOMAIN xs /\ n.id # i
      BY <1>2, <1>3, <2>2 DEF Truthful
    <3>2. ys[n.id] = xs[n.id]
      BY <3>1
    <3> QED
      BY <3>1, <3>2 DEF Truthful
  <2> QED
    BY <2>1, <2>2
<1>4. ASSUME NEW j \in DOMAIN ys
      PROVE  /\ ys[j].ran \in {0, 1}
             /\ ys[j].at # "done" => ys[j].told = "none"
             /\ (ys[j].at \in Early \/ ys[j].told = "refused") =>
                  ys[j].ran = 0 /\ j \notin held2 /\ \A n \in replies2 : n.id # j
             /\ j \in held2 =>
                  /\ ys[j].ran = 0 /\ ys[j].told \in {"none", "uncertain"}
                  /\ \A n \in replies2 : n.id # j
             /\ ys[j].told = "ok" => ys[j].ran = 1
  <2>1. CASE j = i
    <3>1. xs[j].at # "done" => xs[j].told = "none"
      BY <1>4 DEF Truthful
    <3> QED
      BY <1>2, <2>1, <3>1
  <2>2. CASE j # i
    <3>1. ys[j] = xs[j] /\ j \in DOMAIN xs /\ (j \in held2 => j \in held)
      BY <1>4, <2>2
    <3>2. (\A n \in replies : n.id # j) => \A n \in replies2 : n.id # j
      BY <2>2
    <3> QED
      BY <3>1, <3>2 DEF Truthful
  <2> QED
    BY <2>1, <2>2
<1> QED
  BY <1>1, <1>3, <1>4 DEF Truthful

LEMMA RunningAction ==
  ASSUME NEW xs, xs \in Seq(Actions), NEW i, i \in DOMAIN xs,
         NEW ys, ys = [xs EXCEPT ![i].ran = @ + 1]
  PROVE  /\ ys \in Seq(Actions) /\ Len(ys) = Len(xs) /\ DOMAIN ys = DOMAIN xs
         /\ ys[i].at = xs[i].at /\ ys[i].told = xs[i].told /\ ys[i].op = xs[i].op
         /\ ys[i].ran = xs[i].ran + 1
         /\ \A j \in DOMAIN xs \ {i} : ys[j] = xs[j]
<1>1. xs[i] \in Actions
  BY ActionAt
<1> DEFINE n == xs[i].ran + 1
<1>2. PICK b : b = [xs[i] EXCEPT !.ran = n]
  OBVIOUS
<1>3. n \in Nat
  BY <1>1, ActionFields
<1>4. ys = With(xs, i, b)
  BY <1>2 DEF With
<1> HIDE DEF n
<1>5. b \in Actions /\ b.at = xs[i].at /\ b.told = xs[i].told /\ b.op = xs[i].op
      /\ b.ran = n
  BY <1>1, <1>2, <1>3 DEF Actions
<1>6. /\ ys \in Seq(Actions) /\ Len(ys) = Len(xs) /\ DOMAIN ys = DOMAIN xs
      /\ ys[i] = b /\ \A j \in DOMAIN xs \ {i} : ys[j] = xs[j]
  <2>1. b \in Actions
    BY <1>5
  <2>2. PICK zs : zs = With(xs, i, b)
    OBVIOUS
  <2>3. /\ zs \in Seq(Actions) /\ Len(zs) = Len(xs) /\ DOMAIN zs = DOMAIN xs
        /\ zs[i] = b /\ \A j \in DOMAIN xs \ {i} : zs[j] = xs[j]
    BY <2>1, <2>2, ActionReplaced
  <2> QED
    BY <1>4, <2>2, <2>3
<1> QED
  BY <1>5, <1>6 DEF n

LEMMA AnswerKeeps ==
  ASSUME CoreInv, NEW p, p \in DOMAIN ports,
         ports[p].process = "serving", ports[p].input # <<>>,
         NEW ok \in BOOLEAN, NEW value \in Values \cup {Absent}, Reply(p, ok, value),
         NEW i, i = Head(ports[p].input),
         Ran(i) \/ (actions' = actions /\ ~ok),
         UNCHANGED <<link, commands, shown, shownFrom>>
  PROVE  CoreInv'
<1>1. /\ i \in Held(ports)
      /\ PortsOK(ports') /\ Len(ports') = Len(ports)
      /\ \A q \in DOMAIN ports : ports'[q].open = ports[q].open
      /\ Held(ports') \subseteq Held(ports) \ {i}
      /\ Replies(ports') \subseteq Replies(ports) \cup {TheReply(i, ok, value)}
      /\ Once(ports')
  <2>1. PortsOK(ports) /\ Once(ports)
    BY DEF CoreInv
  <2> QED
    BY <2>1, ReplyHolds
<1>2. /\ i \in DOMAIN actions /\ actions[i].ran = 0 /\ actions \in Seq(Actions)
      /\ Truthful(actions, Held(ports), Replies(ports))
  BY <1>1 DEF CoreInv, Truthful
<1>3. /\ actions' \in Seq(Actions) /\ Len(actions') = Len(actions)
      /\ DOMAIN actions' = DOMAIN actions
      /\ actions'[i].at = actions[i].at /\ actions'[i].told = actions[i].told
      /\ actions'[i].op = actions[i].op /\ actions'[i].ran \in {0, 1}
      /\ ok => actions'[i].ran = 1
      /\ \A j \in DOMAIN actions \ {i} : actions'[j] = actions[j]
  <2>1. CASE actions' = actions /\ ~ok
    BY <1>2, <2>1
  <2>2. CASE Ran(i)
    <3>1. PICK ys : ys = [actions EXCEPT ![i].ran = @ + 1]
      OBVIOUS
    <3>2. /\ ys \in Seq(Actions) /\ Len(ys) = Len(actions) /\ DOMAIN ys = DOMAIN actions
          /\ ys[i].at = actions[i].at /\ ys[i].told = actions[i].told
          /\ ys[i].op = actions[i].op /\ ys[i].ran = actions[i].ran + 1
          /\ \A j \in DOMAIN actions \ {i} : ys[j] = actions[j]
      BY <1>2, <3>1, RunningAction
    <3>3. actions' = ys
      BY <2>2, <3>1 DEF Ran
    <3> QED
      BY <1>2, <2>2, <3>2, <3>3
  <2> QED
    BY <2>1, <2>2
<1>4. PICK m : m = TheReply(i, ok, value)
  OBVIOUS
<1>5. m.id = i /\ m.ok = ok
  BY <1>4 DEF TheReply
<1>6. Truthful(actions', Held(ports'), Replies(ports'))
  <2> DEFINE H == Held(ports)
             R == Replies(ports)
             H2 == Held(ports')
             R2 == Replies(ports')
             ys == actions'
  <2>1. i \in H /\ H2 \subseteq H \ {i} /\ R2 \subseteq R \cup {m} /\ Truthful(actions, H, R)
    BY <1>1, <1>2, <1>4
  <2>2. /\ DOMAIN ys = DOMAIN actions
        /\ ys[i].at = actions[i].at /\ ys[i].told = actions[i].told
        /\ ys[i].op = actions[i].op /\ ys[i].ran \in {0, 1}
        /\ m.ok => ys[i].ran = 1
        /\ \A j \in DOMAIN actions \ {i} : ys[j] = actions[j]
    BY <1>3, <1>5
  <2> HIDE DEF H, R, H2, R2, ys
  <2>3. Truthful(ys, H2, R2)
    BY <1>5, <2>1, <2>2, AnsweredTruthful
  <2> QED
    BY <2>3 DEF H2, R2, ys
<1>7. commands' = Waiting(actions')
  <2>1. \A j \in DOMAIN actions : actions'[j].at = actions[j].at
    BY <1>3
  <2> QED
    BY <1>3, <2>1 DEF CoreInv, Waiting
<1>8. Current(link', ports', shownFrom')
  BY <1>1, PortOf DEF CoreInv, Current
<1> QED
  BY <1>1, <1>3, <1>6, <1>7, <1>8 DEF CoreInv

-----------------------------------------------------------------------------
(* The helpers among themselves *)

\* At most one holds the lock of the state root, and one that is in the middle of a change
\* of settings still has the order in its pipe.
HelpersInv ==
  /\ \A p, q \in DOMAIN ports :
       ports[p].process \in Alive /\ ports[q].process \in Alive => p = q
  /\ update # NoUpdate =>
       \E p \in DOMAIN ports : ports[p].process = "serving" /\ ports[p].input # <<>>

LEMMA DispatchKeeps ==
  ASSUME CoreInv, SettingsTypeOK, NEW p, p \in DOMAIN ports, Dispatch(p)
  PROVE  CoreInv'
<1> DEFINE i == Head(ports[p].input)
           yes == TRUE
           no == FALSE
<1>1. /\ ports[p].process = "serving" /\ ports[p].input # <<>>
      /\ UNCHANGED <<link, commands, shown, shownFrom>>
  BY DEF Dispatch, Serving, Quiet
<1>2. current \in Values \cup {Absent} /\ yes \in BOOLEAN /\ no \in BOOLEAN /\ yes /\ ~no
  BY DEF SettingsTypeOK
<1>3. \/ Ran(i) /\ (Reply(p, yes, current) \/ Reply(p, yes, Absent))
      \/ (Ran(i) \/ actions' = actions) /\ Reply(p, no, Absent)
      \/ UNCHANGED <<actions, ports>>
  BY DEF Dispatch
<1> HIDE DEF i, yes, no
<1>4. CASE UNCHANGED <<actions, ports>>
  BY <1>1, <1>4 DEF CoreInv
<1>5. i = Head(ports[p].input)
  BY DEF i
<1> QED
  BY <1>1, <1>2, <1>3, <1>4, <1>5, AnswerKeeps

LEMMA ApplyKeeps ==
  ASSUME CoreInv, SettingsTypeOK, HelpersInv, NEW p, p \in DOMAIN ports, Apply(p)
  PROVE  CoreInv'
<1> DEFINE i == Head(ports[p].input)
           yes == TRUE
           no == FALSE
<1>1. /\ ports[p].process = "serving" /\ update # NoUpdate
      /\ UNCHANGED <<link, commands, shown, shownFrom>>
  BY DEF Apply, Quiet
<1>2. update.to \in Values \cup {Absent} /\ yes \in BOOLEAN /\ no \in BOOLEAN /\ yes /\ ~no
  BY DEF SettingsTypeOK
<1>3. ports[p].input # <<>>
  BY <1>1 DEF HelpersInv, Alive
<1>4. \/ Ran(i) /\ Reply(p, yes, update.to)
      \/ actions' = actions /\ Reply(p, no, Absent)
      \/ UNCHANGED <<actions, ports>>
  BY DEF Apply
<1> HIDE DEF i, yes, no
<1>5. CASE UNCHANGED <<actions, ports>>
  BY <1>1, <1>5 DEF CoreInv
<1>6. i = Head(ports[p].input)
  BY DEF i
<1> QED
  BY <1>1, <1>2, <1>3, <1>4, <1>5, <1>6, AnswerKeeps

\* Ports as a step of the extension leaves them: processes and their pipes go on, and a
\* new port's process has only been started.
Steady(qs, ps) ==
  /\ \A p \in DOMAIN ps :
       /\ p \in DOMAIN qs /\ qs[p].process = ps[p].process
       /\ ps[p].input # <<>> => qs[p].input # <<>>
  /\ \A p \in DOMAIN qs \ DOMAIN ps : qs[p].process = "starting"

LEMMA SteadyKeeps ==
  ASSUME HelpersInv, Steady(ports', ports), UNCHANGED update
  PROVE  HelpersInv'
<1>1. \A p \in DOMAIN ports' : ports'[p].process \in Alive =>
        p \in DOMAIN ports /\ ports[p].process \in Alive
  BY DEF Steady, Alive
<1> QED
  BY <1>1 DEF HelpersInv, Steady

LEMMA ClosingSteady ==
  ASSUME NEW ps, PortsOK(ps), NEW p, p \in 0 .. Len(ps)
  PROVE  Steady(Closing(ps, p), ps)
<1>1. CASE p = 0
  BY <1>1 DEF Closing, Steady
<1>2. CASE p # 0
  <2>1. p \in DOMAIN ps
    BY <1>2, PortOf
  <2>2. PICK y : y = [ps[p] EXCEPT !.open = FALSE, !.output = <<>>]
    OBVIOUS
  <2>3. PICK z : z = [ps[p] EXCEPT !.open = FALSE]
    OBVIOUS
  <2>4. y = [z EXCEPT !.output = <<>>]
    BY <2>2, <2>3
  <2>5. z.process = ps[p].process /\ z.input = ps[p].input
    BY <2>3
  <2>6. y.process = ps[p].process /\ y.input = ps[p].input
    BY <2>4, <2>5
  <2>7. Closing(ps, p) = [ps EXCEPT ![p] = y]
    BY <1>2, <2>2 DEF Closing
  <2> QED
    BY <2>1, <2>6, <2>7 DEF Steady
<1> QED
  BY <1>1, <1>2

LEMMA SteadyTransitive ==
  ASSUME NEW ps, NEW qs, NEW rs, Steady(qs, ps), Steady(rs, qs)
  PROVE  Steady(rs, ps)
<1>1. \A p \in DOMAIN rs \ DOMAIN ps : rs[p].process = "starting"
  BY DEF Steady
<1> QED
  BY <1>1 DEF Steady

LEMMA ReadSteady ==
  ASSUME PortsOK(ports), NEW p, p \in DOMAIN ports
  PROVE  Steady(Read(p), ports)
<1>1. PICK y : y = [ports[p] EXCEPT !.output = Tail(@)]
  OBVIOUS
<1>2. y.process = ports[p].process /\ y.input = ports[p].input
  BY <1>1
<1>3. Read(p) = [ports EXCEPT ![p] = y]
  BY <1>1 DEF Read
<1> QED
  BY <1>2, <1>3 DEF Steady

LEMMA NewPortSteady ==
  ASSUME NEW ps, PortsOK(ps)
  PROVE  Steady(Append(ps, NewPort), ps)
<1> DEFINE qs == Append(ps, NewPort)
<1>1. /\ PortsOK(qs) /\ Len(qs) = Len(ps) + 1
      /\ \A p \in DOMAIN ps : p \in DOMAIN qs /\ qs[p] = ps[p]
      /\ qs[Len(ps) + 1] = NewPort
  BY NewPortHolds
<1>2. Len(ps) \in Nat /\ DOMAIN ps = 1 .. Len(ps) /\ DOMAIN qs = 1 .. Len(qs)
  BY <1>1, PortOf
<1> HIDE DEF qs
<1>3. \A p \in DOMAIN qs \ DOMAIN ps : p = Len(ps) + 1
  BY <1>1, <1>2
<1>4. NewPort.process = "starting"
  BY DEF NewPort
<1>5. Steady(qs, ps)
  BY <1>1, <1>3, <1>4 DEF Steady
<1> QED
  BY <1>5 DEF qs

\* What a step of the extension does to the ports.
ExtensionPorts ==
  \/ ports' = ports
  \/ ports' = Append(ports, NewPort)
  \/ ports' = Closing(Append(ports, NewPort), Len(ports) + 1)
  \/ \E p \in DOMAIN ports :
       /\ ports[p].output # <<>>
       /\ ports' = Read(p) \/ ports' = Closing(Read(p), link.port)
  \/ \E p \in 0 .. Len(ports) : ports' = Closing(ports, p)
  \/ \E i \in DOMAIN actions : actions[i].at = "called" /\ ports' = Posted(i)

LEMMA ExtensionSteady ==
  ASSUME CoreInv, ExtensionPorts
  PROVE  Steady(ports', ports)
<1>1. PortsOK(ports) /\ link.port \in 0 .. Len(ports)
  BY DEF CoreInv, Current
<1>2. CASE ports' = ports
  BY <1>2 DEF Steady
<1>3. CASE ports' = Append(ports, NewPort)
  BY <1>1, <1>3, NewPortSteady
<1>8. CASE ports' = Closing(Append(ports, NewPort), Len(ports) + 1)
  <2> DEFINE qs == Append(ports, NewPort)
  <2>1. PortsOK(qs) /\ Len(qs) = Len(ports) + 1 /\ Len(ports) \in Nat
    BY <1>1, NewPortHolds, PortOf
  <2>2. Steady(qs, ports)
    BY <1>1, NewPortSteady
  <2>3. ports' = Closing(qs, Len(ports) + 1)
    BY <1>8
  <2> HIDE DEF qs
  <2>4. Steady(ports', qs)
    BY <2>1, <2>3, ClosingSteady
  <2> QED
    BY <2>2, <2>4, SteadyTransitive
<1>4. ASSUME NEW p \in DOMAIN ports, ports' = Read(p)
      PROVE  Steady(ports', ports)
  BY <1>1, <1>4, ReadSteady
<1>5. ASSUME NEW p \in DOMAIN ports, ports' = Closing(Read(p), link.port),
             ports[p].output # <<>>
      PROVE  Steady(ports', ports)
  <2>1. PortsOK(Read(p)) /\ Len(Read(p)) = Len(ports)
    BY <1>5, ReadKeepsPorts
  <2>2. Steady(Read(p), ports)
    BY <1>1, ReadSteady
  <2>3. Steady(ports', Read(p))
    BY <1>1, <1>5, <2>1, ClosingSteady
  <2> QED
    BY <2>2, <2>3, SteadyTransitive
<1>6. ASSUME NEW p \in 0 .. Len(ports), ports' = Closing(ports, p)
      PROVE  Steady(ports', ports)
  BY <1>1, <1>6, ClosingSteady
<1>7. ASSUME NEW i \in DOMAIN actions, actions[i].at = "called", ports' = Posted(i)
      PROVE  Steady(ports', ports)
  <2>1. i \in Ids
    <3>1. DOMAIN actions = 1 .. Len(actions) /\ Len(actions) \in Nat
      BY LenProperties DEF CoreInv
    <3> QED
      BY <3>1, ConnectionBounds DEF CoreInv, Ids
  <2>2. i \notin Held(ports)
    BY <1>7 DEF CoreInv, Truthful, Early
  <2>3. /\ PortsOK(Posted(i)) /\ Len(Posted(i)) = Len(ports)
        /\ \A p \in DOMAIN ports :
             /\ Posted(i)[p].process = ports[p].process
             /\ ports[p].input # <<>> => Posted(i)[p].input # <<>>
    BY <1>1, <2>1, <2>2, PostedHolds DEF CoreInv
  <2>4. DOMAIN Posted(i) = DOMAIN ports
    BY <1>1, <2>3, PortOf
  <2> QED
    BY <1>7, <2>3, <2>4 DEF Steady
<1> QED
  BY <1>2, <1>3, <1>4, <1>5, <1>6, <1>7, <1>8 DEF ExtensionPorts

\* Steps of the extension: what a page, a port or a timer makes it do.
ExtensionStep ==
  \/ PageStep
  \/ \E i \in DOMAIN actions : Continue(i)
  \/ HandshakeTimeout \/ \E i \in commands : CommandTimeout(i)
  \/ \E p \in DOMAIN ports : TurnOf(p)

LEMMA ConnectPorts ==
  ASSUME CoreInv, NEW xs, NEW i, NEW wait, NEW resume, Connect(xs, i, wait, resume)
  PROVE  ExtensionPorts
BY DEF Connect, RejectWith, RejectOn, ExtensionPorts, CoreInv, Current

LEMMA DeliverPorts ==
  ASSUME CoreInv, NEW p, p \in DOMAIN ports, Deliver(p)
  PROVE  ExtensionPorts
<1>1. ports[p].output # <<>>
  BY DEF Deliver
<1>2. ports' = Read(p) \/ ports' = Closing(Read(p), link.port)
  BY DEF Deliver, ReceiveHello, ReceiveReply, ReceivePage, RejectWith, RejectOn
<1> QED
  BY <1>1, <1>2 DEF ExtensionPorts

LEMMA ExtensionStepPorts == CoreInv /\ ExtensionStep => ExtensionPorts /\ UNCHANGED update
<1> SUFFICES ASSUME CoreInv, ExtensionStep PROVE ExtensionPorts /\ UNCHANGED update
  OBVIOUS
<1>1. UNCHANGED update
  BY DEF ExtensionStep, PageStep, Ask, Continue, HandshakeTimeout, CommandTimeout, TurnOf,
         Deliver, Disconnected, settingsVars
<1>2. link.port \in 0 .. Len(ports)
  BY DEF CoreInv, Current
<1>3. CASE PageStep
  <2>1. PICK xs, i, wait, resume : Connect(xs, i, wait, resume)
    BY <1>3 DEF PageStep, Ask
  <2> QED
    BY <1>1, <2>1, ConnectPorts
<1>4. ASSUME NEW i \in DOMAIN actions, Continue(i) PROVE ExtensionPorts
  <2>1. CASE Connect(actions, i, "calling", "called")
    BY <1>1, <2>1, ConnectPorts
  <2>2. CASE actions[i].at = "called" /\ (Refuse(i) \/ Post(i) \/ PostThrows(i))
    BY <1>2, <2>2 DEF Refuse, Post, PostThrows, ExtensionPorts
  <2> QED
    BY <1>4, <2>1, <2>2 DEF Continue
<1>5. CASE HandshakeTimeout \/ \E i \in commands : CommandTimeout(i)
  <2>1. Reject
    BY <1>5 DEF HandshakeTimeout, CommandTimeout
  <2> QED
    BY <1>1, <1>2, <2>1 DEF Reject, RejectWith, RejectOn, ExtensionPorts
<1>6. ASSUME NEW p \in DOMAIN ports, TurnOf(p) PROVE ExtensionPorts
  <2>1. CASE Deliver(p)
    BY <2>1, DeliverPorts
  <2>2. CASE Disconnected(p)
    <3>1. p \in 0 .. Len(ports)
      BY PortOf DEF CoreInv
    <3> QED
      BY <1>2, <2>2, <3>1 DEF Disconnected, Reject, RejectWith, RejectOn, ExtensionPorts
  <2> QED
    BY <1>6, <2>1, <2>2 DEF TurnOf
<1> QED
  BY <1>1, <1>3, <1>4, <1>5, <1>6 DEF ExtensionStep

LEMMA ExtensionStepKeeps == CoreInv /\ ExtensionStep => CoreInv'
<1> SUFFICES ASSUME CoreInv, ExtensionStep PROVE CoreInv'
  OBVIOUS
<1>1. CASE PageStep
  BY <1>1, AskListens, ListenStepKeeps DEF PageStep
<1>2. ASSUME NEW i \in DOMAIN actions, Continue(i) PROVE CoreInv'
  BY <1>2, ContinueKeeps
<1>3. CASE HandshakeTimeout \/ \E i \in commands : CommandTimeout(i)
  BY <1>3, RejectListens, ListenStepKeeps DEF HandshakeTimeout, CommandTimeout
<1>4. ASSUME NEW p \in DOMAIN ports, TurnOf(p) PROVE CoreInv'
  BY <1>4, DeliverListens, DisconnectedListens, ListenStepKeeps DEF TurnOf
<1> QED
  BY <1>1, <1>2, <1>3, <1>4 DEF ExtensionStep

LEMMA HelperStepKeeps ==
  ASSUME CoreInv, SettingsTypeOK, HelpersInv, NEW p, p \in DOMAIN ports, HelperStep(p)
  PROVE  CoreInv'
<1>1. CASE StartHelper(p)
  BY <1>1, StartHelperListens, ListenStepKeeps
<1>2. CASE Greet(p)
  BY <1>2, GreetListens, ListenStepKeeps
<1>3. CASE SendSnapshot(p) \/ SendOverflow(p) \/ Exit(p) \/ Die(p)
  BY <1>3, OtherHelperListens, ListenStepKeeps
<1>4. CASE Dispatch(p)
  BY <1>4, DispatchKeeps
<1>5. CASE Apply(p)
  BY <1>5, ApplyKeeps
<1> QED
  BY <1>1, <1>2, <1>3, <1>4, <1>5 DEF HelperStep

\* What a helper's step leaves of its port.
LEMMA HelperPorts ==
  ASSUME CoreInv, NEW p, p \in DOMAIN ports,
         NEW process, NEW input, NEW messages, NEW written,
         Helper(p, process, input, messages, written)
  PROVE  /\ DOMAIN ports' = DOMAIN ports
         /\ ports'[p].process = process /\ ports'[p].input = input
         /\ \A q \in DOMAIN ports \ {p} : ports'[q] = ports[q]
<1>1. PICK y : y = WrittenPort(ports[p], process, input, messages, written)
  OBVIOUS
<1>2. y.process = process /\ y.input = input
  BY <1>1 DEF WrittenPort
<1>3. ports' = [ports EXCEPT ![p] = y]
  BY <1>1, HelperWrites DEF CoreInv
<1> QED
  BY <1>2, <1>3

LEMMA ReplyPorts ==
  ASSUME CoreInv, NEW p, p \in DOMAIN ports, NEW ok, NEW value, Reply(p, ok, value)
  PROVE  /\ DOMAIN ports' = DOMAIN ports /\ ports'[p].process = "serving"
         /\ \A q \in DOMAIN ports \ {p} : ports'[q] = ports[q]
BY HelperPorts DEF Reply

\* A helper that does not take the lock, with no change of settings under way after it.
LEMMA HelperRests ==
  ASSUME HelpersInv, NEW p, p \in DOMAIN ports, DOMAIN ports' = DOMAIN ports,
         \A q \in DOMAIN ports \ {p} : ports'[q] = ports[q],
         ports'[p].process \in Alive =>
           ports[p].process \in Alive \/ LockFree,
         update' = NoUpdate
  PROVE  HelpersInv'
BY DEF HelpersInv, NoUpdate, LockFree

LEMMA HelperStepHelpers ==
  ASSUME CoreInv, HelpersInv, NEW p, p \in DOMAIN ports, HelperStep(p)
  PROVE  HelpersInv'
<1>1. CASE StartHelper(p) /\ LockFree
  <2>1. LoadSettings /\ Helper(p, "listening", ports[p].input, <<>>, 0)
    BY <1>1 DEF StartHelper
  <2>2. update' = NoUpdate
    BY <2>1 DEF LoadSettings
  <2> QED
    BY <1>1, <2>1, <2>2, HelperPorts, HelperRests
<1>2. CASE StartHelper(p) /\ ~LockFree
  <2>1. /\ Helper(p, "gone", <<>>, <<>>, 0) /\ UNCHANGED settingsVars
        /\ ports[p].process = "starting"
    BY <1>2 DEF StartHelper
  <2>2. /\ DOMAIN ports' = DOMAIN ports /\ ports'[p].process = "gone"
        /\ \A q \in DOMAIN ports \ {p} : ports'[q] = ports[q]
    BY <2>1, HelperPorts
  <2> QED
    BY <2>1, <2>2 DEF HelpersInv, Alive, settingsVars, NoUpdate
<1>3. CASE Greet(p)
  <2>1. CASE \E messages : Helper(p, "gone", <<>>, messages, 0) /\ LoseProcess
    <3>1. update' = NoUpdate
      BY <2>1 DEF LoseProcess
    <3>2. "gone" \notin Alive
      BY DEF Alive
    <3> QED
      BY <2>1, <3>1, <3>2, HelperPorts, HelperRests
  <2>2. CASE \E messages, input :
               /\ ports[p].process = "listening"
               /\ Helper(p, "greeted", input, messages, 0) /\ UNCHANGED settingsVars
    <3>1. /\ DOMAIN ports' = DOMAIN ports /\ ports'[p].process = "greeted"
          /\ \A q \in DOMAIN ports \ {p} : ports'[q] = ports[q]
          /\ UNCHANGED update /\ ports[p].process = "listening"
      BY <2>2, HelperPorts DEF settingsVars
    <3> QED
      BY <3>1 DEF HelpersInv, Alive, NoUpdate
  <2> QED
    BY <1>3, <2>1, <2>2 DEF Greet
<1>4. CASE (SendSnapshot(p) \/ SendOverflow(p))
  <2>1. /\ \E messages : Helper(p, "serving", ports[p].input, messages, 2)
        /\ UNCHANGED settingsVars /\ ports[p].process \in {"greeted", "serving"}
    BY <1>4 DEF SendSnapshot, SendOverflow, Snapshot, Serving
  <2>2. /\ DOMAIN ports' = DOMAIN ports /\ ports'[p].process = "serving"
        /\ ports'[p].input = ports[p].input
        /\ \A q \in DOMAIN ports \ {p} : ports'[q] = ports[q]
        /\ UNCHANGED update
    BY <2>1, HelperPorts DEF settingsVars
  <2> QED
    BY <2>1, <2>2 DEF HelpersInv, Alive, NoUpdate
<1>5. CASE Exit(p) \/ Die(p)
  <2>1. Helper(p, "gone", <<>>, <<>>, 0) /\ LoseProcess
    BY <1>5 DEF Exit, Die
  <2>2. update' = NoUpdate /\ "gone" \notin Alive
    BY <2>1 DEF LoseProcess, Alive
  <2> QED
    BY <2>1, <2>2, HelperPorts, HelperRests
<1>6. CASE Dispatch(p)
  <2>0. ports[p].process = "serving" /\ update = NoUpdate /\ ports[p].input # <<>>
    BY <1>6 DEF Dispatch, Serving
  <2>1. CASE \E ok, value : Reply(p, ok, value) /\ UNCHANGED settingsVars
    <3>1. update' = NoUpdate /\ "serving" \in Alive
      BY <2>0, <2>1 DEF settingsVars, Alive
    <3> QED
      BY <2>0, <2>1, <3>1, ReplyPorts, HelperRests
  <2>2. CASE UNCHANGED ports
    BY <2>0, <2>2 DEF HelpersInv, NoUpdate
  <2> QED
    BY <1>6, <2>1, <2>2 DEF Dispatch, RefuseUpdate
<1>7. CASE Apply(p)
  <2>0. ports[p].process = "serving" /\ update # NoUpdate /\ "serving" \in Alive
    BY <1>7 DEF Apply, Alive
  <2>1. CASE \E ok, value : Reply(p, ok, value) /\ (ReplaceFile \/ SaveFails)
    <3>1. update' = NoUpdate
      BY <2>1 DEF ReplaceFile, SaveFails
    <3> QED
      BY <2>0, <2>1, <3>1, ReplyPorts, HelperRests
  <2>2. CASE UNCHANGED ports
    BY <2>0, <2>2 DEF HelpersInv, NoUpdate
  <2> QED
    BY <1>7, <2>1, <2>2 DEF Apply
<1> QED
  BY <1>1, <1>2, <1>3, <1>4, <1>5, <1>6, <1>7 DEF HelperStep

-----------------------------------------------------------------------------
(* The theorems *)

LEMMA SettingsTypeInductive == SettingsTypeOK /\ SettingsStep => SettingsTypeOK'
<1> SUFFICES ASSUME SettingsTypeOK, SettingsStep PROVE SettingsTypeOK'
  OBVIOUS
<1> USE SettingsAssumption DEF SettingsTypeOK, NoUpdate, Loaded
<1>1. CASE LoadSettings
  BY <1>1 DEF LoadSettings
<1>2. ASSUME NEW v \in Values, BeginUpdate(v) PROVE SettingsTypeOK'
  BY <1>2 DEF BeginUpdate
<1>3. CASE WriteTemporary
  BY <1>3 DEF WriteTemporary
<1>4. CASE ReplaceFile
  BY <1>4 DEF ReplaceFile
<1>5. CASE SaveFails
  BY <1>5 DEF SaveFails, Leftovers
<1>6. CASE LoseProcess
  BY <1>6 DEF LoseProcess, Leftovers
<1>7. CASE UNCHANGED settingsVars
  BY <1>7 DEF settingsVars
<1> QED
  BY <1>1, <1>2, <1>3, <1>4, <1>5, <1>6, <1>7 DEF SettingsStep

Counted == faults \in Nat /\ overflows \in Nat

LEMMA CountedInductive == Counted /\ [Next]_vars => Counted'
<1> SUFFICES ASSUME Counted, [Next]_vars PROVE Counted'
  OBVIOUS
<1>1. faults' \in {faults, faults + 1} /\ overflows' \in {overflows, overflows + 1}
  <2>1. CASE PageStep
    BY <2>1 DEF PageStep, Ask, Connect, Fault
  <2>2. CASE \E i \in DOMAIN actions : Continue(i)
    <3>1. PICK i \in DOMAIN actions : Continue(i)
      BY <2>2
    <3>2. CASE Connect(actions, i, "calling", "called")
      BY <3>1, <3>2 DEF Continue, Connect, Fault
    <3>3. CASE Refuse(i) \/ Post(i) \/ PostThrows(i)
      BY <3>1, <3>3 DEF Continue, Refuse, Post, PostThrows
    <3> QED
      BY <3>1, <3>2, <3>3 DEF Continue
  <2>3. CASE HandshakeTimeout \/ \E i \in commands : CommandTimeout(i)
    BY <2>3 DEF HandshakeTimeout, CommandTimeout
  <2>4. ASSUME NEW p \in DOMAIN ports, TurnOf(p)
        PROVE  UNCHANGED <<faults, overflows>>
    BY <2>4 DEF TurnOf, Deliver, Disconnected
  <2>5. ASSUME NEW p \in DOMAIN ports, HelperStep(p)
        PROVE  faults' \in {faults, faults + 1} /\ overflows' \in {overflows, overflows + 1}
    BY <2>5 DEF HelperStep, StartHelper, Greet, SendSnapshot, SendOverflow, Dispatch, Apply,
                Exit, Die, Fault, Quiet
  <2>6. CASE UNCHANGED vars
    BY <2>6 DEF vars
  <2> QED
    BY <2>1, <2>2, <2>3, <2>4, <2>5, <2>6 DEF Next
<1> QED
  BY <1>1 DEF Counted

Inv == CoreInv /\ SettingsTypeOK /\ HelpersInv /\ Counted

LEMMA InitInv == Init => Inv
<1> SUFFICES ASSUME Init PROVE Inv
  OBVIOUS
<1>1. actions = <<>> /\ link = Idle /\ commands = {} /\ shown = Absent /\ ports = <<>>
      /\ shownFrom = 0 /\ Counted /\ SettingsInit
  BY DEF Init, Counted
<1>2. SettingsTypeOK /\ update = NoUpdate
  BY <1>1 DEF SettingsInit, SettingsTypeOK, NoUpdate
<1>3. HelpersInv
  BY <1>1, <1>2 DEF HelpersInv
<1>4. actions \in Seq(Actions) /\ Len(actions) = 0 /\ DOMAIN actions = {}
  BY <1>1
<1>5. PortsOK(ports) /\ Len(ports) = 0 /\ DOMAIN ports = {} /\ Once(ports)
  BY <1>1 DEF PortsOK, Once
<1>6. Held(ports) = {} /\ Replies(ports) = {}
  BY <1>5 DEF Held, Replies
<1>7. Truthful(actions, Held(ports), Replies(ports))
  BY <1>4, <1>6 DEF Truthful
<1>8. link \in LinkType /\ link.port = 0
  <2> DEFINE no == FALSE
  <2>1. no \in BOOLEAN /\ MaxPorts \in Nat
    BY ConnectionBounds
  <2>2. link = [port |-> 0, pending |-> no, hello |-> no, assembling |-> no, next |-> 0,
                timer |-> no]
    BY <1>1 DEF Idle
  <2> HIDE DEF no
  <2> QED
    BY <2>1, <2>2 DEF LinkType
<1>9. Current(link, ports, shownFrom)
  BY <1>5, <1>8 DEF Current
<1>10. commands = Waiting(actions) /\ Cardinality(commands) <= Limit
  <2>1. Cardinality({}) = 0
    BY FS_EmptySet
  <2> QED
    BY <1>1, <1>4, <2>1, ConnectionBounds DEF Waiting
<1>11. Len(actions) <= MaxActions /\ Len(ports) <= MaxPorts /\ shownFrom \in 0 .. MaxPorts
  BY <1>1, <1>4, <1>5, ConnectionBounds
<1>12. CoreInv
  BY <1>1, <1>4, <1>5, <1>7, <1>8, <1>9, <1>10, <1>11 DEF CoreInv
<1> QED
  BY <1>1, <1>2, <1>3, <1>12 DEF Inv

LEMMA NextInv == Inv /\ [Next]_vars => Inv'
<1> SUFFICES ASSUME Inv, [Next]_vars PROVE Inv'
  OBVIOUS
<1>1. SettingsTypeOK' /\ Counted'
  BY OnlySettingsSteps, SettingsTypeInductive, CountedInductive DEF Inv
<1>2. CASE ExtensionStep
  <2>1. CoreInv'
    BY <1>2, ExtensionStepKeeps DEF Inv
  <2>2. HelpersInv'
    BY <1>2, ExtensionStepPorts, ExtensionSteady, SteadyKeeps DEF Inv
  <2> QED
    BY <1>1, <2>1, <2>2 DEF Inv
<1>3. ASSUME NEW p \in DOMAIN ports, HelperStep(p) PROVE Inv'
  BY <1>1, <1>3, HelperStepKeeps, HelperStepHelpers DEF Inv
<1>4. CASE UNCHANGED vars
  <2>1. CoreInv'
    BY <1>4 DEF Inv, vars, extension, CoreInv
  <2>2. HelpersInv'
    BY <1>4 DEF Inv, vars, settingsVars, HelpersInv, NoUpdate
  <2> QED
    BY <1>1, <2>1, <2>2 DEF Inv
<1> QED
  BY <1>2, <1>3, <1>4 DEF Next, ExtensionStep

LEMMA InvHolds == Spec => []Inv
BY InitInv, NextInv, PTL DEF Spec

\* Every action, the connection, the pending commands and the settings are what they may
\* be, and no more commands are pending than the limit allows.
THEOREM ConnectionTypeCorrect == Spec => []TypeOK
<1>1. Inv => TypeOK
  <2> SUFFICES ASSUME Inv PROVE TypeOK
    OBVIOUS
  <2>1. commands \subseteq DOMAIN actions
    BY DEF Inv, CoreInv, Waiting
  <2>2. \A p \in DOMAIN ports : ports[p].process \in Alive \cup {"starting", "gone"}
    BY PortFields DEF Inv, CoreInv, PortsOK
  <2> QED
    BY <2>1, <2>2 DEF Inv, CoreInv, Counted, TypeOK, LinkType
<1> QED
  BY <1>1, InvHolds, PTL

\* No command takes effect twice, one that a page is told succeeded has taken effect, and
\* one that was rejected before it was posted never does, whatever was lost, closed, timed
\* out or restarted in between.
THEOREM AnswersAlwaysTrue == Spec => []AnswersAreTrue
<1>1. Inv => AnswersAreTrue
  <2> SUFFICES ASSUME Inv, NEW i \in DOMAIN actions
               PROVE  /\ actions[i].ran <= 1
                      /\ actions[i].told = "ok" => actions[i].ran = 1
                      /\ actions[i].told = "refused" => actions[i].ran = 0
    BY DEF AnswersAreTrue
  <2>1. Truthful(actions, Held(ports), Replies(ports))
    BY DEF Inv, CoreInv
  <2> QED
    BY <2>1 DEF Truthful
<1> QED
  BY <1>1, InvHolds, PTL

\* What is shown as connected is the table of the port that is open now.
THEOREM ReadyAlwaysCurrent == Spec => []ReadyIsCurrent
<1>1. Inv => ReadyIsCurrent
  BY DEF Inv, CoreInv, Current, ReadyIsCurrent, Connected
<1> QED
  BY <1>1, InvHolds, PTL
=============================================================================
