----------------------------- MODULE KcdProofs ------------------------------
(***************************************************************************)
(* The keyboard command dispatcher implements the command line it promises, *)
(* for every number of tasks and every length of the buffer.  The proof     *)
(* says what one pass of the loop does to the KCD's memory, message by      *)
(* message, and then maps each pass to a step of CommandLine.               *)
(***************************************************************************)
EXTENDS Kcd, TLAPS

\* Besides the types: tasks in the table have registered, and what is counted in
\* the buffer was typed.
KcdInv ==
  /\ KcdTypeOK
  /\ \A i \in 0 .. 61 : kcd.commands[i] \in Senders \cup {MAX_TASKS}
  /\ \A i \in 0 .. BUF - 1 : i < kcd.count => kcd.command_string[i] \in Keys

-----------------------------------------------------------------------------
(* The table of commands.                                                  *)

LEMMA IndexType ==
  ASSUME NEW c, IsCommand(c)
  PROVE  CommandIndex(c) \in 0 .. 61
BY DEF IsCommand, CommandIndex, Digit, Upper, Lower

LEMMA IndexInjective ==
  ASSUME NEW c, NEW d, IsCommand(c), IsCommand(d), CommandIndex(c) = CommandIndex(d)
  PROVE  c = d
BY DEF IsCommand, CommandIndex, Digit, Upper, Lower

\* A store inside the array changes one element.
LEMMA StoredInside ==
  ASSUME NEW g, NEW i, NEW v, g = [j \in DOMAIN g |-> g[j]],
         DOMAIN g \cup {i} = DOMAIN g
  PROVE  Stored(g, i, v) = [g EXCEPT ![i] = v]
BY DEF Stored

-----------------------------------------------------------------------------
(* One pass of the loop.                                                   *)

KeyMessage(c) == [from |-> TID_UART_IRQ, type |-> KEY_IN, body |-> <<c>>]

\* The memory once a byte has been received.
Heard(c) == [kcd EXCEPT !.msg_body = c]

LEMMA KcdFields ==
  ASSUME NEW k \in KcdState
  PROVE  /\ k.commands \in [0 .. 61 -> 0 .. MAX_TASKS]
         /\ k.command_string \in [0 .. BUF - 1 -> Byte]
         /\ k.count \in 0 .. BUF + 1
         /\ k.msg_body \in Byte
BY DEF KcdState

LEMMA HeardType ==
  ASSUME KcdInv, NEW c \in Byte
  PROVE  /\ Heard(c) \in KcdState
         /\ Heard(c).commands = kcd.commands
         /\ Heard(c).command_string = kcd.command_string
         /\ Heard(c).count = kcd.count
         /\ Heard(c).msg_body = c
BY DEF KcdInv, KcdTypeOK, KcdState, Heard

\* What the KCD stores goes inside its arrays.
LEMMA CommandStored ==
  ASSUME KcdInv, NEW k \in KcdState, NEW c, IsCommand(c), NEW t
  PROVE  Stored(k.commands, CommandIndex(c), t) = [k.commands EXCEPT ![CommandIndex(c)] = t]
<1> PICK g, i : g = k.commands /\ i = CommandIndex(c)
  OBVIOUS
<1>1. g \in [0 .. 61 -> 0 .. MAX_TASKS] /\ i \in 0 .. 61
  BY KcdFields, IndexType
<1>2. g = [j \in DOMAIN g |-> g[j]] /\ DOMAIN g \cup {i} = DOMAIN g
  BY <1>1
<1>3. Stored(g, i, t) = [g EXCEPT ![i] = t]
  <2>1. [j \in DOMAIN g \cup {i} |-> IF j = i THEN t ELSE g[j]]
          = [j \in DOMAIN g |-> IF j = i THEN t ELSE g[j]]
    BY <1>2
  <2>2. [g EXCEPT ![i] = t] = [j \in DOMAIN g |-> IF j = i THEN t ELSE g[j]]
    OBVIOUS
  <2> QED BY <2>1, <2>2 DEF Stored
<1> QED BY <1>3

LEMMA KeyStoredInside ==
  ASSUME KcdInv, NEW c, kcd.count < BUF
  PROVE  Stored(kcd.command_string, kcd.count, c) = [kcd.command_string EXCEPT ![kcd.count] = c]
<1> PICK g, i : g = kcd.command_string /\ i = kcd.count
  OBVIOUS
<1>1. g \in [0 .. BUF - 1 -> Byte] /\ i \in 0 .. BUF + 1
  BY KcdFields DEF KcdInv, KcdTypeOK
<1>2. i \in 0 .. BUF - 1
  BY <1>1, KcdAssumption
<1>3. g = [j \in DOMAIN g |-> g[j]] /\ DOMAIN g \cup {i} = DOMAIN g
  BY <1>1, <1>2
<1>4. Stored(g, i, c) = [g EXCEPT ![i] = c]
  BY <1>3, StoredInside
<1> QED BY <1>4

LEMMA ReceiveByte ==
  ASSUME KcdInv, NEW f, NEW y, NEW c,
         Receive([from |-> f, type |-> y, body |-> <<c>>])
  PROVE  LET h == CASE y = KCD_REG -> NoCommand(Register(Heard(c), f))
                    [] y = KEY_IN /\ f = TID_UART_IRQ /\ Heard(c).msg_body # CR ->
                         NoCommand(StoreKey(Heard(c)))
                    [] y = KEY_IN /\ f = TID_UART_IRQ /\ Heard(c).msg_body = CR ->
                         LET to == Addressee(Heard(c))
                             sends == to < MAX_TASKS /\ to \notin Dormant
                         IN  [kcd |-> AfterEnter(Heard(c), sends),
                              out |-> IF sends THEN <<CommandMessage(Heard(c), to)>> ELSE <<>>]
                    [] OTHER -> NoCommand(Heard(c))
         IN  kcd' = h.kcd /\ sent' = h.out /\ alive' = alive
<1> DEFINE m == [from |-> f, type |-> y, body |-> <<c>>]
<1>1. Fits(m) /\ Received(kcd, m) = Heard(c)
  BY DEF Fits, Received, Heard
<1>2. m.from = f /\ m.type = y
  OBVIOUS
<1> HIDE DEF m
<1>3. Receive(m)
  BY DEF m
<1>4. /\ kcd' = Handle(kcd, m, Dormant).kcd
      /\ sent' = Handle(kcd, m, Dormant).out
      /\ alive' = alive
  BY <1>1, <1>3 DEF Receive
<1> QED BY <1>1, <1>2, <1>4 DEF Handle

LEMMA KeyStored ==
  ASSUME KcdInv, NEW c \in Keys, c # CR, Receive(KeyMessage(c))
  PROVE  /\ kcd' = StoreKey(Heard(c))
         /\ sent' = <<>> /\ alive' = alive
<1>1. Heard(c).msg_body = c
  BY HeardType, InputAssumption
<1> QED BY <1>1, ReceiveByte DEF KeyMessage, NoCommand, KEY_IN, KCD_REG

LEMMA EnterHeard ==
  ASSUME KcdInv, CR \in Keys, Receive(KeyMessage(CR))
  PROVE  LET to == Addressee(Heard(CR))
             sends == to < MAX_TASKS /\ to \notin Dormant
         IN  /\ kcd' = AfterEnter(Heard(CR), sends)
             /\ sent' = IF sends THEN <<CommandMessage(Heard(CR), to)>> ELSE <<>>
             /\ alive' = alive
<1>1. Heard(CR).msg_body = CR
  BY HeardType, InputAssumption
<1> QED BY <1>1, ReceiveByte DEF KeyMessage, KEY_IN, KCD_REG

LEMMA Registered ==
  ASSUME KcdInv, NEW t, NEW c, Receive([from |-> t, type |-> KCD_REG, body |-> <<c>>])
  PROVE  kcd' = Register(Heard(c), t) /\ sent' = <<>> /\ alive' = alive
BY ReceiveByte DEF NoCommand, KCD_REG, KEY_IN

\* Messages too long for the buffer, without a body, or of another kind.
LEMMA Ignored ==
  ASSUME KcdInv, NEW m, Receive(m),
         \/ ~Fits(m)
         \/ m.type # KCD_REG /\ ~(m.type = KEY_IN /\ m.from = TID_UART_IRQ)
  PROVE  kcd' \in {kcd, Received(kcd, m)} /\ sent' = <<>> /\ alive' = alive
<1>1. CASE ~Fits(m)
  BY <1>1 DEF Receive
<1>2. CASE Fits(m) /\ m.type # KCD_REG /\ ~(m.type = KEY_IN /\ m.from = TID_UART_IRQ)
  <2>1. /\ kcd' = Handle(kcd, m, Dormant).kcd
        /\ sent' = Handle(kcd, m, Dormant).out
        /\ alive' = alive
    BY <1>2 DEF Receive
  <2>2. Handle(kcd, m, Dormant) = NoCommand(Received(kcd, m))
    BY <1>2 DEF Handle
  <2> QED BY <2>1, <2>2 DEF NoCommand
<1> QED BY <1>1, <1>2

-----------------------------------------------------------------------------
(* The invariant.                                                          *)

\* Storing a byte in the message buffer does not matter to it.
LEMMA HeardInv ==
  ASSUME KcdInv, NEW c \in Byte, kcd' = Heard(c), alive' \subseteq Senders
  PROVE  KcdInv'
BY HeardType DEF KcdInv, KcdTypeOK

LEMMA StoreKeyInv ==
  ASSUME KcdInv, NEW c \in Keys, kcd' = StoreKey(Heard(c)), alive' = alive
  PROVE  KcdInv'
<1>1. c \in Byte /\ BUF \in Nat
  BY InputAssumption, KcdAssumption
<1>2. /\ Heard(c) \in KcdState
      /\ Heard(c).commands = kcd.commands
      /\ Heard(c).command_string = kcd.command_string
      /\ Heard(c).count = kcd.count
      /\ Heard(c).msg_body = c
  BY <1>1, HeardType
<1>3. kcd.count \in 0 .. BUF + 1 /\ kcd.command_string \in [0 .. BUF - 1 -> Byte]
  BY DEF KcdInv, KcdTypeOK, KcdState
<1>4. CASE kcd.count < BUF
  <2> DEFINE s == [kcd.command_string EXCEPT ![kcd.count] = c]
  <2>1. s = Stored(kcd.command_string, kcd.count, c)
    BY <1>4, KeyStoredInside
  <2>2. s \in [0 .. BUF - 1 -> Byte] /\ kcd.count + 1 \in 0 .. BUF + 1
    BY <1>1, <1>3, <1>4
  <2>3. kcd' = [Heard(c) EXCEPT !.command_string = s, !.count = kcd.count + 1]
    BY <1>2, <1>4, <2>1 DEF StoreKey
  <2>6. \A i \in 0 .. BUF - 1 : i < kcd.count + 1 => s[i] \in Keys
    <3>1. \A i \in 0 .. BUF - 1 : i < kcd.count => kcd.command_string[i] \in Keys
      BY DEF KcdInv
    <3>2. kcd.count \in Nat
      BY <1>1, <1>3
    <3>3. \A i \in 0 .. BUF - 1 : i < kcd.count + 1 => i < kcd.count \/ i = kcd.count
      BY <1>1, <3>2
    <3>4. \A i \in 0 .. BUF - 1 : s[i] = IF i = kcd.count THEN c ELSE kcd.command_string[i]
      BY <1>3
    <3> HIDE DEF s
    <3> QED BY <3>1, <3>3, <3>4
  <2> HIDE DEF s
  <2>7. /\ kcd' \in KcdState /\ kcd'.commands = kcd.commands
        /\ kcd'.command_string = s /\ kcd'.count = kcd.count + 1
    <3> DEFINE n == kcd.count + 1
               k == Heard(c)
    <3>1. n \in 0 .. BUF + 1 /\ k \in KcdState /\ k.commands = kcd.commands
      BY <1>2, <2>2
    <3>2. kcd' = [k EXCEPT !.command_string = s, !.count = n]
      BY <2>3
    <3> HIDE DEF n, k
    <3>3. kcd' \in KcdState /\ kcd'.commands = kcd.commands /\ kcd'.command_string = s /\ kcd'.count = n
      BY <2>2, <3>1, <3>2 DEF KcdState
    <3> QED BY <3>3 DEF n
  <2> QED BY <2>6, <2>7 DEF KcdInv, KcdTypeOK
<1>5. CASE ~(kcd.count < BUF)
  <2>1. kcd' = [Heard(c) EXCEPT !.count = BUF + 1]
    BY <1>2, <1>5 DEF StoreKey
  <2>2. BUF + 1 \in 0 .. BUF + 1 /\ \A i \in 0 .. BUF - 1 : i < kcd.count
    BY <1>1, <1>3, <1>5
  <2>3. /\ kcd' \in KcdState /\ kcd'.commands = kcd.commands
        /\ kcd'.command_string = kcd.command_string
    BY <1>2, <2>1, <2>2 DEF KcdState
  <2> QED BY <2>2, <2>3 DEF KcdInv, KcdTypeOK
<1> QED BY <1>4, <1>5

LEMMA EnterInv ==
  ASSUME KcdInv, NEW sends \in BOOLEAN, CR \in Keys,
         kcd' = AfterEnter(Heard(CR), sends), alive' = alive
  PROVE  KcdInv'
<1> DEFINE k == Heard(CR)
<1>1. /\ k \in KcdState /\ k.commands = kcd.commands /\ BUF \in Nat /\ BUF >= 2
      /\ k.command_string[1] \in Byte
  <2>1. BUF \in Nat /\ BUF >= 2 /\ CR \in Byte
    BY InputAssumption, KcdAssumption
  <2>2. k \in KcdState /\ k.commands = kcd.commands
    BY <2>1, HeardType
  <2> HIDE DEF k
  <2>3. k.command_string \in [0 .. BUF - 1 -> Byte]
    BY <2>2, KcdFields
  <2> QED BY <2>1, <2>2, <2>3
<1>2. PICK b \in Byte : kcd' = [k EXCEPT !.count = 0, !.msg_body = b]
  <2>1. k.msg_body \in Byte
    BY <1>1 DEF KcdState
  <2> HIDE DEF k
  <2> QED BY <1>1, <2>1 DEF AfterEnter, k
<1> HIDE DEF k
<1>3. 0 \in 0 .. BUF + 1
  BY <1>1
<1>4. kcd' \in KcdState /\ kcd'.commands = kcd.commands /\ kcd'.count = 0
  BY <1>1, <1>2, <1>3 DEF KcdState
<1> QED BY <1>4 DEF KcdInv, KcdTypeOK

LEMMA RegisterInv ==
  ASSUME KcdInv, NEW t \in Senders, NEW k, k = kcd \/ \E c \in Byte : k = Heard(c),
         kcd' = Register(k, t), alive' = alive
  PROVE  KcdInv'
<1>1. /\ k \in KcdState
      /\ k.commands = kcd.commands
      /\ k.command_string = kcd.command_string
      /\ k.count = kcd.count
  BY HeardType DEF KcdInv, KcdTypeOK
<1> DEFINE c == k.msg_body
<1>2. t \in 0 .. MAX_TASKS
  BY InputAssumption, KcdAssumption
<1>3. CASE IsCommand(c)
  <2>1. CommandIndex(c) \in 0 .. 61
    BY <1>3, IndexType
  <2>2. kcd' = [k EXCEPT !.commands = [k.commands EXCEPT ![CommandIndex(c)] = t]]
    <3>1. Stored(k.commands, CommandIndex(c), t) = [k.commands EXCEPT ![CommandIndex(c)] = t]
      BY <1>1, <1>3, CommandStored
    <3> QED BY <1>3, <3>1 DEF Register
  <2>3. /\ kcd' \in KcdState
        /\ kcd'.commands = [kcd.commands EXCEPT ![CommandIndex(c)] = t]
        /\ kcd'.command_string = kcd.command_string
        /\ kcd'.count = kcd.count
    <3> DEFINE cs == [k.commands EXCEPT ![CommandIndex(c)] = t]
    <3>1. cs \in [0 .. 61 -> 0 .. MAX_TASKS]
      BY <1>1, <1>2, <2>1 DEF KcdState
    <3>2. kcd' = [k EXCEPT !.commands = cs] /\ cs = [kcd.commands EXCEPT ![CommandIndex(c)] = t]
      BY <1>1, <2>2
    <3> HIDE DEF cs
    <3> QED
      BY <1>1, <3>1, <3>2 DEF KcdState
  <2>4. kcd.commands \in [0 .. 61 -> 0 .. MAX_TASKS]
    BY DEF KcdInv, KcdTypeOK, KcdState
  <2> QED BY <2>1, <2>3, <2>4 DEF KcdInv, KcdTypeOK
<1>4. CASE ~IsCommand(c)
  <2>1. kcd' = k
    BY <1>1, <1>4 DEF Register
  <2> QED BY <1>1, <2>1 DEF KcdInv, KcdTypeOK
<1> QED BY <1>3, <1>4

LEMMA IgnoredInv ==
  ASSUME KcdInv, alive' \subseteq Senders,
         kcd' = kcd \/ \E c \in Byte : kcd' = Heard(c)
  PROVE  KcdInv'
BY HeardInv DEF KcdInv, KcdTypeOK
-----------------------------------------------------------------------------
(* What a step does.                                                       *)

Pressed(c) == input' = [op |-> "key", char |-> c] /\ parity' = 1 - parity

KeyStep(c) == /\ kcd' = StoreKey(Heard(c)) /\ sent' = <<>>
              /\ alive' = alive /\ Pressed(c)

EnterStep ==
  LET to == Addressee(Heard(CR))
      sends == to < MAX_TASKS /\ to \notin Dormant
  IN  /\ Careful => kcd.count >= 2
      /\ kcd' = AfterEnter(Heard(CR), sends)
      /\ sent' = IF sends THEN <<CommandMessage(Heard(CR), to)>> ELSE <<>>
      /\ alive' = alive /\ Pressed(CR)

\* The registration that t sends with the body b finds k in the KCD's memory.
RegisterStep(t, b, k) ==
  /\ kcd' = Register(k, t) /\ sent' = <<>> /\ alive' = alive
  /\ input' = [op |-> "register", from |-> t, body |-> b] /\ parity' = parity

\* A message the KCD makes nothing of.
OtherStep ==
  /\ kcd' = kcd \/ \E c \in Byte : kcd' = Heard(c)
  /\ sent' = <<>> /\ alive' = alive /\ parity' = parity
  /\ \/ input' = [op |-> "other"]
     \/ \E t, c : input' = [op |-> "register", from |-> t, body |-> <<c, c>>]

\* A task comes or goes.
TaskStep == alive' \subseteq Senders /\ UNCHANGED <<kcd, input, parity, sent>>

LEMMA Steps ==
  ASSUME KcdInv, Next
  PROVE  \/ \E c \in Keys \ {CR} : KeyStep(c)
         \/ CR \in Keys /\ EnterStep
         \/ \E t \in alive, c \in Bodies : RegisterStep(t, <<c>>, Heard(c))
         \/ ~Careful /\ \E t \in alive : RegisterStep(t, <<>>, kcd)
         \/ OtherStep
         \/ TaskStep
<1>1. CASE Keystroke
  <2>1. PICK c \in Keys : /\ Careful /\ c = CR => kcd.count >= 2
                          /\ Receive(KeyMessage(c)) /\ Pressed(c)
    BY <1>1 DEF Keystroke, KeyMessage, Pressed
  <2>2. CASE c # CR
    BY <2>1, <2>2, KeyStored DEF KeyStep
  <2>3. CASE c = CR
    BY <2>1, <2>3, EnterHeard DEF EnterStep
  <2> QED BY <2>2, <2>3
<1>2. CASE Registration
  <2>1. PICK t \in alive, b \in TaskBody \cup (IF Careful THEN {} ELSE {<<>>}) :
          /\ Receive([from |-> t, type |-> KCD_REG, body |-> b])
          /\ input' = [op |-> "register", from |-> t, body |-> b] /\ parity' = parity
    BY <1>2 DEF Registration
  <2>2. CASE \E c \in Bodies : b = <<c>>
    BY <2>1, <2>2, Registered DEF RegisterStep
  <2>3. CASE \E c \in Bodies : b = <<c, c>>
    <3> DEFINE m == [from |-> t, type |-> KCD_REG, body |-> b]
    <3>1. ~Fits(m)
      BY <2>3 DEF Fits
    <3>2. Receive(m)
      BY <2>1
    <3> HIDE DEF m
    <3>3. kcd' = kcd /\ sent' = <<>> /\ alive' = alive
      BY <3>1, <3>2 DEF Receive
    <3> QED BY <2>1, <2>3, <3>3 DEF OtherStep
  <2>4. CASE ~Careful /\ b = <<>>
    <3> DEFINE m == [from |-> t, type |-> KCD_REG, body |-> b]
    <3>1. Fits(m) /\ Received(kcd, m) = kcd /\ m.type = KCD_REG /\ m.from = t
      BY <2>4 DEF Fits, Received
    <3>2. Receive(m)
      BY <2>1
    <3> HIDE DEF m
    <3>3. Handle(kcd, m, Dormant) = NoCommand(Register(kcd, t))
      BY <3>1 DEF Handle, KCD_REG, KEY_IN
    <3>4. kcd' = Register(kcd, t) /\ sent' = <<>> /\ alive' = alive
      BY <3>1, <3>2, <3>3 DEF Receive, NoCommand
    <3> QED BY <2>1, <2>4, <3>4 DEF RegisterStep
  <2> QED BY <2>1, <2>2, <2>3, <2>4 DEF TaskBody
<1>3. CASE OtherMessage
  <2>1. PICK t \in alive, b \in TaskBody \cup {<<>>}, y \in {DEFAULT, KCD_CMD, KEY_IN} :
          /\ Receive([from |-> t, type |-> y, body |-> b])
          /\ input' = [op |-> "other"] /\ parity' = parity
    BY <1>3 DEF OtherMessage
  <2> DEFINE m == [from |-> t, type |-> y, body |-> b]
  <2>2. m.type # KCD_REG /\ m.from # TID_UART_IRQ
    <3>1. t \in 1 .. MAX_TASKS - 1 /\ MAX_TASKS \in 1 .. 254
      BY InputAssumption, KcdAssumption DEF KcdInv, KcdTypeOK
    <3>2. t # TID_UART_IRQ /\ y # KCD_REG
      BY ONLY <3>1, y \in {DEFAULT, KCD_CMD, KEY_IN}
         DEF TID_UART_IRQ, DEFAULT, KCD_CMD, KEY_IN, KCD_REG
    <3> QED BY <3>2
  <2>3. Received(kcd, m) = kcd \/ \E c \in Byte : Received(kcd, m) = Heard(c)
    BY InputAssumption DEF TaskBody, Received, Heard
  <2>4. Receive(m)
    BY <2>1
  <2> HIDE DEF m
  <2>5. kcd' \in {kcd, Received(kcd, m)} /\ sent' = <<>> /\ alive' = alive
    BY <2>2, <2>4, Ignored
  <2> QED BY <2>1, <2>3, <2>5 DEF OtherStep
<1>4. CASE ExitOrCreate
  BY <1>4 DEF ExitOrCreate, TaskStep, KcdInv, KcdTypeOK
<1> QED BY <1>1, <1>2, <1>3, <1>4 DEF Next

LEMMA StepInv ==
  ASSUME KcdInv, Next
  PROVE  KcdInv'
<1>1. alive \subseteq Senders /\ Keys \subseteq Byte /\ Bodies \subseteq Byte
  BY InputAssumption DEF KcdInv, KcdTypeOK
<1>2. ASSUME NEW c \in Keys \ {CR}, KeyStep(c) PROVE KcdInv'
  BY <1>2, StoreKeyInv DEF KeyStep
<1>3. CASE CR \in Keys /\ EnterStep
  <2> DEFINE sends == Addressee(Heard(CR)) < MAX_TASKS /\ Addressee(Heard(CR)) \notin Dormant
  <2>1. kcd' = AfterEnter(Heard(CR), sends) /\ alive' = alive
    BY <1>3 DEF EnterStep
  <2>2. sends \in BOOLEAN
    OBVIOUS
  <2> HIDE DEF sends
  <2> QED BY <1>3, <2>1, <2>2, EnterInv
<1>4. ASSUME NEW t \in alive, NEW c \in Bodies, RegisterStep(t, <<c>>, Heard(c)) PROVE KcdInv'
  BY <1>1, <1>4, RegisterInv DEF RegisterStep
<1>5. ASSUME NEW t \in alive, RegisterStep(t, <<>>, kcd) PROVE KcdInv'
  BY <1>1, <1>5, RegisterInv DEF RegisterStep
<1>6. CASE OtherStep
  BY <1>1, <1>6, IgnoredInv DEF OtherStep
<1>7. CASE TaskStep
  BY <1>7, IgnoredInv DEF TaskStep
<1> QED BY <1>2, <1>3, <1>4, <1>5, <1>6, <1>7, Steps

LEMMA InitInv ==
  ASSUME Init
  PROVE  KcdInv
<1>1. PICK b \in Garbage, s \in [0 .. BUF - 1 -> Garbage] : kcd = KcdInit(s, b)
  BY DEF Init
<1>2. Garbage \subseteq Byte /\ MAX_TASKS \in Nat /\ BUF \in Nat
  BY InputAssumption, KcdAssumption
<1>3. s \in [0 .. BUF - 1 -> Byte] /\ b \in Byte
  BY <1>2
<1> DEFINE f == [i \in 0 .. 61 |-> MAX_TASKS]
<1>4. f \in [0 .. 61 -> 0 .. MAX_TASKS] /\ 0 \in 0 .. BUF + 1
  BY <1>2
<1>5. \A i \in 0 .. 61 : f[i] = MAX_TASKS
  OBVIOUS
<1>6. kcd = [commands |-> f, command_string |-> s, count |-> 0, msg_body |-> b]
  BY <1>1 DEF KcdInit
<1> HIDE DEF f
<1>7. kcd \in KcdState /\ kcd.commands = f /\ kcd.count = 0
  BY <1>3, <1>4, <1>6 DEF KcdState
<1>8. alive \subseteq Senders
  BY DEF Init
<1>9. \A i \in 0 .. 61 : kcd.commands[i] = MAX_TASKS
  BY <1>5, <1>7
<1>10. \A i \in 0 .. BUF - 1 : ~(i < kcd.count)
  BY <1>2, <1>7
<1> QED BY <1>7, <1>8, <1>9, <1>10 DEF KcdInv, KcdTypeOK

LEMMA KcdInvariant == Spec => []KcdInv
<1>1. KcdInv /\ UNCHANGED kcdVars => KcdInv'
  BY DEF KcdInv, KcdTypeOK, kcdVars
<1>2. KcdInv /\ [Next]_kcdVars => KcdInv'
  BY <1>1, StepInv
<1> QED BY <1>2, InitInv, PTL DEF Spec

\* Every registration is stored inside commands, every key inside command_string, and
\* the count of keystrokes keeps inside its byte, whatever is typed and sent, for every
\* size of the buffer that a byte can count.
THEOREM KcdTypeCorrect == Spec => []KcdTypeOK
BY KcdInvariant, PTL DEF KcdInv

-----------------------------------------------------------------------------
(* The line the buffer stands for, and the other variables of CommandLine. *)

Owner    == [c \in Registrable |-> kcd.commands[CommandIndex(c)]]
Overlong == kcd.count > BUF
Sent     == [i \in DOMAIN sent |-> [to |-> sent[i].to, body |-> sent[i].body]]

LineLength == IF kcd.count > BUF THEN BUF ELSE kcd.count

LEMMA AppendIs ==
  ASSUME NEW S, NEW q \in Seq(S), NEW c \in S, NEW n, n = Len(q) + 1
  PROVE  Append(q, c) = [i \in 1 .. n |-> IF i = n THEN c ELSE q[i]]
<1>1. Append(q, c) \in Seq(S) /\ Len(Append(q, c)) = n
  OBVIOUS
<1>2. Append(q, c) = [i \in 1 .. n |-> Append(q, c)[i]]
  <2> DEFINE a == Append(q, c)
  <2>1. a \in Seq(S) /\ Len(a) = n
    BY <1>1
  <2> HIDE DEF a
  <2>2. a = [i \in 1 .. Len(a) |-> a[i]]
    BY <2>1
  <2> QED BY <2>1, <2>2 DEF a
<1>3. \A i \in 1 .. n : Append(q, c)[i] = IF i = n THEN c ELSE q[i]
  BY Len(q) \in Nat
<1> QED BY <1>2, <1>3

LEMMA TypedLine ==
  ASSUME KcdInv
  PROVE  /\ LineLength \in 0 .. BUF /\ BUF \in Nat
         /\ Typed \in Seq(Keys) /\ Len(Typed) = LineLength
         /\ \A i \in 1 .. LineLength : Typed[i] = kcd.command_string[i - 1]
<1>1. BUF \in Nat /\ kcd.count \in 0 .. BUF + 1
  BY KcdAssumption DEF KcdInv, KcdTypeOK, KcdState
<1>2. LineLength \in 0 .. BUF /\ LineLength \in Nat /\ (kcd.count <= BUF => LineLength = kcd.count)
  BY <1>1 DEF LineLength
<1>3. Typed = [i \in 1 .. LineLength |-> kcd.command_string[i - 1]]
  BY DEF Typed, LineLength
<1>4. \A i \in 1 .. LineLength : i - 1 \in 0 .. BUF - 1 /\ i - 1 < kcd.count
  BY <1>1, <1>2 DEF LineLength
<1>5. \A i \in 1 .. LineLength : kcd.command_string[i - 1] \in Keys
  BY <1>4 DEF KcdInv
<1> HIDE DEF LineLength
<1>6. Typed \in [1 .. LineLength -> Keys]
  BY <1>3, <1>5
<1> QED BY <1>1, <1>2, <1>3, <1>6

\* What leaves the buffer, the table and the sent message alone leaves these alone.
LEMMA SameLine ==
  ASSUME kcd'.count = kcd.count, kcd'.command_string = kcd.command_string
  PROVE  Typed' = Typed /\ Overlong' = Overlong
BY DEF Typed, Overlong

LEMMA SameOwner ==
  ASSUME kcd'.commands = kcd.commands
  PROVE  Owner' = Owner
BY DEF Owner

LEMMA NothingSent ==
  ASSUME sent' = <<>>
  PROVE  Sent' = <<>>
BY DEF Sent

-----------------------------------------------------------------------------
(* Each step of the KCD is one of CommandLine.                             *)

LEMMA KeyTypes ==
  ASSUME KcdInv, NEW c \in Keys \ {CR}, KeyStep(c)
  PROVE  Promise!Type(c)
<1>1. c \in Byte /\ BUF \in Nat /\ kcd.count \in 0 .. BUF + 1
  BY InputAssumption, KcdAssumption DEF KcdInv, KcdTypeOK, KcdState
<1>2. /\ Heard(c) \in KcdState
      /\ Heard(c).commands = kcd.commands
      /\ Heard(c).command_string = kcd.command_string
      /\ Heard(c).count = kcd.count
      /\ Heard(c).msg_body = c
  BY <1>1, HeardType
<1>3. Len(Typed) = LineLength /\ Typed \in Seq(Keys)
  BY TypedLine
<1>4. Sent' = <<>> /\ alive' = alive /\ Promise!Pressed(c) /\ c # Promise!Enter
  BY NothingSent DEF KeyStep, Pressed, Promise!Pressed, Promise!Enter, CR
<1>5. CASE kcd.count < BUF
  <2> DEFINE s == [kcd.command_string EXCEPT ![kcd.count] = c]
             k == Heard(c)
             n == kcd.count + 1
  <2>1. kcd' = [k EXCEPT !.command_string = s, !.count = n]
    <3>1. s = Stored(kcd.command_string, kcd.count, c)
      BY <1>5, KeyStoredInside
    <3> QED BY <3>1, <1>2, <1>5 DEF StoreKey, KeyStep
  <2>2. k \in KcdState /\ k.commands = kcd.commands
    BY <1>2
  <2> HIDE DEF s, k
  <2>3. kcd'.commands = kcd.commands /\ kcd'.command_string = s /\ kcd'.count = n
    BY <2>1, <2>2 DEF KcdState
  <2>4. LineLength = kcd.count /\ n \in 1 .. BUF /\ ~(n > BUF) /\ ~Overlong
    BY <1>1, <1>5 DEF LineLength, Overlong
  <2>5. Typed' = [i \in 1 .. n |-> s[i - 1]]
    BY <2>3, <2>4 DEF Typed
  <2>6. \A i \in 1 .. n : s[i - 1] = IF i = n THEN c ELSE kcd.command_string[i - 1]
    <3>1. \A j \in 0 .. BUF - 1 : s[j] = IF j = kcd.count THEN c ELSE kcd.command_string[j]
      BY DEF s, KcdInv, KcdTypeOK, KcdState
    <3>2. \A i \in 1 .. n : i - 1 \in 0 .. BUF - 1 /\ (i - 1 = kcd.count <=> i = n)
      BY <1>1, <1>5
    <3> QED BY <3>1, <3>2
  <2>7. Len(Typed) + 1 = n
    BY <1>3, <2>4
  <2>8. Append(Typed, c) = [i \in 1 .. n |-> IF i = n THEN c ELSE Typed[i]]
    BY <1>3, <2>7, AppendIs
  <2>9. \A i \in 1 .. n : i # n => Typed[i] = kcd.command_string[i - 1]
    BY <1>1, <2>4, TypedLine
  <2>10. Typed' = Append(Typed, c)
    BY <2>5, <2>6, <2>8, <2>9
  <2>11. Overlong' = Overlong
    BY <2>3, <2>4 DEF Overlong
  <2>12. Len(Typed) < BUF
    BY <1>3, <1>5, <2>4
  <2> QED BY <1>4, <2>3, <2>10, <2>11, <2>12, SameOwner DEF Promise!Type, Owner, Overlong, Sent
<1>6. CASE ~(kcd.count < BUF)
  <2>1. kcd' = [Heard(c) EXCEPT !.count = BUF + 1]
    BY <1>2, <1>6 DEF StoreKey, KeyStep
  <2>2. /\ kcd'.commands = kcd.commands
        /\ kcd'.command_string = kcd.command_string
        /\ kcd'.count = BUF + 1
    BY <1>2, <2>1 DEF KcdState
  <2>3. LineLength = BUF /\ LineLength' = BUF /\ Overlong'
    <3>1. kcd.count = BUF \/ kcd.count > BUF
      BY <1>1, <1>6
    <3>2. kcd'.count > BUF
      BY <1>1, <2>2
    <3> QED BY <3>1, <3>2 DEF LineLength, Overlong
  <2>4. Typed' = Typed
    <3>1. Typed = [i \in 1 .. LineLength |-> kcd.command_string[i - 1]]
      BY DEF Typed, LineLength
    <3>2. Typed' = [i \in 1 .. LineLength' |-> kcd'.command_string[i - 1]]
      BY DEF Typed, LineLength
    <3> QED BY <2>2, <2>3, <3>1, <3>2
  <2>5. ~(Len(Typed) < BUF)
    BY <1>1, <1>3, <2>3
  <2> QED BY <1>4, <2>2, <2>3, <2>4, <2>5, SameOwner DEF Promise!Type, Owner, Overlong, Sent
<1> QED BY <1>5, <1>6

LEMMA OtherIgnored ==
  ASSUME KcdInv, OtherStep
  PROVE  Promise!Ignore
<1>1. /\ kcd'.commands = kcd.commands
      /\ kcd'.command_string = kcd.command_string
      /\ kcd'.count = kcd.count
  BY HeardType DEF OtherStep
<1>2. Sent' = <<>> /\ alive' = alive /\ parity' = parity
  BY NothingSent DEF OtherStep
<1>3. input'.op # "key" /\ ~Promise!IsRequest(input')
  BY DEF OtherStep, Promise!IsRequest
<1> QED BY <1>1, <1>2, <1>3, SameLine, SameOwner DEF Promise!Ignore, Owner, Overlong, Sent

LEMMA TaskComesOrGoes ==
  ASSUME TaskStep
  PROVE  Promise!ComeOrGo
BY DEF TaskStep, Promise!ComeOrGo, Typed

LEMMA CommandIs == Promise!Command = Registrable
BY DEF Promise!Command, Registrable, IsCommand, Digit, Upper, Lower

LEMMA RegisterRegisters ==
  ASSUME KcdInv, NEW t \in alive, NEW c \in Bodies, RegisterStep(t, <<c>>, Heard(c))
  PROVE  (c \in Promise!Command /\ Promise!RegisterFor(t, c)) \/ Promise!Ignore
<1>1. c \in Byte /\ alive \subseteq Senders
  BY InputAssumption DEF KcdInv, KcdTypeOK
<1>2. /\ Heard(c) \in KcdState
      /\ Heard(c).commands = kcd.commands
      /\ Heard(c).command_string = kcd.command_string
      /\ Heard(c).count = kcd.count
      /\ Heard(c).msg_body = c
  BY <1>1, HeardType
<1>3. CASE IsCommand(c)
  <2>1. kcd' = [Heard(c) EXCEPT !.commands = [kcd.commands EXCEPT ![CommandIndex(c)] = t]]
    <3>1. Stored(kcd.commands, CommandIndex(c), t) = [kcd.commands EXCEPT ![CommandIndex(c)] = t]
      BY <1>3, CommandStored DEF KcdInv, KcdTypeOK
    <3> QED BY <1>2, <1>3, <3>1 DEF Register, RegisterStep
  <2>2. /\ kcd'.commands = [kcd.commands EXCEPT ![CommandIndex(c)] = t]
        /\ kcd'.command_string = kcd.command_string
        /\ kcd'.count = kcd.count
    BY <1>2, <2>1 DEF KcdState
  <2>3. DOMAIN kcd.commands = 0 .. 61 /\ c \in Registrable
    BY <1>3 DEF KcdInv, KcdTypeOK, KcdState, Registrable
  <2>4. \A d \in Registrable : /\ CommandIndex(d) \in 0 .. 61
                               /\ CommandIndex(d) = CommandIndex(c) => d = c
    BY <1>3, IndexType, IndexInjective DEF Registrable
  <2>5. \A d \in Registrable : kcd'.commands[CommandIndex(d)] = IF d = c THEN t ELSE Owner[d]
    BY <2>2, <2>3, <2>4 DEF Owner
  <2>6. Owner' = [Owner EXCEPT ![c] = t]
    BY <2>5 DEF Owner
  <2>7. /\ Sent' = <<>> /\ alive' = alive /\ parity' = parity
        /\ input' = [op |-> "register", from |-> t, body |-> <<c>>]
    BY NothingSent DEF RegisterStep
  <2>8. Typed' = Typed /\ Overlong' = Overlong
    BY <2>2, SameLine
  <2> QED BY <2>3, <2>6, <2>7, <2>8, CommandIs DEF Promise!RegisterFor, Owner, Overlong, Sent
<1>4. CASE ~IsCommand(c)
  <2>1. kcd'.commands = kcd.commands /\ Typed' = Typed /\ Overlong' = Overlong
    BY <1>2, <1>4, SameLine DEF Register, RegisterStep
  <2>2. input'.op # "key" /\ ~Promise!IsRequest(input')
    <3>1. c \notin Promise!Command
      BY <1>4, CommandIs DEF Registrable
    <3>2. input' = [op |-> "register", from |-> t, body |-> <<c>>]
      BY DEF RegisterStep
    <3>3. \A d : <<c>> = <<d>> => c = d
      OBVIOUS
    <3> QED BY <3>1, <3>2, <3>3 DEF Promise!IsRequest
  <2>3. Sent' = <<>> /\ alive' = alive /\ parity' = parity
    BY NothingSent DEF RegisterStep
  <2> QED BY <2>1, <2>2, <2>3, SameOwner DEF Promise!Ignore, Owner, Overlong, Sent
<1> QED BY <1>3, <1>4

LEMMA TailIs ==
  ASSUME NEW S, NEW q \in Seq(S), q # <<>>
  PROVE  Tail(q) = [i \in 1 .. Len(q) - 1 |-> q[i + 1]]
<1> DEFINE a == Tail(q)
<1>1. a \in Seq(S) /\ Len(a) = Len(q) - 1 /\ \A i \in 1 .. Len(q) - 1 : a[i] = q[i + 1]
  OBVIOUS
<1> HIDE DEF a
<1>2. a = [i \in 1 .. Len(a) |-> a[i]]
  BY <1>1
<1> QED BY <1>1, <1>2 DEF a

\* Whom the KCD sends the command to: the owner of the line's second character, if
\* the line asks for somebody.
LEMMA AddresseeIsOwner ==
  ASSUME KcdInv, CR \in Keys, kcd.count >= 2,
         NEW to, to = Addressee(Heard(CR))
  PROVE  /\ (to < MAX_TASKS /\ to \notin Dormant) <=> Promise!ForSomebody
         /\ Promise!ForSomebody => to = Owner[Typed[2]] /\ kcd.count <= BUF
<1>1. /\ MAX_TASKS \in Nat /\ BUF \in Nat /\ BUF >= 2 /\ CR \in Byte
      /\ \A t \in Senders : t \in Nat /\ t < MAX_TASKS
  BY InputAssumption, KcdAssumption
<1>2. kcd.count \in Nat /\ kcd.commands \in [0 .. 61 -> 0 .. MAX_TASKS]
  BY <1>1 DEF KcdInv, KcdTypeOK, KcdState
<1>3. /\ LineLength >= 2 /\ LineLength \in Nat
      /\ kcd.count <= BUF <=> ~(kcd.count > BUF)
  BY <1>1, <1>2 DEF LineLength
<1>4. /\ Len(Typed) >= 2
      /\ Typed[1] = kcd.command_string[0] /\ Typed[2] = kcd.command_string[1]
  <2>1. 1 \in 1 .. LineLength /\ 2 \in 1 .. LineLength /\ 1 - 1 = 0 /\ 2 - 1 = 1
    BY <1>3
  <2> QED BY <1>3, <2>1, TypedLine
<1>5. kcd.command_string[1] \in Keys
  BY <1>1, <1>2 DEF KcdInv
<1> DEFINE c == Typed[2]
           asks == Typed[1] = 37 /\ kcd.count <= BUF /\ IsCommand(c)
<1>6. to = IF asks THEN kcd.commands[CommandIndex(c)] ELSE MAX_TASKS
  BY <1>1, <1>4, HeardType DEF Addressee, Percent
<1>7. c \in Registrable <=> IsCommand(c)
  BY <1>4, <1>5 DEF Registrable
<1>8. asks => Owner[c] = kcd.commands[CommandIndex(c)]
  BY <1>7 DEF Owner
<1>9. asks => Owner[c] \in Senders \cup {MAX_TASKS}
  <2>1. asks => CommandIndex(c) \in 0 .. 61
    BY IndexType
  <2> QED BY <1>8, <2>1 DEF KcdInv
<1>10. Promise!ForSomebody <=> asks /\ Owner[c] \in alive
  BY <1>3, <1>4, <1>7, CommandIs DEF Promise!ForSomebody, Promise!Percent, Owner
<1>11. alive \subseteq Senders /\ Dormant = Senders \ alive
  BY DEF KcdInv, KcdTypeOK, Dormant
<1> HIDE DEF c, asks
<1>12. CASE asks
  <2>1. to = Owner[c]
    BY <1>6, <1>8, <1>12
  <2>2. to < MAX_TASKS <=> to \in Senders
    BY <1>1, <1>9, <1>12, <2>1
  <2> QED BY <1>10, <1>11, <1>12, <2>1, <2>2 DEF asks, c
<1>13. CASE ~asks
  BY <1>1, <1>6, <1>10, <1>13
<1> QED BY <1>12, <1>13

LEMMA EnterEnters ==
  ASSUME KcdInv, CR \in Keys, EnterStep, Careful
  PROVE  Promise!Dispatch
<1> DEFINE to == Addressee(Heard(CR))
           sends == to < MAX_TASKS /\ to \notin Dormant
           k == Heard(CR)
<1>1. kcd.count >= 2
  BY DEF EnterStep
<1>2. CR \in Byte /\ BUF \in Nat /\ kcd.count \in Nat
  BY InputAssumption, KcdAssumption DEF KcdInv, KcdTypeOK, KcdState
<1>3. /\ sends <=> Promise!ForSomebody
      /\ Promise!ForSomebody => to = Owner[Typed[2]] /\ kcd.count <= BUF
  BY <1>1, AddresseeIsOwner
<1>4. /\ k \in KcdState /\ k.commands = kcd.commands
      /\ k.command_string = kcd.command_string /\ k.count = kcd.count
  BY <1>2, HeardType
<1>5. /\ kcd' = AfterEnter(k, sends)
      /\ sent' = IF sends THEN <<CommandMessage(k, to)>> ELSE <<>>
      /\ alive' = alive /\ Pressed(CR)
  BY DEF EnterStep
<1> HIDE DEF k, sends, to
<1>6. kcd'.count = 0 /\ kcd'.commands = kcd.commands
  BY <1>4, <1>5 DEF AfterEnter, KcdState
<1>7. Typed' = <<>> /\ Overlong' = FALSE /\ Owner' = Owner
  <2>1. ~(0 > BUF)
    BY <1>2
  <2>2. Typed' = [i \in 1 .. 0 |-> kcd'.command_string[i - 1]]
    BY <1>6, <2>1 DEF Typed
  <2>3. Typed' = <<>>
    BY <2>2
  <2> QED BY <1>6, <2>1, <2>3, SameOwner DEF Overlong
<1>8. Sent' = IF Promise!ForSomebody THEN <<[to |-> Owner[Typed[2]], body |-> Tail(Typed)]>>
              ELSE <<>>
  <2>1. CASE Promise!ForSomebody
    <3> DEFINE m == CommandMessage(k, to)
    <3>1. sent' = <<m>>
      BY <1>3, <1>5, <2>1
    <3>2. m.to = to /\ m.body = [i \in 1 .. kcd.count - 1 |-> kcd.command_string[i]]
      BY <1>4 DEF CommandMessage
    <3> HIDE DEF m
    <3>3. Sent' = <<[to |-> m.to, body |-> m.body]>>
      BY <3>1 DEF Sent
    <3>4. m.body = Tail(Typed)
      <4>1. LineLength = kcd.count /\ Typed \in Seq(Keys) /\ Len(Typed) = kcd.count
        BY <1>2, <1>3, <2>1, TypedLine DEF LineLength
      <4>2. Typed # <<>>
        BY <1>1, <1>2, <4>1
      <4>3. Tail(Typed) = [i \in 1 .. kcd.count - 1 |-> Typed[i + 1]]
        BY <4>1, <4>2, TailIs
      <4>4. \A i \in 1 .. kcd.count - 1 : i + 1 \in 1 .. LineLength /\ (i + 1) - 1 = i
        BY <1>2, <4>1
      <4>5. \A i \in 1 .. kcd.count - 1 : Typed[i + 1] = kcd.command_string[i]
        BY <4>4, TypedLine
      <4> QED BY <3>2, <4>3, <4>5
    <3> QED BY <1>3, <2>1, <3>2, <3>3, <3>4
  <2>2. CASE ~Promise!ForSomebody
    BY <1>3, <1>5, <2>2, NothingSent
  <2> QED BY <2>1, <2>2
<1>9. Promise!Pressed(Promise!Enter)
  BY <1>5 DEF Pressed, Promise!Pressed, Promise!Enter, CR
<1> QED BY <1>5, <1>7, <1>8, <1>9 DEF Promise!Dispatch, Owner, Overlong, Sent

LEMMA StepRefines ==
  ASSUME KcdInv, Next, Careful
  PROVE  Promise!LineNext
<1>1. ASSUME NEW c \in Keys \ {CR}, KeyStep(c) PROVE Promise!LineNext
  BY <1>1, KeyTypes DEF Promise!LineNext
<1>2. CASE CR \in Keys /\ EnterStep
  BY <1>2, EnterEnters DEF Promise!LineNext
<1>3. ASSUME NEW t \in alive, NEW c \in Bodies, RegisterStep(t, <<c>>, Heard(c))
      PROVE  Promise!LineNext
  <2>1. t \in Senders
    BY DEF KcdInv, KcdTypeOK
  <2> QED BY <1>3, <2>1, RegisterRegisters DEF Promise!LineNext
<1>4. CASE OtherStep
  BY <1>4, OtherIgnored DEF Promise!LineNext
<1>5. CASE TaskStep
  BY <1>5, TaskComesOrGoes DEF Promise!LineNext
<1> QED BY <1>1, <1>2, <1>3, <1>4, <1>5, Steps

LEMMA InitRefines ==
  ASSUME Init
  PROVE  Promise!LineInit
<1>1. PICK b \in Garbage, s \in [0 .. BUF - 1 -> Garbage] : kcd = KcdInit(s, b)
  BY DEF Init
<1>2. /\ kcd.commands = [i \in 0 .. 61 |-> MAX_TASKS] /\ kcd.count = 0
      /\ input = [op |-> "none"] /\ parity = 0 /\ sent = <<>> /\ ~(0 > BUF)
  BY <1>1, KcdAssumption DEF Init, KcdInit
<1>3. \A c \in Registrable : CommandIndex(c) \in 0 .. 61
  BY IndexType DEF Registrable
<1>4. Owner = [c \in Registrable |-> MAX_TASKS]
  BY <1>2, <1>3 DEF Owner
<1>5. Typed = <<>> /\ Overlong = FALSE /\ Sent = <<>>
  <2>1. Typed = [i \in 1 .. 0 |-> kcd.command_string[i - 1]]
    BY <1>2 DEF Typed
  <2> QED BY <1>2, <2>1 DEF Overlong, Sent
<1> QED BY <1>2, <1>4, <1>5, CommandIs DEF Promise!LineInit, Owner, Overlong, Sent

\* While Enter is pressed only on lines of at least two characters and registrations
\* have a body (Careful), the KCD implements CommandLine: every command goes, whole
\* and without its %, to the task that registered it last if it is alive, and no other
\* message is sent.
THEOREM CommandLineCorrect ==
  ASSUME Careful
  PROVE  Spec => ImplementsCommandLine
<1>1. Init => Promise!LineInit
  BY InitRefines
<1>2. KcdInv /\ UNCHANGED kcdVars => UNCHANGED Promise!lineVars
  BY DEF kcdVars, Promise!lineVars, Typed
<1>3. KcdInv /\ [Next]_kcdVars => [Promise!LineNext]_(Promise!lineVars)
  BY <1>2, StepRefines
<1> QED BY <1>1, <1>3, KcdInvariant, PTL DEF Spec, ImplementsCommandLine, Promise!LineSpec
=============================================================================
