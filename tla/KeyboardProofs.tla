--------------------------- MODULE KeyboardProofs ---------------------------
(***************************************************************************)
(* What Keyboard guarantees for every size of the ring and every use of the *)
(* keyboard: the types, that the ring is a queue to getchar while the        *)
(* handler runs between any two of its steps, and that every key becomes     *)
(* the character that was meant.                                           *)
(***************************************************************************)
EXTENDS Keyboard, SequenceTheorems, TLAPS

Codes == [key : {"E0"} \cup Keys \cup {"LCtrl"}, up : BOOLEAN, means : Characters \cup {NoChar}]

-----------------------------------------------------------------------------
(* The ring                                                                *)

\* The remainder of numbers below twice the size of the ring.
LEMMA RingMod ==
  ASSUME NEW n \in Nat, n < 2 * BUFFER_SIZE
  PROVE  n % BUFFER_SIZE = IF n < BUFFER_SIZE THEN n ELSE n - BUFFER_SIZE
<1>1. BUFFER_SIZE \in Nat /\ BUFFER_SIZE > 1
  BY KeyboardAssumption DEF KeyboardAssumption
<1> QED BY <1>1

LEMMA AfterIndex ==
  ASSUME NEW i \in 0..(BUFFER_SIZE - 1)
  PROVE  /\ After(i) \in 0..(BUFFER_SIZE - 1)
         /\ After(i) = IF i = BUFFER_SIZE - 1 THEN 0 ELSE i + 1
<1>1. BUFFER_SIZE \in Nat /\ BUFFER_SIZE > 1
  BY KeyboardAssumption DEF KeyboardAssumption
<1>2. i + 1 \in Nat /\ i + 1 < 2 * BUFFER_SIZE
  BY <1>1
<1> QED BY <1>1, <1>2, RingMod DEF After

\* The slot of the i-th character of the queue.
SlotOf(i) == IF buffer_read + i - 1 < BUFFER_SIZE THEN buffer_read + i - 1 ELSE buffer_read + i - 1 - BUFFER_SIZE

QueueFacts ==
  /\ Stored \in 0..(BUFFER_SIZE - 1)
  /\ Stored = IF buffer_write >= buffer_read THEN buffer_write - buffer_read
              ELSE buffer_write + BUFFER_SIZE - buffer_read
  /\ queue \in Seq(Characters \cup {NoChar}) /\ Len(queue) = Stored
  /\ \A i \in 1..Stored : SlotOf(i) \in 0..(BUFFER_SIZE - 1) /\ queue[i] = keyboard_buffer[SlotOf(i)]

\* The queue, without a remainder.
LEMMA QueueProperties == TypeOK => QueueFacts
<1> SUFFICES ASSUME TypeOK PROVE QueueFacts
  OBVIOUS
<1> DEFINE B == BUFFER_SIZE
<1>1. B \in Nat /\ B > 1 /\ buffer_read \in 0..(B - 1) /\ buffer_write \in 0..(B - 1)
  BY KeyboardAssumption DEF KeyboardAssumption, TypeOK
<1>2. buffer_write + B - buffer_read \in Nat /\ buffer_write + B - buffer_read < 2 * B
  BY <1>1
<1>3. Stored = IF buffer_write >= buffer_read THEN buffer_write - buffer_read
               ELSE buffer_write + B - buffer_read
  BY <1>1, <1>2, RingMod DEF Stored
<1>4. Stored \in 0..(B - 1)
  BY <1>1, <1>3
<1>5. ASSUME NEW i \in 1..Stored
      PROVE  SlotOf(i) \in 0..(B - 1) /\ (buffer_read + i - 1) % B = SlotOf(i)
  <2>1. buffer_read + i - 1 \in Nat /\ buffer_read + i - 1 < 2 * B
    BY <1>1, <1>4
  <2> DEFINE k == buffer_read + i - 1
  <2>2. SlotOf(i) = IF k < BUFFER_SIZE THEN k ELSE k - BUFFER_SIZE
    BY <1>1, <2>1 DEF SlotOf
  <2> HIDE DEF k
  <2>3. k % BUFFER_SIZE = SlotOf(i)
    BY <2>1, <2>2, RingMod DEF k
  <2> QED BY <1>1, <1>4, <2>1, <2>2, <2>3 DEF k
<1>6. ASSUME NEW i \in 1..Stored
      PROVE  queue[i] = keyboard_buffer[SlotOf(i)] /\ queue[i] \in Characters \cup {NoChar}
  BY <1>5 DEF queue, TypeOK
<1>7. DOMAIN queue = 1..Stored /\ queue = [i \in 1..Stored |-> queue[i]]
  BY DEF queue
<1>8. queue \in Seq(Characters \cup {NoChar}) /\ Len(queue) = Stored
  <2> HIDE DEF queue
  <2>1. queue \in [1..Stored -> Characters \cup {NoChar}]
    BY <1>6, <1>7
  <2> QED BY <1>4, <2>1
<1> QED BY <1>3, <1>4, <1>5, <1>6, <1>8 DEF QueueFacts
-----------------------------------------------------------------------------
(* Types                                                                   *)

LEMMA CharacterFacts ==
  /\ NoChar \notin Characters
  /\ \A key : ascii(key) \in Characters \cup {NoChar}
  /\ \A key : Meant(key) \in Characters \cup {NoChar}
<1>1. NoChar \notin Characters
  BY DEF NoChar, Characters, LeftArrow
<1>2. ASSUME NEW key PROVE ascii(key) \in Characters \cup {NoChar}
  BY DEF ascii, Characters, NoChar, LeftArrow, Control, IsLetter, scancode_to_ascii, scancode_to_ascii_shift
<1>3. ASSUME NEW key PROVE Meant(key) \in Characters \cup {NoChar}
  BY DEF Meant, Characters, NoChar, LeftArrow, Control, IsLetter, scancode_to_ascii, scancode_to_ascii_shift
<1> QED BY <1>1, <1>2, <1>3

LEMMA TypeInit == Init => TypeOK
<1> SUFFICES ASSUME Init PROVE TypeOK
  OBVIOUS
<1>1. 0 \in 0..(BUFFER_SIZE - 1)
  BY KeyboardAssumption DEF KeyboardAssumption
<1>2. <<>> \in Seq(Codes)
  OBVIOUS
<1>3. keyboard_buffer \in [0..(BUFFER_SIZE - 1) -> Characters \cup {NoChar}]
  BY DEF Init
<1> QED BY <1>1, <1>2, <1>3 DEF Init, TypeOK, Codes

\* What the user presses or releases is a code more, or two.
LEMMA SendType ==
  ASSUME TypeOK, NEW k \in Keys, NEW up \in BOOLEAN, NEW means \in Characters \cup {NoChar},
         Send(k, up, means)
  PROVE  pending' \in Seq(Codes) /\ strokes' \in Nat
<1>1. pending \in Seq(Codes)
  BY DEF TypeOK, Codes
<1>2. Prefix \in Codes /\ Code(Base(k), up, means) \in Codes
  BY DEF Prefix, Code, Codes, Base, NoChar
<1>3. (IF k \in Extended THEN <<Prefix>> ELSE <<>>) \in Seq(Codes)
  BY <1>2
<1>4. <<Code(Base(k), up, means)>> \in Seq(Codes)
  BY <1>2
<1>5. pending \o (IF k \in Extended THEN <<Prefix>> ELSE <<>>) \in Seq(Codes)
  BY <1>1, <1>3, ConcatProperties
<1>6. pending' \in Seq(Codes)
  BY <1>4, <1>5, ConcatProperties DEF Send
<1> QED BY <1>6 DEF Send, TypeOK

LEMMA IrqType ==
  ASSUME TypeOK, NEW key, NEW up, Irq(key, up)
  PROVE  /\ pending' \in Seq(Codes) /\ pc' \in {"program", "call", "getchar", "wait", "read", "advance"}
         /\ UNCHANGED <<interrupts, c, got, pressed, strokes>>
<1>1. pending \in Seq(Codes) /\ pending # <<>>
  BY DEF TypeOK, Codes, Irq
<1>2. Tail(pending) \in Seq(Codes)
  BY <1>1
<1> QED BY <1>2 DEF Irq, Woken, TypeOK

LEMMA PushType ==
  ASSUME TypeOK, NEW ch \in Characters, Push(ch)
  PROVE  /\ keyboard_buffer' \in [0..(BUFFER_SIZE - 1) -> Characters \cup {NoChar}]
         /\ buffer_write' \in 0..(BUFFER_SIZE - 1)
BY AfterIndex DEF TypeOK, Push

LEMMA HandlerType == ASSUME TypeOK, keyboard_handler PROVE TypeOK'
<1> USE DEF Codes
<1>1. CASE HandlePrefix
  BY <1>1, IrqType DEF HandlePrefix, TypeOK, ring
<1>2. ASSUME NEW key, NEW up \in BOOLEAN, HandleShift(key, up) PROVE TypeOK'
  BY <1>2, IrqType DEF HandleShift, TypeOK, ring
<1>3. CASE HandleCtrl
  BY <1>3, IrqType DEF HandleCtrl, TypeOK, ring
<1>4. CASE HandleCtrlUp
  BY <1>4, IrqType DEF HandleCtrlUp, TypeOK, ring
<1>5. ASSUME NEW key, HandleUp(key) PROVE TypeOK'
  BY <1>5, IrqType DEF HandleUp, TypeOK, ring
<1>6. ASSUME NEW key, HandleKey(key) PROVE TypeOK'
  <2>1. /\ keyboard_buffer' \in [0..(BUFFER_SIZE - 1) -> Characters \cup {NoChar}]
        /\ buffer_write' \in 0..(BUFFER_SIZE - 1)
    BY <1>6, PushType, CharacterFacts DEF HandleKey, TypeOK
  <2> QED BY <1>6, <2>1, IrqType DEF HandleKey, TypeOK
<1> QED BY <1>1, <1>2, <1>3, <1>4, <1>5, <1>6 DEF keyboard_handler

LEMMA ProgramType == ASSUME TypeOK, Getchar \/ Call \/ timer_handler PROVE TypeOK'
<1> USE DEF TypeOK, ring, mods, user, Step
<1>1. CASE CallOther \/ CallEnables \/ CallReturns \/ CallGetchar
  BY <1>1 DEF CallOther, CallEnables, CallReturns, CallGetchar
<1>2. CASE GetcharEnables \/ GetcharEmpty \/ GetcharAvailable
  BY <1>2 DEF GetcharEnables, GetcharEmpty, GetcharAvailable
<1>3. CASE GetcharRead
  BY <1>3 DEF GetcharRead
<1>4. CASE GetcharReturn
  BY <1>4, AfterIndex DEF GetcharReturn
<1>5. CASE timer_handler
  BY <1>5 DEF timer_handler, Woken
<1> QED BY <1>1, <1>2, <1>3, <1>4, <1>5 DEF Getchar, Call

LEMMA TypeStep == ASSUME TypeOK, [Next]_vars PROVE TypeOK'
<1>1. ASSUME NEW k \in Keys, Press(k) PROVE TypeOK'
  BY <1>1, SendType, CharacterFacts DEF Press, TypeOK, ring, mods, prog, Codes
<1>2. ASSUME NEW k \in Keys, Release(k) PROVE TypeOK'
  BY <1>2, SendType DEF Release, TypeOK, ring, mods, prog, Codes
<1>3. CASE UNCHANGED vars
  BY <1>3 DEF vars, ring, mods, prog, user, TypeOK
<1> QED BY <1>1, <1>2, <1>3, HandlerType, ProgramType DEF Next, User

\* Every variable keeps its type: the indices stay in the ring, and what is in
\* it are characters.
THEOREM TypeCorrect == Spec => []TypeOK
<1> QED BY TypeInit, TypeStep, PTL DEF Spec
-----------------------------------------------------------------------------
(* The ring is a queue                                                     *)

LEMMA SameQueue == ASSUME UNCHANGED ring PROVE queue' = queue
BY DEF ring, queue, Stored

\* The handler puts a character at the end of the queue, if there is room.
LEMMA PushQueue ==
  ASSUME TypeOK, TypeOK', NEW ch \in Characters, Push(ch), UNCHANGED buffer_read
  PROVE  queue' = IF Len(queue) < BUFFER_SIZE - 1 THEN Append(queue, ch) ELSE queue
<1> DEFINE B == BUFFER_SIZE
           S == Characters \cup {NoChar}
<1>1. B \in Nat /\ B > 1 /\ buffer_read \in 0..(B - 1) /\ buffer_write \in 0..(B - 1)
  BY KeyboardAssumption DEF KeyboardAssumption, TypeOK
<1>2. After(buffer_write) \in 0..(B - 1)
      /\ After(buffer_write) = IF buffer_write = B - 1 THEN 0 ELSE buffer_write + 1
  BY <1>1, AfterIndex
<1>3. QueueFacts /\ QueueFacts'
  BY QueueProperties, PTL
<1>4. After(buffer_write) = buffer_read <=> Stored = B - 1
  BY <1>1, <1>2, <1>3 DEF QueueFacts
<1>5. CASE After(buffer_write) = buffer_read
  <2>1. UNCHANGED ring
    BY <1>5 DEF Push, ring
  <2> QED BY <1>3, <1>4, <1>5, <2>1, SameQueue DEF QueueFacts
<1>6. CASE After(buffer_write) # buffer_read
  <2>1. /\ keyboard_buffer' = [keyboard_buffer EXCEPT ![buffer_write] = ch]
        /\ buffer_write' = After(buffer_write) /\ buffer_read' = buffer_read
    BY <1>6 DEF Push
  <2>2. Stored' = Stored + 1 /\ Stored \in Nat /\ Stored < B - 1
    BY <1>1, <1>2, <1>3, <1>4, <1>6, <2>1 DEF QueueFacts
  <2>3. \A i \in 1..Stored : SlotOf(i)' = SlotOf(i) /\ SlotOf(i) # buffer_write
    BY <1>1, <1>3, <2>1, <2>2 DEF QueueFacts, SlotOf
  <2>4. \A i \in 1..(Stored + 1) : i = Stored + 1 => SlotOf(i)' = buffer_write
    BY <1>1, <1>3, <2>1, <2>2 DEF QueueFacts, SlotOf
  <2>5. /\ queue \in Seq(S) /\ Len(queue) = Stored /\ queue' \in Seq(S) /\ Len(queue') = Stored + 1
        /\ \A i \in 1..Stored : queue[i] = keyboard_buffer[SlotOf(i)]
        /\ \A i \in 1..(Stored + 1) : queue'[i] = keyboard_buffer'[SlotOf(i)']
    BY <1>3, <2>2 DEF QueueFacts
  <2>6. keyboard_buffer \in [0..(B - 1) -> S]
    BY DEF TypeOK
  <2>7. \A i \in 1..Stored : queue'[i] = queue[i]
    BY <1>1, <1>3, <2>1, <2>2, <2>3, <2>5, <2>6 DEF QueueFacts
  <2>8. queue'[Stored + 1] = ch
    <3>1. \A i \in 1..(Stored + 1) : i = Stored + 1 => queue'[i] = keyboard_buffer'[buffer_write]
      BY <2>4, <2>5
    <3> QED BY <1>1, <2>1, <2>2, <2>6, <3>1
  <2>9. /\ Append(queue, ch) \in Seq(S) /\ Len(Append(queue, ch)) = Stored + 1
        /\ \A i \in 1..Stored : Append(queue, ch)[i] = queue[i]
        /\ Append(queue, ch)[Stored + 1] = ch
    BY <2>5, AppendProperties
  <2>10. \A i \in 1..(Stored + 1) : queue'[i] = Append(queue, ch)[i]
    <3>1. \A i \in 1..(Stored + 1) : i \in 1..Stored \/ i = Stored + 1
      BY <2>2
    <3> QED BY <2>7, <2>8, <2>9, <3>1
  <2>11. queue' = Append(queue, ch)
    <3> DEFINE q == queue'
               t == Append(queue, ch)
    <3>1. q \in Seq(S) /\ t \in Seq(S) /\ Len(q) = Len(t) /\ \A i \in 1..Len(q) : q[i] = t[i]
      BY <2>5, <2>9, <2>10
    <3> HIDE DEF q, t
    <3>2. q = t
      BY <3>1, SeqEqual
    <3> QED BY <3>2 DEF q, t
  <2> QED BY <2>2, <2>5, <2>11
<1> QED BY <1>5, <1>6

\* getchar takes the first character, whatever has been added since it looked.
LEMMA ReturnQueue ==
  ASSUME TypeOK, TypeOK', queue # <<>>, UNCHANGED <<keyboard_buffer, buffer_write>>,
         buffer_read' = After(buffer_read)
  PROVE  queue' = Tail(queue)
<1> DEFINE B == BUFFER_SIZE
           S == Characters \cup {NoChar}
<1>1. B \in Nat /\ B > 1 /\ buffer_read \in 0..(B - 1) /\ buffer_write \in 0..(B - 1)
  BY KeyboardAssumption DEF KeyboardAssumption, TypeOK
<1>2. After(buffer_read) = IF buffer_read = B - 1 THEN 0 ELSE buffer_read + 1
  BY <1>1, AfterIndex
<1>3. QueueFacts /\ QueueFacts'
  BY QueueProperties, PTL
<1>4. queue \in Seq(S) /\ Len(queue) = Stored /\ queue' \in Seq(S) /\ Len(queue') = Stored'
  BY <1>3 DEF QueueFacts
<1>5. Stored \in Nat /\ Stored > 0
  <2>1. Len(queue) # 0
    BY <1>4, EmptySeq
  <2> QED BY <1>3, <1>4, <2>1 DEF QueueFacts
<1>6. Stored' = Stored - 1
  <2> DEFINE n == IF buffer_write >= buffer_read THEN buffer_write - buffer_read
                  ELSE buffer_write + B - buffer_read
             m == IF buffer_write >= buffer_read' THEN buffer_write - buffer_read'
                  ELSE buffer_write + B - buffer_read'
  <2>1. Stored = n /\ Stored' = m
    BY <1>3 DEF QueueFacts
  <2>2. n > 0
    BY <1>5, <2>1
  <2> HIDE DEF B
  <2>3. B \in Nat /\ B > 1 /\ buffer_read' = IF buffer_read = B - 1 THEN 0 ELSE buffer_read + 1
    BY <1>1, <1>2
  <2>4. m = n - 1
    BY <1>1, <2>2, <2>3
  <2> QED BY <2>1, <2>4
<1>7. \A i \in 1..(Stored - 1) : SlotOf(i)' = SlotOf(i + 1)
  BY <1>1, <1>2, <1>3, <1>5 DEF QueueFacts, SlotOf
<1>8. \A i \in 1..(Stored - 1) : queue'[i] = queue[i + 1]
  <2> SUFFICES ASSUME NEW i \in 1..(Stored - 1) PROVE queue'[i] = queue[i + 1]
    OBVIOUS
  <2>1. i \in 1..Stored' /\ i + 1 \in 1..Stored
    BY <1>5, <1>6
  <2>2. \A j \in 1..Stored : queue[j] = keyboard_buffer[SlotOf(j)]
    BY <1>3 DEF QueueFacts
  <2>3. \A j \in 1..Stored' : queue'[j] = keyboard_buffer'[SlotOf(j)']
    BY <1>3 DEF QueueFacts
  <2> QED BY <1>7, <2>1, <2>2, <2>3
<1>9. /\ Tail(queue) \in Seq(S) /\ Len(Tail(queue)) = Stored - 1
      /\ \A i \in 1..(Stored - 1) : Tail(queue)[i] = queue[i + 1]
  <2> DEFINE q == queue
  <2>1. q \in Seq(S) /\ q # <<>> /\ Len(q) = Stored
    BY <1>4
  <2> HIDE DEF q
  <2>2. /\ Tail(q) \in Seq(S) /\ Len(Tail(q)) = Len(q) - 1
        /\ \A i \in 1..Len(Tail(q)) : Tail(q)[i] = q[i + 1]
    BY <2>1, HeadTailProperties
  <2>3. /\ Tail(q) \in Seq(S) /\ Len(Tail(q)) = Stored - 1
        /\ \A i \in 1..(Stored - 1) : Tail(q)[i] = q[i + 1]
    BY <2>1, <2>2
  <2> QED BY <2>3 DEF q
<1> DEFINE q == queue'
           t == Tail(queue)
<1>10. q \in Seq(S) /\ t \in Seq(S) /\ Len(q) = Len(t) /\ \A i \in 1..Len(q) : q[i] = t[i]
  BY <1>4, <1>6, <1>8, <1>9
<1> HIDE DEF q, t
<1>11. q = t
  BY <1>10, SeqEqual
<1> QED BY <1>11 DEF q, t
-----------------------------------------------------------------------------
(* What getchar knows                                                      *)

LEMMA ReaderInit == ASSUME Init PROVE ReaderInv /\ queue = <<>>
<1>1. Stored = 0
  <2>1. TypeOK
    BY TypeInit
  <2>2. QueueFacts
    BY <2>1, QueueProperties
  <2> QED BY <2>2, KeyboardAssumption DEF QueueFacts, Init, KeyboardAssumption
<1>2. queue = <<>>
  BY <1>1 DEF queue
<1>3. <<>> \in Seq(Characters)
  OBVIOUS
<1> QED BY <1>2, <1>3 DEF ReaderInv, Init

\* What a step does to the queue and to getchar.
QueueStep ==
  \/ queue' = queue /\ UNCHANGED got
  \/ /\ \E ch \in Characters : Len(queue) < BUFFER_SIZE - 1 /\ queue' = Append(queue, ch)
     /\ UNCHANGED got
  \/ queue # <<>> /\ queue' = Tail(queue) /\ got' = Head(queue)

LEMMA HandlerQueue ==
  ASSUME TypeOK, TypeOK', ReaderInv, keyboard_handler
  PROVE  /\ \/ queue' = queue
            \/ \E ch \in Characters : Len(queue) < BUFFER_SIZE - 1 /\ queue' = Append(queue, ch)
         /\ UNCHANGED <<c, got>> /\ pc' = Woken
<1>1. ASSUME UNCHANGED ring PROVE queue' = queue
  BY <1>1, SameQueue
<1>2. CASE HandlePrefix \/ HandleCtrl \/ HandleCtrlUp
  BY <1>1, <1>2 DEF HandlePrefix, HandleCtrl, HandleCtrlUp, Irq
<1>3. ASSUME NEW key, HandleUp(key) \/ \E up \in BOOLEAN : HandleShift(key, up)
      PROVE  UNCHANGED <<ring, c, got>> /\ pc' = Woken
  BY <1>3 DEF HandleUp, HandleShift, Irq
<1>4. ASSUME NEW key, HandleKey(key)
      PROVE  /\ \/ queue' = queue
                \/ \E ch \in Characters : Len(queue) < BUFFER_SIZE - 1 /\ queue' = Append(queue, ch)
             /\ UNCHANGED <<c, got>> /\ pc' = Woken
  <2>1. CASE ascii(key) = NoChar
    BY <1>1, <1>4, <2>1 DEF HandleKey, Irq, ring
  <2>2. CASE ascii(key) # NoChar
    <3>1. ascii(key) \in Characters /\ Push(ascii(key)) /\ UNCHANGED buffer_read
      BY <1>4, <2>2, CharacterFacts DEF HandleKey
    <3>2. queue' = IF Len(queue) < BUFFER_SIZE - 1 THEN Append(queue, ascii(key)) ELSE queue
      BY <3>1, PushQueue
    <3> QED BY <1>4, <3>1, <3>2 DEF HandleKey, Irq
  <2> QED BY <2>1, <2>2
<1> QED BY <1>1, <1>2, <1>3, <1>4 DEF keyboard_handler

\* A character at the end of a queue leaves the first one where it is.
LEMMA AppendHead ==
  ASSUME NEW q \in Seq(Characters), NEW ch \in Characters
  PROVE  /\ Append(q, ch) \in Seq(Characters) /\ Append(q, ch) # <<>>
         /\ q # <<>> => Head(Append(q, ch)) = Head(q)
<1>1. /\ Append(q, ch) \in Seq(Characters) /\ Len(Append(q, ch)) = Len(q) + 1
      /\ \A i \in 1..Len(q) : Append(q, ch)[i] = q[i]
  BY AppendProperties
<1>2. Len(q) \in Nat /\ (q # <<>> => 1 \in 1..Len(q))
  BY EmptySeq
<1> DEFINE a == Append(q, ch)
<1>3. Head(a) = a[1] /\ Head(q) = q[1]
  BY <1>1
<1>4. a # <<>>
  <2>1. Len(a) # 0
    BY <1>1, <1>2
  <2> HIDE DEF a
  <2> QED BY <2>1
<1> QED BY <1>1, <1>2, <1>3, <1>4

LEMMA ReaderStep ==
  ASSUME TypeOK, TypeOK', ReaderInv, [Next]_vars
  PROVE  ReaderInv' /\ QueueStep
<1> DEFINE Goal == ReaderInv' /\ QueueStep
<1>1. ASSUME UNCHANGED <<ring, c, got>>,
             pc' = pc \/ pc' \notin {"read", "advance"} \/ (pc' = "read" /\ queue # <<>>)
      PROVE  Goal
  <2>1. queue' = queue
    BY <1>1, SameQueue
  <2> QED BY <1>1, <2>1 DEF ReaderInv, QueueStep
<1>2. CASE keyboard_handler
  <2>1. /\ \/ queue' = queue
           \/ \E ch \in Characters : Len(queue) < BUFFER_SIZE - 1 /\ queue' = Append(queue, ch)
        /\ UNCHANGED <<c, got>> /\ pc' = Woken
    BY <1>2, HandlerQueue
  <2>2. pc' \in {"read", "advance"} => pc = pc'
    BY <2>1 DEF Woken
  <2>3. CASE queue' = queue
    BY <2>1, <2>2, <2>3 DEF ReaderInv, QueueStep
  <2>4. ASSUME NEW ch \in Characters, Len(queue) < BUFFER_SIZE - 1, queue' = Append(queue, ch)
        PROVE  Goal
    <3>1. QueueStep
      BY <2>1, <2>4 DEF QueueStep
    <3>2. /\ queue' \in Seq(Characters) /\ queue' # <<>>
          /\ queue # <<>> => Head(queue') = Head(queue)
      BY <2>4, AppendHead DEF ReaderInv
    <3>3. ReaderInv'
      BY <2>1, <2>2, <3>2 DEF ReaderInv
    <3> QED BY <3>1, <3>3
  <2> QED BY <2>1, <2>3, <2>4
<1>3. CASE timer_handler
  BY <1>1, <1>3 DEF timer_handler, Woken, ring
<1>4. CASE User
  BY <1>1, <1>4 DEF User, Press, Release, prog
<1>5. CASE Call
  BY <1>1, <1>5 DEF Call, CallOther, CallEnables, CallReturns, CallGetchar, Step
<1>6. CASE GetcharEnables \/ GetcharEmpty
  BY <1>1, <1>6 DEF GetcharEnables, GetcharEmpty, Step
<1>7. CASE GetcharAvailable
  <2>1. QueueFacts
    BY QueueProperties
  <2>2. Len(queue) # 0
    BY <1>7, <2>1, KeyboardAssumption DEF GetcharAvailable, keyboard_available, QueueFacts, TypeOK, KeyboardAssumption
  <2>3. queue # <<>>
    BY <2>2
  <2> QED BY <1>1, <1>7, <2>3 DEF GetcharAvailable, Step
<1>8. CASE GetcharRead
  <2>1. QueueFacts /\ queue # <<>>
    BY <1>8, QueueProperties DEF GetcharRead, Step, ReaderInv
  <2>2. Stored \in Nat /\ Stored > 0 /\ Head(queue) = queue[1]
    <3>1. Len(queue) # 0
      BY <2>1, EmptySeq DEF QueueFacts
    <3> QED BY <2>1, <3>1 DEF QueueFacts
  <2>3. SlotOf(1) = buffer_read
    BY KeyboardAssumption DEF KeyboardAssumption, SlotOf, TypeOK
  <2>4. c' = Head(queue)
    BY <1>8, <2>1, <2>2, <2>3 DEF GetcharRead, QueueFacts
  <2>5. queue' = queue
    BY <1>8, SameQueue DEF GetcharRead
  <2> QED BY <1>8, <2>1, <2>4, <2>5 DEF GetcharRead, Step, ReaderInv, QueueStep
<1>9. CASE GetcharReturn
  <2>1. queue # <<>> /\ c = Head(queue) /\ queue \in Seq(Characters)
    BY <1>9 DEF GetcharReturn, Step, ReaderInv
  <2>2. queue' = Tail(queue)
    BY <1>9, <2>1, ReturnQueue DEF GetcharReturn
  <2>3. Tail(queue) \in Seq(Characters)
    <3> DEFINE q == queue
    <3>1. q \in Seq(Characters) /\ q # <<>>
      BY <2>1
    <3> HIDE DEF q
    <3>2. Tail(q) \in Seq(Characters)
      BY <3>1
    <3> QED BY <3>2 DEF q
  <2> QED BY <1>9, <2>1, <2>2, <2>3 DEF GetcharReturn, Step, ReaderInv, QueueStep
<1>10. CASE UNCHANGED vars
  BY <1>1, <1>10 DEF vars, prog
<1> QED BY <1>2, <1>3, <1>4, <1>5, <1>6, <1>7, <1>8, <1>9, <1>10 DEF Next, Getchar

\* The ring is a queue: a character is put behind those that wait, or dropped
\* when BUFFER_SIZE - 1 of them do, and getchar returns the oldest, although the
\* handler may run between its test, its read and its move of buffer_read.
THEOREM ReaderCorrect == Spec => []KeyboardInv
<1>1. Init => TypeOK /\ ReaderInv
  BY TypeInit, ReaderInit
<1>2. TypeOK /\ ReaderInv /\ [Next]_vars => (TypeOK /\ ReaderInv)'
  BY TypeStep, ReaderStep
<1> QED BY <1>1, <1>2, PTL DEF Spec, KeyboardInv

THEOREM RingCorrect == Spec => RingIsQueue
<1>1. Init => Abs!Init
  BY ReaderInit, CharacterFacts DEF Abs!Init, Init
<1>2. TypeOK /\ TypeOK' /\ ReaderInv /\ [Next]_vars => [Abs!Next]_<<queue, got>>
  <2> SUFFICES ASSUME TypeOK, TypeOK', ReaderInv, [Next]_vars
               PROVE  [Abs!Next]_<<queue, got>>
    OBVIOUS
  <2>1. QueueStep
    BY ReaderStep
  <2> QED BY <2>1 DEF QueueStep, Abs!Next, Abs!Type, Abs!Get
<1> QED BY <1>1, <1>2, ReaderCorrect, PTL DEF Spec, KeyboardInv, RingIsQueue, Abs!Spec
-----------------------------------------------------------------------------
(* Keys and characters                                                     *)

\* The driver has one flag for the two shift keys and ignores the press of the
\* right control key: only with one key for each is the flag what the user
\* holds down.
OneKeyPerFlag == "RCtrl" \notin Keys /\ ~({"LShift", "RShift"} \subseteq Keys)

Flags == [shift : BOOLEAN, ctrl : BOOLEAN, e0 : BOOLEAN]

\* The flags of the driver, and those that it has when it has caught up.
Driver == [shift |-> shift_pressed, ctrl |-> ctrl_pressed, e0 |-> e0_prefix]

\* What the handler makes of a code.
FlagsAfter(f, code) ==
  [shift |-> IF code.key \in {"LShift", "RShift"} THEN ~code.up ELSE f.shift,
   ctrl |-> IF code.key = "LCtrl" THEN ~code.up /\ (~f.e0 \/ f.ctrl) ELSE f.ctrl,
   e0 |-> code.key = "E0"]

CharFor(f, code) ==
  IF code.up \/ code.key \in {"E0", "LShift", "RShift"} THEN NoChar
  ELSE IF f.e0 THEN IF code.key = "Left" THEN LeftArrow ELSE NoChar
  ELSE IF code.key \notin DOMAIN scancode_to_ascii THEN NoChar
  ELSE IF f.ctrl THEN IF IsLetter(code.key) THEN Control(code.key) ELSE NoChar
  ELSE IF f.shift /\ code.key \in DOMAIN scancode_to_ascii_shift
    THEN scancode_to_ascii_shift[code.key]
  ELSE scancode_to_ascii[code.key]

\* The codes of p take the flags from f to g, and each becomes, with the flags
\* it finds, the character that was meant.
Explained(p, f, g) ==
  \E T \in [1..(Len(p) + 1) -> Flags] :
    /\ T[1] = f /\ T[Len(p) + 1] = g
    /\ \A i \in 1..Len(p) : T[i + 1] = FlagsAfter(T[i], p[i]) /\ p[i].means = CharFor(T[i], p[i])

Held == [shift |-> pressed \cap {"LShift", "RShift"} # {},
         ctrl |-> pressed \cap {"LCtrl", "RCtrl"} # {},
         e0 |-> FALSE]

\* The codes that the driver has not seen are all that lies between its flags
\* and the keys that are held down.
MeantInv == Explained(pending, Driver, Held)

LEMMA FlagsAfterType ==
  ASSUME NEW f \in Flags, NEW code \in Codes
  PROVE  FlagsAfter(f, code) \in Flags
BY DEF FlagsAfter, Flags, Codes

LEMMA ExplainedEmpty == ASSUME NEW f \in Flags PROVE Explained(<<>>, f, f)
<1> DEFINE T == [i \in 1..1 |-> f]
<1>1. Len(<<>>) = 0
  OBVIOUS
<1>2. /\ T \in [1..(0 + 1) -> Flags] /\ T[1] = f /\ T[0 + 1] = f
      /\ \A i \in 1..0 : FALSE
  OBVIOUS
<1> HIDE DEF T
<1> QED BY <1>1, <1>2 DEF Explained

LEMMA ExplainedTail ==
  ASSUME NEW p \in Seq(Codes), NEW f, NEW g, p # <<>>, Explained(p, f, g)
  PROVE  /\ Head(p).means = CharFor(f, Head(p))
         /\ Explained(Tail(p), FlagsAfter(f, Head(p)), g)
<1>1. PICK T \in [1..(Len(p) + 1) -> Flags] :
        /\ T[1] = f /\ T[Len(p) + 1] = g
        /\ \A i \in 1..Len(p) : T[i + 1] = FlagsAfter(T[i], p[i]) /\ p[i].means = CharFor(T[i], p[i])
  BY DEF Explained
<1>2. /\ Len(p) \in Nat /\ Len(p) > 0 /\ Head(p) = p[1] /\ Len(Tail(p)) = Len(p) - 1
      /\ \A i \in 1..(Len(p) - 1) : Tail(p)[i] = p[i + 1]
  <2>1. Len(p) # 0
    BY EmptySeq
  <2>2. Len(Tail(p)) = Len(p) - 1 /\ \A i \in 1..Len(Tail(p)) : Tail(p)[i] = p[i + 1]
    BY HeadTailProperties
  <2> QED BY <2>1, <2>2
<1>3. T[2] = FlagsAfter(f, Head(p)) /\ Head(p).means = CharFor(f, Head(p))
  BY <1>1, <1>2
<1> DEFINE U == [i \in 1..Len(p) |-> T[i + 1]]
           q == Tail(p)
<1>4. U \in [1..(Len(q) + 1) -> Flags] /\ U[1] = T[2] /\ U[Len(q) + 1] = g
  BY <1>1, <1>2
<1>5. ASSUME NEW i \in 1..Len(q)
      PROVE  U[i + 1] = FlagsAfter(U[i], q[i]) /\ q[i].means = CharFor(U[i], q[i])
  <2>1. i \in 1..Len(p) /\ i + 1 \in 1..Len(p) /\ q[i] = p[i + 1]
    BY <1>2
  <2> HIDE DEF q
  <2>2. U[i] = T[i + 1] /\ U[i + 1] = T[i + 1 + 1]
    BY <2>1
  <2> HIDE DEF U
  <2> QED BY <1>1, <2>1, <2>2
<1> HIDE DEF U, q
<1>6. Explained(q, FlagsAfter(f, Head(p)), g)
  BY <1>3, <1>4, <1>5 DEF Explained
<1> QED BY <1>3, <1>6 DEF q

LEMMA ExplainedAppend ==
  ASSUME NEW p \in Seq(Codes), NEW f, NEW g, NEW code \in Codes, Explained(p, f, g),
         code.means = CharFor(g, code)
  PROVE  Explained(Append(p, code), f, FlagsAfter(g, code))
<1>1. PICK T \in [1..(Len(p) + 1) -> Flags] :
        /\ T[1] = f /\ T[Len(p) + 1] = g
        /\ \A i \in 1..Len(p) : T[i + 1] = FlagsAfter(T[i], p[i]) /\ p[i].means = CharFor(T[i], p[i])
  BY DEF Explained
<1> DEFINE n == Len(p)
           q == Append(p, code)
           h == FlagsAfter(g, code)
           U == [i \in 1..(n + 2) |-> IF i = n + 2 THEN h ELSE T[i]]
<1>2. n \in Nat /\ Len(q) = n + 1 /\ q[n + 1] = code /\ \A i \in 1..n : q[i] = p[i]
  BY AppendProperties
<1>3. h \in Flags
  <2>1. g \in Flags
    BY <1>1, <1>2
  <2> QED BY <2>1, FlagsAfterType
<1> HIDE DEF n, q, h
<1>4. T \in [1..(n + 1) -> Flags] /\ T[1] = f /\ T[n + 1] = g
  BY <1>1 DEF n
<1>5. U \in [1..(Len(q) + 1) -> Flags] /\ U[1] = f /\ U[Len(q) + 1] = h
  BY <1>2, <1>3, <1>4
<1>6. ASSUME NEW i \in 1..Len(q)
      PROVE  U[i + 1] = FlagsAfter(U[i], q[i]) /\ q[i].means = CharFor(U[i], q[i])
  <2>1. U[i] = T[i] /\ U[i + 1] = IF i = n + 1 THEN h ELSE T[i + 1]
    BY <1>2
  <2> HIDE DEF U
  <2>2. CASE i = n + 1
    BY <1>2, <1>4, <2>1, <2>2 DEF h
  <2>3. CASE i # n + 1
    <3>1. i \in 1..n /\ q[i] = p[i]
      BY <1>2, <2>3
    <3> QED BY <1>1, <2>1, <2>3, <3>1 DEF n
  <2> QED BY <2>2, <2>3
<1> HIDE DEF U
<1>7. Explained(q, f, h)
  BY <1>5, <1>6 DEF Explained
<1> QED BY <1>7 DEF q, h

LEMMA MeantInit == ASSUME Init PROVE MeantInv
<1>1. Driver \in Flags /\ Driver = Held
  BY DEF Init, Driver, Flags, Held
<1>2. Explained(<<>>, Driver, Driver)
  BY <1>1, ExplainedEmpty
<1> QED BY <1>1, <1>2 DEF MeantInv, Init

\* A code the user sends, after the prefix that some keys have.
LEMMA SendMeant ==
  ASSUME TypeOK, MeantInv, NEW k \in Keys, NEW up \in BOOLEAN, NEW means \in Characters \cup {NoChar},
         Send(k, up, means), UNCHANGED mods,
         NEW g,
         g = IF k \in Extended THEN FlagsAfter(Held, Prefix) ELSE Held,
         means = CharFor(g, Code(Base(k), up, means)),
         Held' = FlagsAfter(g, Code(Base(k), up, means))
  PROVE  MeantInv'
<1> DEFINE code == Code(Base(k), up, means)
<1>1. pending \in Seq(Codes) /\ Driver' = Driver
  BY DEF TypeOK, Codes, Driver, mods
<1>2. Prefix \in Codes /\ code \in Codes /\ code.means = means
  BY DEF Prefix, Code, Codes, Base, NoChar
<1>3. Prefix.means = CharFor(Held, Prefix)
  BY DEF Prefix, Code, CharFor
<1> HIDE DEF code
<1>4. CASE k \in Extended
  <2>1. pending \o <<Prefix>> = Append(pending, Prefix)
    BY <1>1, <1>2, AppendIsConcat
  <2>2. Append(pending, Prefix) \in Seq(Codes)
    BY <1>1, <1>2, AppendProperties
  <2>3. Append(pending, Prefix) \o <<code>> = Append(Append(pending, Prefix), code)
    BY <1>2, <2>2, AppendIsConcat
  <2>4. pending' = Append(Append(pending, Prefix), code)
    BY <1>4, <2>1, <2>3 DEF Send, code
  <2>5. Explained(Append(pending, Prefix), Driver, g)
    BY <1>1, <1>2, <1>3, <1>4, ExplainedAppend DEF MeantInv
  <2>6. Explained(Append(Append(pending, Prefix), code), Driver, FlagsAfter(g, code))
    BY <1>2, <2>2, <2>5, ExplainedAppend DEF code
  <2> QED BY <1>1, <2>4, <2>6 DEF MeantInv, code
<1>5. CASE k \notin Extended
  <2>1. pending \o <<>> = pending /\ pending \o <<code>> = Append(pending, code)
    BY <1>1, <1>2, AppendIsConcat, ConcatEmptySeq
  <2>2. pending' = Append(pending, code)
    BY <1>5, <2>1 DEF Send, code
  <2>3. Explained(Append(pending, code), Driver, FlagsAfter(g, code))
    BY <1>1, <1>2, <1>5, ExplainedAppend DEF MeantInv, code
  <2> QED BY <1>1, <2>2, <2>3 DEF MeantInv, code
<1> QED BY <1>4, <1>5

LEMMA UserMeant ==
  ASSUME TypeOK, MeantInv, OneKeyPerFlag, NEW k \in Keys, Press(k) \/ Release(k)
  PROVE  MeantInv'
<1> DEFINE g == IF k \in Extended THEN FlagsAfter(Held, Prefix) ELSE Held
<1>1. k \in {"LShift", "RShift", "LCtrl", "A", "1", "Space", "Left"}
  BY KeyboardAssumption DEF KeyboardAssumption, OneKeyPerFlag
<1>2. pressed \subseteq Keys
  BY DEF TypeOK
<1>3. /\ g.shift = Held.shift /\ g.ctrl = Held.ctrl /\ g.e0 = (k = "Left")
      /\ Base(k) = k
  BY <1>1 DEF Held, FlagsAfter, Prefix, Code, Extended, Base
<1>4. Held \in Flags /\ g \in Flags
  BY DEF Held, FlagsAfter, Prefix, Code, Flags
<1>5. CASE Press(k)
  <2> DEFINE code == Code(k, FALSE, Meant(k))
  <2>1. Meant(k) \in Characters \cup {NoChar}
    BY CharacterFacts
  <2>2. code.key = k /\ code.up = FALSE
    BY DEF Code
  <2>3. CharFor(g, code) = Meant(k)
    <3> HIDE DEF g, code
    <3>1. CASE k = "Left"
      BY <1>3, <2>2, <3>1 DEF CharFor, Meant
    <3>2. CASE k \in {"LShift", "RShift", "LCtrl"}
      BY <1>3, <2>2, <3>2 DEF CharFor, Meant, scancode_to_ascii
    <3>3. CASE k \in {"A", "1", "Space"}
      <4>1. ~g.e0 /\ code.key \notin {"E0", "LShift", "RShift"} /\ ~code.up /\ k # "Left"
        BY <1>3, <2>2, <3>3
      <4>2. g.shift = (pressed \cap {"LShift", "RShift"} # {}) /\ g.ctrl = (pressed \cap {"LCtrl", "RCtrl"} # {})
        BY <1>3 DEF Held
      <4> QED BY <2>2, <4>1, <4>2 DEF CharFor, Meant
    <3> QED BY <1>1, <3>1, <3>2, <3>3
  <2>4. Held' = FlagsAfter(g, code)
    <3>1. Held' = [shift |-> (pressed \cup {k}) \cap {"LShift", "RShift"} # {},
                   ctrl |-> (pressed \cup {k}) \cap {"LCtrl", "RCtrl"} # {},
                   e0 |-> FALSE]
      BY <1>5 DEF Press, Held
    <3>2. (pressed \cup {k}) \cap {"LShift", "RShift"} # {}
            <=> k \in {"LShift", "RShift"} \/ pressed \cap {"LShift", "RShift"} # {}
      OBVIOUS
    <3>3. (pressed \cup {k}) \cap {"LCtrl", "RCtrl"} # {}
            <=> k = "LCtrl" \/ pressed \cap {"LCtrl", "RCtrl"} # {}
      BY <1>1
    <3>4. Held.shift = (pressed \cap {"LShift", "RShift"} # {}) /\ Held.ctrl = (pressed \cap {"LCtrl", "RCtrl"} # {})
      BY DEF Held
    <3> HIDE DEF g, code
    <3>5. FlagsAfter(g, code) = [shift |-> IF k \in {"LShift", "RShift"} THEN TRUE ELSE g.shift,
                                 ctrl |-> IF k = "LCtrl" THEN ~g.e0 \/ g.ctrl ELSE g.ctrl,
                                 e0 |-> FALSE]
      BY <1>1, <2>2 DEF FlagsAfter
    <3>6. k = "LCtrl" => ~g.e0
      BY <1>3
    <3> QED BY <1>3, <3>1, <3>2, <3>3, <3>4, <3>5, <3>6
  <2>5. Send(k, FALSE, Meant(k)) /\ UNCHANGED mods
    BY <1>5 DEF Press
  <2> HIDE DEF g
  <2>6. g = IF k \in Extended THEN FlagsAfter(Held, Prefix) ELSE Held
    BY DEF g
  <2> QED BY <1>3, <2>1, <2>3, <2>4, <2>5, <2>6, SendMeant
<1>6. CASE Release(k)
  <2> DEFINE code == Code(k, TRUE, NoChar)
  <2>1. code.key = k /\ code.up = TRUE /\ CharFor(g, code) = NoChar
    BY DEF Code, CharFor
  <2>2. Held' = FlagsAfter(g, code)
    <3>1. Held' = [shift |-> (pressed \ {k}) \cap {"LShift", "RShift"} # {},
                   ctrl |-> (pressed \ {k}) \cap {"LCtrl", "RCtrl"} # {},
                   e0 |-> FALSE]
      BY <1>6 DEF Release, Held
    <3>2. (pressed \ {k}) \cap {"LShift", "RShift"} # {}
            <=> k \notin {"LShift", "RShift"} /\ pressed \cap {"LShift", "RShift"} # {}
      <4>1. ~({"LShift", "RShift"} \subseteq pressed)
        BY <1>2 DEF OneKeyPerFlag
      <4>2. k \in pressed
        BY <1>6 DEF Release
      <4> QED BY <4>1, <4>2
    <3>3. (pressed \ {k}) \cap {"LCtrl", "RCtrl"} # {}
            <=> k # "LCtrl" /\ pressed \cap {"LCtrl", "RCtrl"} # {}
      <4>1. "RCtrl" \notin pressed
        BY <1>2 DEF OneKeyPerFlag
      <4> QED BY <4>1
    <3>4. Held.shift = (pressed \cap {"LShift", "RShift"} # {}) /\ Held.ctrl = (pressed \cap {"LCtrl", "RCtrl"} # {})
      BY DEF Held
    <3> HIDE DEF g, code
    <3>5. FlagsAfter(g, code) = [shift |-> IF k \in {"LShift", "RShift"} THEN FALSE ELSE g.shift,
                                 ctrl |-> IF k = "LCtrl" THEN FALSE ELSE g.ctrl,
                                 e0 |-> FALSE]
      BY <1>1, <2>1 DEF FlagsAfter
    <3> QED BY <1>3, <3>1, <3>2, <3>3, <3>4, <3>5
  <2>3. Send(k, TRUE, NoChar) /\ UNCHANGED mods
    BY <1>6 DEF Release
  <2> HIDE DEF g
  <2>4. g = IF k \in Extended THEN FlagsAfter(Held, Prefix) ELSE Held
    BY DEF g
  <2> QED BY <1>3, <2>1, <2>2, <2>3, <2>4, SendMeant
<1> QED BY <1>5, <1>6

\* What the handler does with the flags and with the ring is what it makes of
\* the code it reads.
LEMMA HandlerMeant ==
  ASSUME TypeOK, TypeOK', keyboard_handler
  PROVE  /\ pending # <<>> /\ pending' = Tail(pending) /\ UNCHANGED pressed
         /\ Driver' = FlagsAfter(Driver, Head(pending))
         /\ LET ch == CharFor(Driver, Head(pending))
            IN  queue' = IF ch # NoChar /\ Len(queue) < BUFFER_SIZE - 1 THEN Append(queue, ch) ELSE queue
<1> DEFINE h == Head(pending)
           ch == CharFor(Driver, h)
           Goal == /\ Driver' = FlagsAfter(Driver, h)
                   /\ queue' = IF ch # NoChar /\ Len(queue) < BUFFER_SIZE - 1 THEN Append(queue, ch) ELSE queue
<1>1. shift_pressed \in BOOLEAN /\ ctrl_pressed \in BOOLEAN /\ e0_prefix \in BOOLEAN
  BY DEF TypeOK
<1>2. pending # <<>> /\ pending' = Tail(pending) /\ UNCHANGED pressed
  BY DEF keyboard_handler, HandlePrefix, HandleShift, HandleCtrl, HandleCtrlUp, HandleUp, HandleKey, Irq
<1>3. /\ Driver.shift = shift_pressed /\ Driver.ctrl = ctrl_pressed /\ Driver.e0 = e0_prefix
      /\ Driver' = [shift |-> shift_pressed', ctrl |-> ctrl_pressed', e0 |-> e0_prefix']
  BY DEF Driver
<1>4. ASSUME UNCHANGED ring, ch = NoChar, Driver' = FlagsAfter(Driver, h) PROVE Goal
  BY <1>4, SameQueue
<1>5. ASSUME HandlePrefix PROVE Goal
  <2>1. h.key = "E0" /\ h.up = FALSE /\ UNCHANGED ring
    BY <1>5 DEF HandlePrefix, Irq
  <2>2. Driver' = FlagsAfter(Driver, h) /\ ch = NoChar
    BY <1>3, <1>5, <2>1 DEF HandlePrefix, FlagsAfter, CharFor
  <2> QED BY <1>4, <2>1, <2>2
<1>6. ASSUME NEW key, NEW up \in BOOLEAN, HandleShift(key, up) PROVE Goal
  <2>1. h.key = key /\ h.up = up /\ key \in {"LShift", "RShift"} /\ UNCHANGED ring
    BY <1>6 DEF HandleShift, Irq
  <2>2. Driver' = FlagsAfter(Driver, h) /\ ch = NoChar
    BY <1>3, <1>6, <2>1 DEF HandleShift, FlagsAfter, CharFor
  <2> QED BY <1>4, <2>1, <2>2
<1>7. ASSUME HandleCtrl PROVE Goal
  <2>1. h.key = "LCtrl" /\ h.up = FALSE /\ ~e0_prefix /\ UNCHANGED ring
    BY <1>7 DEF HandleCtrl, Irq
  <2>2. Driver' = FlagsAfter(Driver, h) /\ ch = NoChar
    BY <1>1, <1>3, <1>7, <2>1 DEF HandleCtrl, FlagsAfter, CharFor, scancode_to_ascii
  <2> QED BY <1>4, <2>1, <2>2
<1>8. ASSUME HandleCtrlUp PROVE Goal
  <2>1. h.key = "LCtrl" /\ h.up = TRUE /\ UNCHANGED ring
    BY <1>8 DEF HandleCtrlUp, Irq
  <2>2. Driver' = FlagsAfter(Driver, h) /\ ch = NoChar
    BY <1>3, <1>8, <2>1 DEF HandleCtrlUp, FlagsAfter, CharFor
  <2> QED BY <1>4, <2>1, <2>2
<1>9. ASSUME NEW key, HandleUp(key) PROVE Goal
  <2>1. h.key = key /\ h.up = TRUE /\ key \notin {"E0", "LShift", "RShift", "LCtrl"} /\ UNCHANGED ring
    BY <1>9 DEF HandleUp, Irq
  <2>2. Driver' = FlagsAfter(Driver, h) /\ ch = NoChar
    BY <1>3, <1>9, <2>1 DEF HandleUp, FlagsAfter, CharFor
  <2> QED BY <1>4, <2>1, <2>2
<1>10. ASSUME NEW key, HandleKey(key) PROVE Goal
  <2>1. /\ h.key = key /\ h.up = FALSE /\ key \notin {"E0", "LShift", "RShift"}
        /\ key = "LCtrl" => e0_prefix
    BY <1>10 DEF HandleKey, Irq
  <2>2. Driver' = FlagsAfter(Driver, h)
    BY <1>1, <1>3, <1>10, <2>1 DEF HandleKey, FlagsAfter
  <2>3. ch = ascii(key)
    BY <1>3, <2>1 DEF CharFor, ascii
  <2>4. CASE ch = NoChar
    BY <1>4, <1>10, <2>2, <2>3, <2>4 DEF HandleKey, ring
  <2>5. CASE ch # NoChar
    <3>1. ch \in Characters /\ Push(ch) /\ UNCHANGED buffer_read
      BY <1>10, <2>3, <2>5, CharacterFacts DEF HandleKey
    <3> HIDE DEF ch
    <3>2. queue' = IF Len(queue) < BUFFER_SIZE - 1 THEN Append(queue, ch) ELSE queue
      BY <3>1, PushQueue
    <3> QED BY <2>2, <2>5, <3>2
  <2> QED BY <2>4, <2>5
<1>11. Goal
  BY <1>5, <1>6, <1>7, <1>8, <1>9, <1>10 DEF keyboard_handler
<1> QED BY <1>2, <1>11

MeantStep ==
  \A code \in {pending[i] : i \in {1} \cap DOMAIN pending} :
    pending' = Tail(pending) =>
      IF code.means # NoChar /\ Len(queue) < BUFFER_SIZE - 1
        THEN queue' = Append(queue, code.means)
        ELSE queue' = queue

LEMMA MeantNext ==
  ASSUME TypeOK, TypeOK', MeantInv, OneKeyPerFlag, [Next]_vars
  PROVE  MeantInv' /\ MeantStep
<1> DEFINE p == pending
<1>1. pending \in Seq(Codes) /\ pending' \in Seq(Codes)
  BY DEF TypeOK, Codes
<1>2. CASE keyboard_handler
  <2>1. /\ pending # <<>> /\ pending' = Tail(pending) /\ UNCHANGED pressed
        /\ Driver' = FlagsAfter(Driver, Head(pending))
        /\ LET ch == CharFor(Driver, Head(pending))
           IN  queue' = IF ch # NoChar /\ Len(queue) < BUFFER_SIZE - 1 THEN Append(queue, ch) ELSE queue
    BY <1>2, HandlerMeant
  <2>2. /\ Head(pending).means = CharFor(Driver, Head(pending))
        /\ Explained(Tail(pending), FlagsAfter(Driver, Head(pending)), Held)
    BY <1>1, <2>1, ExplainedTail DEF MeantInv
  <2>3. Held' = Held
    BY <2>1 DEF Held
  <2>4. MeantInv'
    BY <2>1, <2>2, <2>3 DEF MeantInv
  <2>5. MeantStep
    BY <2>1, <2>2 DEF MeantStep
  <2> QED BY <2>4, <2>5
<1>3. ASSUME UNCHANGED <<mods, pending, pressed>> PROVE MeantInv' /\ MeantStep
  <2>1. Driver' = Driver /\ Held' = Held
    BY <1>3 DEF Driver, Held, mods
  <2>2. pending # <<>> => pending' # Tail(pending)
    <3>1. pending # <<>> => Len(Tail(pending)) = Len(pending) - 1
      BY <1>1, HeadTailProperties
    <3> QED BY <1>1, <1>3, <3>1
  <2>3. {1} \cap DOMAIN pending # {} => pending # <<>>
    BY <1>1
  <2> QED BY <1>3, <2>1, <2>2, <2>3 DEF MeantInv, MeantStep
<1>4. ASSUME NEW k \in Keys, Press(k) \/ Release(k) PROVE MeantInv' /\ MeantStep
  <2>1. MeantInv'
    BY <1>4, UserMeant
  <2>2. Len(pending') > Len(pending)
    <3>1. PICK up \in BOOLEAN, means \in Characters \cup {NoChar} : Send(k, up, means)
      BY <1>4, CharacterFacts DEF Press, Release
    <3> DEFINE a == IF k \in Extended THEN <<Prefix>> ELSE <<>>
               b == <<Code(Base(k), up, means)>>
    <3>2. Prefix \in Codes /\ Code(Base(k), up, means) \in Codes
      BY DEF Prefix, Code, Codes, Base, NoChar
    <3>3. a \in Seq(Codes) /\ b \in Seq(Codes) /\ Len(b) = 1
      BY <3>2
    <3>4. pending' = (pending \o a) \o b
      BY <3>1 DEF Send
    <3> HIDE DEF a, b
    <3>5. pending \o a \in Seq(Codes) /\ Len(pending \o a) = Len(pending) + Len(a)
      BY <1>1, <3>3, ConcatProperties
    <3>6. Len(pending') = Len(pending \o a) + 1
      <4> DEFINE q == pending \o a
      <4>1. q \in Seq(Codes) /\ pending' = q \o b
        BY <3>4, <3>5
      <4> HIDE DEF q
      <4>2. Len(q \o b) = Len(q) + Len(b)
        BY <3>3, <4>1, ConcatProperties
      <4> QED BY <3>3, <4>1, <4>2 DEF q
    <3>7. Len(a) \in Nat /\ Len(pending) \in Nat
      BY <1>1, <3>3
    <3> QED BY <3>5, <3>6, <3>7
  <2>3. pending # <<>> => pending' # Tail(pending)
    <3>1. pending # <<>> => Len(Tail(pending)) = Len(pending) - 1
      BY <1>1, HeadTailProperties
    <3>2. Len(pending) \in Nat
      BY <1>1
    <3> QED BY <2>2, <3>1, <3>2
  <2>4. {1} \cap DOMAIN pending # {} => pending # <<>>
    BY <1>1
  <2> QED BY <2>1, <2>3, <2>4 DEF MeantStep
<1>5. CASE timer_handler \/ Call
  BY <1>3, <1>5 DEF timer_handler, Call, CallOther, CallEnables, CallReturns, CallGetchar, user
<1>6. CASE Getchar
  BY <1>3, <1>6 DEF Getchar, GetcharEnables, GetcharEmpty, GetcharAvailable, GetcharRead, GetcharReturn, user
<1>7. CASE UNCHANGED vars
  BY <1>3, <1>7 DEF vars, user
<1> QED BY <1>2, <1>4, <1>5, <1>6, <1>7 DEF Next, User

\* Every press of a key becomes the character that was meant when it was pressed,
\* however late the handler sees its code, and no other code becomes one: with
\* one key for each flag, and unless the ring is full.
THEOREM MeantCorrect == ASSUME OneKeyPerFlag PROVE Spec => TypedAsMeant
<1>1. Init => MeantInv
  BY MeantInit
<1>2. TypeOK /\ TypeOK' /\ MeantInv /\ [Next]_vars => MeantInv' /\ MeantStep
  BY MeantNext
<1>3. Spec => [][MeantStep]_vars
  BY <1>1, <1>2, TypeCorrect, PTL DEF Spec
<1> QED BY <1>3, PTL DEF TypedAsMeant, MeantStep
=============================================================================
