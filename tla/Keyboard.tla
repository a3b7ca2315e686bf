------------------------------ MODULE Keyboard ------------------------------
(***************************************************************************)
(* The keyboard driver (src/src/keyboard.c): the interrupt handler of IRQ1  *)
(* fills a ring that keyboard_getchar, under SYSCALL_GETCHAR, empties.      *)
(*                                                                         *)
(* The processor runs one program.  A system call enters with interrupts    *)
(* off (its gate is an interrupt gate); SYSCALL_GETCHAR turns them on.  The  *)
(* handler runs with interrupts off, so it is one step, between any two     *)
(* steps of getchar.  The timer interrupt only wakes the processor here.    *)
(* The build does not optimise, so the accesses to the ring stay in order.  *)
(***************************************************************************)
EXTENDS Naturals, Sequences

CONSTANTS
  BUFFER_SIZE,
  Keys,        \* the keys of the keyboard that are used
  MaxStrokes,  \* bound on the presses and releases made
  MaxPending   \* bound on the scancodes the keyboard holds back

ASSUME KeyboardAssumption ==
  /\ BUFFER_SIZE \in Nat /\ BUFFER_SIZE > 1
  /\ Keys \subseteq {"LShift", "RShift", "LCtrl", "RCtrl", "A", "1", "Space", "Left"}
  /\ MaxStrokes \in Nat /\ MaxPending \in Nat

(***************************************************************************)
(* The keyboard.  A key sends its code when pressed and when released; the  *)
(* codes of the newer keys follow a prefix.  A code comes with the          *)
(* character the user means by it, which the driver does not see.           *)
(***************************************************************************)
NoChar == "none"
Code(key, up, means) == [key |-> key, up |-> up, means |-> means]
Prefix == Code("E0", FALSE, NoChar)

Extended == {"RCtrl", "Left"}

\* The key on the old keyboard that sends the same code.
Base(k) == IF k = "RCtrl" THEN "LCtrl" ELSE k

\* The tables, by classes of keys: Space stands for those beyond the end of
\* the second one.  (Left is in the first as the 4 of the keypad, without a
\* character.)
scancode_to_ascii == [k \in {"A", "1", "Space"} |-> CASE k = "A" -> "a" [] k = "1" -> "1" [] k = "Space" -> " "]
scancode_to_ascii_shift == [k \in {"A", "1"} |-> CASE k = "A" -> "A" [] k = "1" -> "!"]
IsLetter(k) == k = "A"
Control(k) == "^A"
LeftArrow == "<-"
Characters == {"a", "1", " ", "A", "!", "^A", LeftArrow}

VARIABLES
  keyboard_buffer, buffer_read, buffer_write,
  shift_pressed, ctrl_pressed, e0_prefix,
  interrupts,   \* the processor's interrupt flag
  pc,           \* where the program is
  c,            \* getchar's local
  got,          \* what getchar returned last
  pressed,      \* the keys held down
  pending,      \* codes sent and not yet read by the handler
  strokes       \* presses and releases so far

ring == <<keyboard_buffer, buffer_read, buffer_write>>
mods == <<shift_pressed, ctrl_pressed, e0_prefix>>
prog == <<interrupts, pc, c, got>>
user == <<pressed, pending, strokes>>
vars == <<ring, mods, prog, user>>

TypeOK ==
  /\ keyboard_buffer \in [0..(BUFFER_SIZE - 1) -> Characters \cup {NoChar}]
  /\ buffer_read \in 0..(BUFFER_SIZE - 1) /\ buffer_write \in 0..(BUFFER_SIZE - 1)
  /\ shift_pressed \in BOOLEAN /\ ctrl_pressed \in BOOLEAN /\ e0_prefix \in BOOLEAN
  /\ interrupts \in BOOLEAN
  /\ pc \in {"program", "call", "getchar", "wait", "hlt", "read", "advance"}
  /\ c \in Characters \cup {NoChar} /\ got \in Characters \cup {NoChar}
  /\ pressed \subseteq Keys /\ strokes \in Nat
  /\ pending \in Seq([key : {"E0"} \cup Keys \cup {"LCtrl"}, up : BOOLEAN,
                      means : Characters \cup {NoChar}])

-----------------------------------------------------------------------------
(* The user                                                                *)

\* The character a user means by pressing k while holding the keys in pressed.
Meant(k) ==
  IF k = "Left" THEN LeftArrow
  ELSE IF k \notin DOMAIN scancode_to_ascii THEN NoChar
  ELSE IF pressed \cap {"LCtrl", "RCtrl"} # {} THEN IF IsLetter(k) THEN Control(k) ELSE NoChar
  ELSE IF pressed \cap {"LShift", "RShift"} # {} /\ k \in DOMAIN scancode_to_ascii_shift
    THEN scancode_to_ascii_shift[k]
  ELSE scancode_to_ascii[k]

Send(k, up, means) ==
  /\ strokes < MaxStrokes /\ Len(pending) < MaxPending
  /\ strokes' = strokes + 1
  /\ pending' = pending \o (IF k \in Extended THEN <<Prefix>> ELSE <<>>)
                        \o <<Code(Base(k), up, means)>>

\* A key held down repeats.
Press(k) ==
  /\ Send(k, FALSE, Meant(k))
  /\ pressed' = pressed \cup {k}
  /\ UNCHANGED <<ring, mods, prog>>

Release(k) ==
  /\ k \in pressed
  /\ Send(k, TRUE, NoChar)
  /\ pressed' = pressed \ {k}
  /\ UNCHANGED <<ring, mods, prog>>

-----------------------------------------------------------------------------
(* keyboard_handler                                                        *)

\* Any interrupt ends a hlt.
Woken == IF pc = "hlt" THEN "wait" ELSE pc

\* The interrupt is taken, and the handler reads a code.
Irq(key, up) ==
  /\ interrupts /\ pending # <<>>
  /\ Head(pending).key = key /\ Head(pending).up = up
  /\ pending' = Tail(pending)
  /\ pc' = Woken
  /\ UNCHANGED <<interrupts, c, got, pressed, strokes>>

HandlePrefix ==
  /\ Irq("E0", FALSE)
  /\ e0_prefix' = TRUE
  /\ UNCHANGED <<ring, shift_pressed, ctrl_pressed>>

HandleShift(key, up) ==
  /\ key \in {"LShift", "RShift"}
  /\ Irq(key, up)
  /\ shift_pressed' = ~up /\ e0_prefix' = FALSE
  /\ UNCHANGED <<ring, ctrl_pressed>>

HandleCtrl ==
  /\ Irq("LCtrl", FALSE) /\ ~e0_prefix
  /\ ctrl_pressed' = TRUE
  /\ UNCHANGED <<ring, shift_pressed, e0_prefix>>

\* With or without the prefix.
HandleCtrlUp ==
  /\ Irq("LCtrl", TRUE)
  /\ ctrl_pressed' = FALSE /\ e0_prefix' = FALSE
  /\ UNCHANGED <<ring, shift_pressed>>

\* Mutant: the prefix of a release is taken for that of the next key.
HandleUpPrefix(key) ==
  /\ key \notin {"E0", "LShift", "RShift", "LCtrl"}
  /\ Irq(key, TRUE)
  /\ UNCHANGED <<ring, mods>>
HandleUp(key) ==
  /\ key \notin {"E0", "LShift", "RShift", "LCtrl"}
  /\ Irq(key, TRUE)
  /\ e0_prefix' = FALSE
  /\ UNCHANGED <<ring, shift_pressed, ctrl_pressed>>

ascii(key) ==
  IF e0_prefix THEN IF key = "Left" THEN LeftArrow ELSE NoChar
  ELSE IF key \notin DOMAIN scancode_to_ascii THEN NoChar
  ELSE IF ctrl_pressed THEN IF IsLetter(key) THEN Control(key) ELSE NoChar
  ELSE IF shift_pressed /\ key \in DOMAIN scancode_to_ascii_shift
    THEN scancode_to_ascii_shift[key]
  ELSE scancode_to_ascii[key]

\* Mutant: no index wraps.
AfterUnwrapped(i) == i + 1
After(i) == (i + 1) % BUFFER_SIZE

\* Mutant: the ring is never full.
PushOver(ch) ==
  /\ keyboard_buffer' = [keyboard_buffer EXCEPT ![buffer_write] = ch]
  /\ buffer_write' = After(buffer_write)
Push(ch) ==
  \/ /\ After(buffer_write) # buffer_read
     /\ keyboard_buffer' = [keyboard_buffer EXCEPT ![buffer_write] = ch]
     /\ buffer_write' = After(buffer_write)
  \/ /\ After(buffer_write) = buffer_read
     /\ UNCHANGED <<keyboard_buffer, buffer_write>>

HandleKey(key) ==
  /\ key \notin {"E0", "LShift", "RShift"} /\ (key = "LCtrl" => e0_prefix)
  /\ Irq(key, FALSE)
  /\ e0_prefix' = FALSE
  /\ \/ ascii(key) # NoChar /\ Push(ascii(key))
     \/ ascii(key) = NoChar /\ UNCHANGED <<keyboard_buffer, buffer_write>>
  /\ UNCHANGED <<buffer_read, shift_pressed, ctrl_pressed>>

keyboard_handler ==
  \/ HandlePrefix
  \/ \E key \in Keys \cup {"LCtrl"} :
       HandleKey(key) \/ HandleUp(key) \/ \E up \in BOOLEAN : HandleShift(key, up)
  \/ HandleCtrl \/ HandleCtrlUp

\* timer_handler, when it has somebody to wake.
timer_handler ==
  /\ interrupts /\ pc = "hlt"
  /\ pc' = Woken
  /\ UNCHANGED <<ring, mods, interrupts, c, got, user>>

-----------------------------------------------------------------------------
(* The program: SYSCALL_GETCHAR, and any other call                        *)

Step(from, to) == pc = from /\ pc' = to

CallOther ==
  /\ Step("program", "call")
  /\ interrupts' = FALSE
  /\ UNCHANGED <<ring, mods, c, got, user>>

\* fdc_wait_irq turns interrupts on in a call that reads the disk.
CallEnables ==
  /\ Step("call", "call")
  /\ interrupts' = TRUE
  /\ UNCHANGED <<ring, mods, c, got, user>>

CallReturns ==
  /\ Step("call", "program")
  /\ interrupts' = TRUE
  /\ UNCHANGED <<ring, mods, c, got, user>>

CallGetchar ==
  /\ Step("program", "getchar")
  /\ interrupts' = FALSE
  /\ UNCHANGED <<ring, mods, c, got, user>>

\* Mutant: no sti.
GetcharMasked ==
  /\ Step("getchar", "wait")
  /\ UNCHANGED <<ring, mods, interrupts, c, got, user>>
GetcharEnables ==
  /\ Step("getchar", "wait")
  /\ interrupts' = TRUE
  /\ UNCHANGED <<ring, mods, c, got, user>>

keyboard_available == buffer_read # buffer_write

\* A key may arrive between the test and the hlt.
GetcharEmpty ==
  /\ Step("wait", "hlt")
  /\ ~keyboard_available
  /\ UNCHANGED <<ring, mods, interrupts, c, got, user>>

GetcharAvailable ==
  /\ Step("wait", "read")
  /\ keyboard_available
  /\ UNCHANGED <<ring, mods, interrupts, c, got, user>>

GetcharRead ==
  /\ Step("read", "advance")
  /\ c' = keyboard_buffer[buffer_read]
  /\ UNCHANGED <<ring, mods, interrupts, got, user>>

GetcharReturn ==
  /\ Step("advance", "program")
  /\ buffer_read' = After(buffer_read)
  /\ got' = c
  /\ interrupts' = TRUE
  /\ UNCHANGED <<keyboard_buffer, buffer_write, mods, c, user>>

Getchar ==
  \/ GetcharEnables \/ GetcharEmpty \/ GetcharAvailable
  \/ GetcharRead \/ GetcharReturn

Call == CallOther \/ CallEnables \/ CallReturns \/ CallGetchar

-----------------------------------------------------------------------------

Init ==
  /\ keyboard_buffer = [i \in 0..(BUFFER_SIZE - 1) |-> NoChar]
  /\ buffer_read = 0 /\ buffer_write = 0
  /\ shift_pressed = FALSE /\ ctrl_pressed = FALSE /\ e0_prefix = FALSE
  /\ interrupts = TRUE /\ pc = "program" /\ c = NoChar /\ got = NoChar
  /\ pressed = {} /\ pending = <<>> /\ strokes = 0

User == \E k \in Keys : Press(k) \/ Release(k)

Next == User \/ keyboard_handler \/ timer_handler \/ Getchar \/ Call

\* The timer ticks for ever, an interrupt that stays raised is taken, and
\* getchar runs.  Nobody needs to type, or to call.
Spec ==
  /\ Init /\ [][Next]_vars
  /\ WF_vars(Getchar) /\ WF_vars(keyboard_handler) /\ WF_vars(timer_handler)

-----------------------------------------------------------------------------
(* Properties                                                              *)

\* The characters in the ring, from the next one to be read.
Stored == (buffer_write + BUFFER_SIZE - buffer_read) % BUFFER_SIZE
queue == [i \in 1..Stored |-> keyboard_buffer[(buffer_read + i - 1) % BUFFER_SIZE]]

\* What getchar knows between two of its steps, whatever the handler does: the
\* character it has found is still there, and what it has read is the oldest.
\* Only characters are in the queue, never a slot that was not written to.
ReaderInv ==
  /\ pc \in {"read", "advance"} => queue # <<>>
  /\ pc = "advance" => c = Head(queue)
  /\ queue \in Seq(Characters)

\* Every variable keeps its type, and the reader's knowledge is never stale.
KeyboardInv == TypeOK /\ ReaderInv

Abs == INSTANCE KeyQueue WITH Capacity <- BUFFER_SIZE - 1

\* The ring is a queue of BUFFER_SIZE - 1 characters, whatever the handler does
\* between two steps of getchar.
RingIsQueue == Abs!Spec

\* Every key press becomes the character the user meant by it, although the
\* driver only sees codes, later: what prefixes, shift and control leave behind
\* never falls on another key.  Only a full ring drops a character.
TypedAsMeant ==
  [][\A code \in {pending[i] : i \in {1} \cap DOMAIN pending} :
       pending' = Tail(pending) =>
         IF code.means # NoChar /\ Len(queue) < BUFFER_SIZE - 1
           THEN queue' = Append(queue, code.means)
           ELSE queue' = queue]_vars

\* A program that calls getchar gets a key if there is one or one comes, also
\* one that comes between the test of the ring and the hlt.
Coming == queue # <<>> \/ \E i \in DOMAIN pending : pending[i].means # NoChar
GetcharReturns == pc \in {"getchar", "wait", "hlt"} /\ Coming ~> pc = "program"

=============================================================================
