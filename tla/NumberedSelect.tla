--------------------------- MODULE NumberedSelect ---------------------------
(***************************************************************************)
(* numbered_select() of utils/navigation.py on Linux, with the terminal    *)
(* and Python's stdin between the keyboard and the function.               *)
(*                                                                         *)
(* A key is one byte or, for the arrows, a burst of three.  A read takes   *)
(* every byte that is there into the buffer of sys.stdin and hands out the *)
(* first; select() looks at the terminal and not at that buffer.  Every    *)
(* read begins with tty.setraw(), which throws away what was typed while   *)
(* nobody was reading; between two reads the terminal is in line mode,     *)
(* where select() sees nothing before a newline.                           *)
(*                                                                         *)
(* The names stay apart from those of Console, on whose screens the menu   *)
(* is shown, so that a module may extend both.                             *)
(***************************************************************************)
EXTENDS Integers, SequencesExt

CONSTANTS
  N,        \* items of the menu
  Digits,   \* the digits the user types
  Others,   \* the other keys but Enter: out of "Up", "Down", "Esc", "Q"
  MaxKeys   \* bound: keys before the user keeps to Enter

VARIABLES
  phase,     \* "key", "peek", "next" and "letter" at the reads and at the peek
             \* between them, "done" after the function has ended
  selected,  \* the item highlighted, 1 .. N
  digit_buf, \* the digits accumulated
  buffer,    \* the bytes in the buffer of sys.stdin
  next_byte, \* the byte read after an Esc
  result,    \* an item, "Esc", "Q" or, before the end, "none"
  keys       \* history: the keys typed while the function waited for one

selectVars == <<phase, selected, digit_buf, buffer, next_byte, result, keys>>

ASSUME ItemsAssumption == N \in Nat \ {0} /\ MaxKeys \in Nat
ASSUME KeysAssumption ==
  Digits \subseteq 0 .. 9 /\ Others \subseteq {"Up", "Down", "Esc", "Q"}

Items == 1 .. N

\* Values of different kinds are not compared: a digit is a record too.
Digit(d) == [kind |-> "digit", digit |-> d]
Key(k)   == [kind |-> k, digit |-> 0]

DigitKeys == {Digit(d) : d \in Digits}
OtherKeys == {Key(k) : k \in Others}
Enter == Key("Enter")

\* The bytes of a key.
Bytes(k) ==
  IF k = Key("Up") THEN <<Key("Esc"), Key("["), Key("A")>>
  ELSE IF k = Key("Down") THEN <<Key("Esc"), Key("["), Key("B")>>
  ELSE <<k>>

Item(i) == [kind |-> "item", digit |-> i]
Results == {Item(i) : i \in Items} \union {Key("Esc"), Key("Q"), Key("none")}

SelectTypeOK ==
  /\ phase \in {"key", "peek", "next", "letter", "done"}
  /\ selected \in Items
  /\ \A i \in DOMAIN digit_buf : digit_buf[i] \in Digits
  /\ Len(buffer) <= 3
  /\ result \in Results
  /\ result = Key("none") <=> phase # "done"

\* What an arrow that has ended the last menu left in the buffer.
Rests == {Tail(Bytes(Key(k))) : k \in {"Up", "Down"}}

SelectInit ==
  /\ phase = "key" /\ selected = 1 /\ digit_buf = <<>>
  /\ buffer \in {<<>>} \union Rests /\ next_byte = Key("none")
  /\ result = Key("none") /\ keys = <<>>

-----------------------------------------------------------------------------
(* Variants: slips that the properties must notice. *)

\* The number is committed and the buffer left as it is.
KeepDigits == UNCHANGED digit_buf

-----------------------------------------------------------------------------
(* Helpers *)

\* int(digit_buf)
Number(s) ==
  LET upTo[i \in 0 .. Len(s)] == IF i = 0 THEN 0 ELSE 10 * upTo[i - 1] + s[i]
  IN upTo[Len(s)]

IsItem(n) == n \in Items

\* The highlight moves round: (selected + by) % len(items) counted from 0.
Step(by) == selected' = ((selected - 1 + by) % N) + 1

Again == phase' = "key" /\ UNCHANGED result
EndWith(r) == phase' = "done" /\ result' = r

Discard == digit_buf' = <<>>

-----------------------------------------------------------------------------
(* The keyboard *)

Reading == phase \in {"key", "next", "letter"} /\ buffer = <<>>

\* Bound on the history, longer than any that ends the menu.
LongestHistory == 2 * MaxKeys + 2

Note(k) == keys' = IF Len(keys) < LongestHistory THEN Append(keys, k) ELSE keys

\* A key reaches a read: its bytes at once, or the first one only, the others
\* being thrown away by the next setraw().
Type(k) ==
  /\ Reading
  /\ \E n \in {1, Len(Bytes(k))} : buffer' = SubSeq(Bytes(k), 1, n)
  /\ Note(k)
  /\ UNCHANGED <<phase, selected, digit_buf, next_byte, result>>

TypeKey == \E k \in DigitKeys \union OtherKeys : Len(keys) < MaxKeys /\ Type(k)

TypeEnter == Type(Enter)

-----------------------------------------------------------------------------
(* _read_key() and what follows it *)

TakeByte(b) ==
  /\ buffer # <<>> /\ b = Head(buffer)
  /\ buffer' = Tail(buffer)
  /\ UNCHANGED keys

\* A single digit that is an item moves the highlight at once.
Jump(d) == selected' = d /\ Discard

ReadDigit ==
  \E d \in Digits :
    /\ phase = "key" /\ TakeByte(Digit(d))
    /\ LET typed == Append(digit_buf, d)
       IN IF Number(typed) > N
          THEN Discard /\ UNCHANGED selected
          ELSE IF Len(typed) = 1 /\ d # 0
               THEN Jump(d)
               ELSE digit_buf' = typed /\ UNCHANGED selected
    /\ Again
    /\ UNCHANGED next_byte

\* Enter with digits in the buffer jumps; the next one confirms.
Commit == Discard

ReadEnter ==
  /\ phase = "key" /\ TakeByte(Enter)
  /\ IF digit_buf # <<>>
     THEN /\ selected' = IF IsItem(Number(digit_buf)) THEN Number(digit_buf) ELSE selected
          /\ Commit /\ Again
     ELSE EndWith(Item(selected)) /\ UNCHANGED <<selected, digit_buf>>
  /\ UNCHANGED next_byte

ReadQ ==
  /\ phase = "key" /\ TakeByte(Key("Q"))
  /\ EndWith(Key("Q")) /\ Discard
  /\ UNCHANGED <<selected, next_byte>>

\* Any other byte, such as the rest of an arrow, only redraws.
ReadOther ==
  /\ phase = "key" /\ (TakeByte(Key("[")) \/ TakeByte(Key("A")) \/ TakeByte(Key("B")))
  /\ UNCHANGED <<phase, selected, digit_buf, next_byte, result>>

ReadEsc ==
  /\ phase = "key" /\ TakeByte(Key("Esc"))
  /\ phase' = "peek"
  /\ UNCHANGED <<selected, digit_buf, next_byte, result>>

\* Nothing on the terminal within the 50 ms: a standalone Esc.
PeekEmpty ==
  /\ phase = "peek"
  /\ Discard /\ EndWith(Key("Esc"))
  /\ UNCHANGED <<selected, buffer, next_byte, keys>>

\* Only an Enter makes select() return; the read that follows throws it away.
PeekReady ==
  /\ phase = "peek"
  /\ phase' = "next" /\ Note(Enter)
  /\ UNCHANGED <<selected, digit_buf, buffer, next_byte, result>>

ReadNext ==
  /\ phase = "next" /\ buffer # <<>> /\ TakeByte(Head(buffer))
  /\ next_byte' = Head(buffer)
  /\ IF Head(buffer) = Key("[")
     THEN phase' = "letter" /\ UNCHANGED <<digit_buf, result>>
     ELSE Discard /\ EndWith(Key("Esc"))
  /\ UNCHANGED selected

ReadLetter ==
  /\ phase = "letter" /\ buffer # <<>> /\ TakeByte(Head(buffer))
  /\ \/ Head(buffer) = Key("A") /\ Step(-1)
     \/ Head(buffer) = Key("B") /\ Step(1)
  /\ Discard /\ Again
  /\ UNCHANGED next_byte

Read == ReadDigit \/ ReadEnter \/ ReadQ \/ ReadOther \/ ReadEsc \/ ReadNext \/ ReadLetter

\* The caller goes on with the result.
Done == phase = "done" /\ UNCHANGED selectVars

SelectNext == TypeKey \/ TypeEnter \/ Read \/ PeekEmpty \/ PeekReady \/ Done

SelectSpec == SelectInit /\ [][SelectNext]_selectVars

\* The function runs on, and a user who wants to get on presses Enter.
FairSelectSpec == SelectSpec /\ WF_selectVars(Read \/ PeekEmpty) /\ WF_selectVars(TypeEnter)

-----------------------------------------------------------------------------
(* Properties *)

\* Whatever was typed before, Enter and Enter again end the menu: no digit,
\* no arrow and no rest of one leaves it deaf.
EnterEnds == <>(phase = "done")

IsDigit(k) == k.kind = "digit"

\* A number begins with the key ks[i] and goes at least to ks[j].
Begins(ks, i, j) ==
  /\ i = 1 \/ ~IsDigit(ks[i - 1])
  /\ \A m \in i .. j : IsDigit(ks[m])

NumberAt(ks, i, j) == Number([m \in 1 .. j - i + 1 |-> ks[i + m - 1].digit])

\* One of the numbers in the first n keys.
Whole(ks, n, i, j) == Begins(ks, i, j) /\ (j = n \/ ~IsDigit(ks[j + 1]))

\* The last of them that is an item is v; the first item if there is none.
Names(ks, n, v) ==
  \/ \E i \in 1 .. n : \E j \in i .. n :
       /\ Whole(ks, n, i, j) /\ v = NumberAt(ks, i, j) /\ IsItem(v)
       /\ \A k \in 1 .. n : \A l \in k .. n :
            k > j /\ Whole(ks, n, k, l) => ~IsItem(NumberAt(ks, k, l))
  \/ /\ v = 1
     /\ \A k \in 1 .. n : \A l \in k .. n :
          Whole(ks, n, k, l) => ~IsItem(NumberAt(ks, k, l))

\* Numbers of one digit, or with a leading zero, which do not exceed the menu on
\* their way: what the buffer of digits does with them is beyond doubt.
Spelled(ks) ==
  /\ \A i \in DOMAIN ks : ks[i] \in DigitKeys \union {Enter}
  /\ \A i \in DOMAIN ks : \A j \in i .. Len(ks) :
       Begins(ks, i, j) => ~(NumberAt(ks, i, j) > N) /\ (i = j \/ ks[i] = Digit(0))

\* The item returned is the last that was typed: digits that were committed,
\* jumped to or named no item leave nothing behind for the next number, nor does an
\* arrow that the menu before has left in the buffer.
NumbersDecide ==
  result.kind = "item" /\ Spelled(keys) => Names(keys, Len(keys), result.digit)

\* "Supports multi-digit number shortcuts (10-99) via buffered digit input
\* committed with Enter" (utils/navigation.py:153-154): two digits that make the
\* number of an item, and Enter, select that item.
TwoDigitShortcut ==
  /\ Len(keys) >= 3 /\ result.kind = "item"
  /\ keys[1].kind = "digit" /\ keys[2].kind = "digit"
  /\ keys[1].digit # 0
  /\ IsItem(10 * keys[1].digit + keys[2].digit)
  /\ \A i \in 3 .. Len(keys) : keys[i] = Enter
  => result = Item(10 * keys[1].digit + keys[2].digit)

\* "ANSI arrow = ESC [ X arrives as burst" (utils/navigation.py:193): an arrow
\* moves the highlight and is no Esc, so the menu is left only by an Esc.
ArrowIsNoEsc == result = Key("Esc") => Contains(keys, Key("Esc"))
=============================================================================
