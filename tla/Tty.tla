-------------------------------- MODULE Tty --------------------------------
(***************************************************************************)
(* The terminal of NeptuneOS: the interrupt handlers and input rings of    *)
(* kernel/irq.c, the line editing of kernel/tty.c and the VGA text screen  *)
(* of arch/x86_64/console.c.                                               *)
(*                                                                         *)
(* One program reads at a time (the shell, or the one it waits for).  A    *)
(* read runs in a system call, with interrupts off: characters arrive      *)
(* while the program computes or sleeps in irq_wait_input.  How that sleep *)
(* ends is the subject of Sched; here it ends when there is input.         *)
(* Characters stand for classes of characters, colours and the serial copy *)
(* of the output are left out.                                             *)
(***************************************************************************)
EXTENDS Integers, Sequences, SequencesExt

CONSTANTS
  KbSlots, ComSlots,  \* characters a ring holds: KB_BUF_SIZE - 1, COM_BUF_SIZE - 1
  Rows, Cols,         \* VGA_ROWS, VGA_COLS
  Scancodes,          \* what the keyboard sends
  Bytes,              \* what the serial line sends
  Lens,               \* buffer lengths of reads
  MaxInput            \* bound: scancodes and bytes that arrive

ASSUME TtyAssumption ==
  /\ {KbSlots, ComSlots, Rows, Cols} \subseteq Nat \ {0}
  /\ Rows >= 2 /\ MaxInput \in Nat
  /\ Scancodes \subseteq {"shift", "unshift", "enter", "back", "a", "break"}
  /\ Bytes \subseteq {"x", "CR", "LF", "BS"}

Blank == " "
NL == "LF"
BS == "BS"

VARIABLES
  kb, com,   \* the rings
  shift,     \* shift_state
  pc,        \* of the reader: in user mode, in tty_read, or asleep in it
  len, buf,  \* arguments of tty_read: length, and the count characters read
  screen,    \* [cell, row, col]: VGA text and cursor
  typed,     \* history: what arrived, in order, with its source
  lost,      \* history: a full ring has dropped something
  mixed,     \* history: other output came since the read began
  lines      \* history: what reads have returned

rings == <<kb, com>>
history == <<typed, lost>>
vars == <<rings, shift, pc, len, buf, screen, history, mixed, lines>>

-----------------------------------------------------------------------------
(* arch/x86_64/console.c, on the record screen.                            *)

At(row, col) == row * Cols + col
Cell == 0..Rows * Cols - 1

scroll_if_needed(s) ==
  IF s.row < Rows THEN s
  ELSE [s EXCEPT !.row = Rows - 1,
          !.cell = [p \in Cell |-> IF p + Cols \in Cell THEN @[p + Cols] ELSE Blank]]

advance_cursor(s) ==
  IF s.col + 1 >= Cols
    THEN scroll_if_needed([s EXCEPT !.col = 0, !.row = @ + 1])
    ELSE [s EXCEPT !.col = @ + 1]

arch_console_write_char(s, c) ==
  IF c = NL THEN scroll_if_needed([s EXCEPT !.col = 0, !.row = @ + 1])
  ELSE advance_cursor([scroll_if_needed(s) EXCEPT !.cell[At(s.row, s.col)] = c])

\* Mutant of arch_console_backspace: stops at the left margin.
BackspaceStops(s) ==
  IF s.col = 0 THEN s
  ELSE [s EXCEPT !.col = @ - 1, !.cell[At(s.row, s.col - 1)] = Blank]

Erase(s, row, col) ==
  [s EXCEPT !.row = row, !.col = col, !.cell[At(row, col)] = Blank]

arch_console_backspace(s) ==
  IF s.row = 0 /\ s.col = 0 THEN s
  ELSE IF s.col = 0 THEN Erase(s, s.row - 1, Cols - 1)
  ELSE Erase(s, s.row, s.col - 1)

-----------------------------------------------------------------------------
(* irq.c *)

Room == Len(typed) < MaxInput
Arrives(source, c) == typed' = Append(typed, <<source, c>>)

\* A full ring drops the code.
kb_push(sc) ==
  \/ Len(kb) < KbSlots /\ kb' = Append(kb, sc) /\ UNCHANGED lost
  \/ Len(kb) = KbSlots /\ UNCHANGED kb /\ lost' = TRUE

irq_com_push(ch) ==
  \/ Len(com) < ComSlots /\ com' = Append(com, ch) /\ UNCHANGED lost
  \/ Len(com) = ComSlots /\ UNCHANGED com /\ lost' = TRUE

\* irq_dispatch, for the keyboard and for COM1 with data ready (without, it
\* only clears the interrupt).
KeyboardIrq(sc) ==
  /\ pc # "read" /\ Room
  /\ Arrives("kb", sc) /\ kb_push(sc)
  /\ UNCHANGED <<com, shift, pc, len, buf, screen, mixed, lines>>

SerialIrq(ch) ==
  /\ pc # "read" /\ Room
  /\ Arrives("com", ch) /\ irq_com_push(ch)
  /\ UNCHANGED <<kb, shift, pc, len, buf, screen, mixed, lines>>

-----------------------------------------------------------------------------
(* tty.c *)

\* scancode_map and scancode_shift_map; NoChar where the tables are 0.
NoChar == "none"
KeyChar(sc, shifted) ==
  CASE sc = "enter" -> NL
    [] sc = "back" -> BS
    [] sc = "a" -> (IF shifted THEN "A" ELSE "a")
    [] OTHER -> NoChar

\* Mutant of ShiftAfter: any key that is let go ends the shift.
ShiftAnyBreak(sc, shifted) ==
  sc = "shift" \/ (shifted /\ sc \notin {"unshift", "break"})

\* shift_state after scancode_to_char.
ShiftAfter(sc, shifted) == sc = "shift" \/ (shifted /\ sc # "unshift")

\* The serial line's carriage return is a newline.
ComChar(ch) == IF ch = "CR" THEN NL ELSE ch

\* One character of input in the loop of tty_read, with its echo.
Accept(c) ==
  \/ /\ c = BS /\ buf # <<>>
     /\ buf' = Front(buf) /\ screen' = arch_console_backspace(screen)
     /\ UNCHANGED <<pc, lines>>
  \/ /\ c = BS /\ buf = <<>>
     /\ UNCHANGED <<pc, buf, screen, lines>>
  \/ /\ c # BS
     /\ screen' = arch_console_write_char(screen, c)
     /\ IF c = NL \/ Len(buf) + 1 = len
          THEN /\ pc' = "user" /\ buf' = <<>>
               /\ lines' = Append(lines, Append(buf, c))
          ELSE buf' = Append(buf, c) /\ UNCHANGED <<pc, lines>>

\* A program reads; a length of 0 is refused before tty_read.
Read(n) ==
  /\ pc = "user"
  /\ pc' = "read" /\ len' = n /\ buf' = <<>> /\ mixed' = FALSE
  /\ UNCHANGED <<rings, shift, screen, history, lines>>

\* irq_com_pop comes first in every round.
PopCom ==
  /\ pc = "read" /\ com # <<>>
  /\ com' = Tail(com) /\ Accept(ComChar(Head(com)))
  /\ UNCHANGED <<kb, shift, len, history, mixed>>

PopKb ==
  /\ pc = "read" /\ com = <<>> /\ kb # <<>>
  /\ kb' = Tail(kb)
  /\ shift' = ShiftAfter(Head(kb), shift)
  /\ \/ /\ KeyChar(Head(kb), shift) # NoChar
        /\ Accept(KeyChar(Head(kb), shift))
     \/ /\ KeyChar(Head(kb), shift) = NoChar
        /\ UNCHANGED <<pc, buf, screen, lines>>
  /\ UNCHANGED <<com, len, history, mixed>>

\* Mutant of irq_has_input: looks at the serial ring only.
HasInputCom == com # <<>>

irq_has_input == kb # <<>> \/ com # <<>>

\* irq_wait_input, and the return of sched_sleep_cond from it.
Wait ==
  /\ pc = "read" /\ kb = <<>> /\ com = <<>>
  /\ pc' = "asleep"
  /\ UNCHANGED <<rings, shift, len, buf, screen, history, mixed, lines>>

Wake ==
  /\ pc = "asleep" /\ irq_has_input
  /\ pc' = "read"
  /\ UNCHANGED <<rings, shift, len, buf, screen, history, mixed, lines>>

\* tty_write or a log line of another thread, while the reader is asleep.
Output ==
  /\ pc = "asleep" /\ ~mixed
  /\ screen' = arch_console_write_char(screen, "o") /\ mixed' = TRUE
  /\ UNCHANGED <<rings, shift, pc, len, buf, history, lines>>

Init ==
  /\ kb = <<>> /\ com = <<>> /\ shift = FALSE
  /\ pc = "user" /\ len = 0 /\ buf = <<>>
  /\ screen = [cell |-> [p \in Cell |-> Blank], row |-> 0, col |-> 0]
  /\ typed = <<>> /\ lost = FALSE /\ mixed = FALSE /\ lines = <<>>

Reader == PopCom \/ PopKb \/ Wait \/ Wake

Next ==
  \/ Reader \/ Output
  \/ \E sc \in Scancodes : KeyboardIrq(sc)
  \/ \E ch \in Bytes : SerialIrq(ch)
  \/ \E n \in Lens : Read(n)

\* A woken reader runs again (IdleYields and NoOvertaking of SchedFair).
Spec == Init /\ [][Next]_vars /\ WF_vars(Reader)

-----------------------------------------------------------------------------
(* Properties.                                                             *)

\* What the reader has taken from its one source.
OneSource == \A i, j \in DOMAIN typed : typed[i][1] = typed[j][1]
Taken == SubSeq(typed, 1, Len(typed) - Len(kb) - Len(com))

\* The character the i-th input means: a key is shifted when a shift key went
\* down before it and none was let go since.
Shifted(i) ==
  \E j \in 1..i - 1 : /\ typed[j][2] = "shift"
                      /\ \A k \in j + 1..i - 1 : typed[k][2] # "unshift"
Meaning(i) == IF typed[i][1] = "com" THEN ComChar(typed[i][2])
              ELSE KeyChar(typed[i][2], Shifted(i))

\* The lines a reader of n characters at a time makes of them, the last one
\* unfinished.
Edit(n, text, c) ==
  CASE c = NoChar -> text
    [] c = BS -> IF Last(text) = <<>> THEN text
                 ELSE Append(Front(text), Front(Last(text)))
    [] OTHER -> LET line == Append(Last(text), c) IN
                Front(text) \o (IF c = NL \/ Len(line) = n THEN <<line, <<>>>>
                                                           ELSE <<line>>)
Edited(n) ==
  FoldLeft(LAMBDA text, i : Edit(n, text, Meaning(i)), <<<<>>>>,
           [i \in DOMAIN Taken |-> i])

\* Whatever the moments at which keys or bytes arrive and tty_read is called,
\* sleeps and wakes, the reads return the text typed, edited line by line, as
\* long as one source is used and no ring has overflowed.
ReadsAsTyped ==
  \A n \in Lens : Lens = {n} /\ OneSource /\ ~lost =>
    Append(lines, buf) = Edited(n)

\* The echo: in front of the cursor stands what tty_read has in its buffer,
\* across the margin and through scrolling, unless somebody else writes; and
\* nothing stands at or behind the cursor, so that an erased character is gone
\* and a new row starts empty.
EchoMatches ==
  /\ pc # "user" /\ ~mixed =>
       \A k \in 1..Len(buf) :
         LET p == At(screen.row, screen.col) - k IN
         p >= 0 => screen.cell[p] = buf[Len(buf) + 1 - k]
  /\ \A p \in Cell : p >= At(screen.row, screen.col) => screen.cell[p] = Blank

\* Once the end of a line is in a ring, a program that reads gets its line.
LineReturns ==
  (pc # "user" /\ (\E i \in DOMAIN kb : kb[i] = "enter"))
    ~> pc = "user"
=============================================================================
