---------------------------- MODULE KernelPrint ----------------------------
(***************************************************************************)
(* kprintf (kernel/libc/printf.c) and the console (kernel/console.c) while *)
(* the timer interrupts them.  The kernel formats into the static buffer   *)
(* and writes it out character by character; from init_tasking on, every   *)
(* timer interrupt prints a message of its own through the same buffer,    *)
(* screen and cursor (switch_task, kernel/task.c) before the kernel goes   *)
(* on.  The kernel's own calls are modelled access by access to the shared *)
(* memory; the interrupt's runs with interrupts disabled, as one step.     *)
(*                                                                         *)
(* The kernel is the only process here.  A child, once switched to, runs   *)
(* with interrupts disabled and the kernel is not resumed (see Tasking).   *)
(***************************************************************************)
EXTENDS Console

CONSTANTS
  BUF,      \* 1024, the size of kprintf's buffer
  Texts,    \* what the kernel prints, formatted
  BootTexts,\* what it prints before init_tasking only
  Message   \* what switch_task prints

ASSUME BufferAssumption ==
  /\ BUF \in Nat
  /\ \A t \in Texts \cup BootTexts \cup {Message} : t \in Seq(STRING) /\ Len(t) < BUF
  /\ \A t \in Texts \cup BootTexts \cup {Message} : \A k \in 1..Len(t) : t[k] # "NUL"

(* No text is empty, and after init_tasking none has a tab or a backspace. *)
ASSUME TextAssumption ==
  /\ <<>> \notin Texts \cup BootTexts
  /\ \A t \in Texts : \A k \in 1..Len(t) : t[k] \notin {"HT", "BS"}

(* "\nSwitch\n": a line of its own, which fits the screen.                 *)
ASSUME MessageAssumption ==
  /\ ROWS > 1 /\ Len(Message) - 2 \in 0..COLS
  /\ \A k \in 1..Len(Message) :
       IF k \in {1, Len(Message)} THEN Message[k] = "LF" ELSE Message[k] \in Printable

VARIABLES
  buf,      \* kprintf's static buffer
  screen,   \* video memory, xPos and yPos
  cursor,   \* the display's index and cursor registers
  call,     \* the kernel's call of kprintf: where it is (pc), the text, the
            \* index i into the buffer, the character c at hand, the cell k
            \* being scrolled, and the register reg of the access under way
  tasking,  \* root_proc is set
  expected, \* history: what the window should show when the call returns
  disturbed \* history: the timer has printed since the call began

vars == <<buf, screen, cursor, call, tasking, expected, disturbed>>
memory == <<buf, screen, cursor>>
history == <<expected, disturbed>>

-----------------------------------------------------------------------------
Idle == [pc |-> "idle", text |-> <<>>, i |-> 0, c |-> "NUL", k |-> 0, reg |-> 0]

Init ==
  /\ buf = [j \in 0..BUF-1 |-> "NUL"]
  /\ screen = console_clear
  /\ cursor = console_move_cursor(console_clear)
  /\ call = Idle
  /\ tasking = FALSE
  /\ expected = Window(console_clear)
  /\ disturbed = FALSE

At(here) == call.pc = here
Goto(there) == call' = [call EXCEPT !.pc = there]
Load(value, there) == call' = [call EXCEPT !.pc = there, !.reg = value]

(* Callers end their lines before the right edge of the screen, which      *)
(* nothing in console.c does for them.  With the timer printing they must  *)
(* leave room for its message too: a call interrupted while it advances    *)
(* xPos restores its own column, and then meets the message in its buffer. *)
Width == IF tasking THEN COLS - (Len(Message) - 2) ELSE COLS
Fits(text) ==
  \A n \in 1..Len(text) : console_puts(screen, SubSeq(text, 1, n)).x <= Width

Call(text) ==
  /\ At("idle")
  /\ Fits(text)
  /\ call' = [Idle EXCEPT !.pc = "format", !.text = text]
  /\ expected' = TypedText(Window(screen), text)
  /\ disturbed' = FALSE
  /\ UNCHANGED <<memory, tasking>>

InitTasking ==
  /\ At("idle") /\ ~tasking
  /\ tasking' = TRUE
  /\ UNCHANGED <<memory, call, history>>

-----------------------------------------------------------------------------
(* kprintf: vsprintf writes the characters and the terminator, kprintf     *)
(* writes the terminator again at the length returned, console_puts reads  *)
(* each character twice, once for its test and once for its call.          *)

vsprintf ==
  /\ At("format")
  /\ IF call.i < Len(call.text)
     THEN /\ buf' = [buf EXCEPT ![call.i] = call.text[call.i + 1]]
          /\ call' = [call EXCEPT !.i = @ + 1]
     ELSE /\ buf' = [buf EXCEPT ![call.i] = "NUL"]
          /\ Goto("terminate")
  /\ UNCHANGED <<screen, cursor>>

Terminate ==
  /\ At("terminate")
  /\ buf' = [buf EXCEPT ![call.i] = "NUL"]
  /\ call' = [call EXCEPT !.pc = "test", !.i = 0]
  /\ UNCHANGED <<screen, cursor>>

(* Mutant: the test advances the index.                                    *)
Test_Advances ==
  /\ At("test")
  /\ call' = IF buf[call.i] = "NUL" THEN Idle ELSE [call EXCEPT !.pc = "fetch", !.i = @ + 1]
  /\ UNCHANGED memory

Test ==
  /\ At("test")
  /\ IF buf[call.i] = "NUL" THEN call' = Idle ELSE Goto("fetch")
  /\ UNCHANGED memory

(* console_putchar begins: which branch the character takes.  A backspace  *)
(* is tested against xPos here and moves later.                            *)
Fetch ==
  /\ At("fetch")
  /\ LET c == buf[call.i]
     IN call' = [call EXCEPT !.c = c, !.k = 0, !.pc =
          CASE c \in Printable -> "row"
            [] c = "HT" \/ (c = "BS" /\ screen.x > 0) -> "read_x"
            [] c = "CR" -> "return"
            [] c = "LF" -> "read_y"
            [] OTHER -> "scroll"]
  /\ UNCHANGED memory

-----------------------------------------------------------------------------
(* console_putchar, by its accesses to videomem, xPos and yPos.            *)

Row == At("row") /\ Load(screen.y * COLS, "locate") /\ UNCHANGED memory
Locate == At("locate") /\ Load(call.reg + screen.x, "store") /\ UNCHANGED memory

Store ==
  /\ At("store")
  /\ screen' = [screen EXCEPT !.mem[call.reg] = call.c]
  /\ Goto("read_x")
  /\ UNCHANGED <<buf, cursor>>

ReadX == At("read_x") /\ Load(screen.x, "write_x") /\ UNCHANGED memory

WriteX ==
  /\ At("write_x")
  /\ screen' = [screen EXCEPT !.x = Column(call.c, call.reg)]
  /\ Goto("scroll")
  /\ UNCHANGED <<buf, cursor>>

ReadY == At("read_y") /\ Load(screen.y, "write_y") /\ UNCHANGED memory

WriteY ==
  /\ At("write_y")
  /\ screen' = [screen EXCEPT !.y = call.reg + 1]
  /\ Goto("return")
  /\ UNCHANGED <<buf, cursor>>

CarriageReturn ==
  /\ At("return")
  /\ screen' = [screen EXCEPT !.x = 0]
  /\ Goto("scroll")
  /\ UNCHANGED <<buf, cursor>>

(* Mutant: the test is off by one.                                         *)
ScrollTest_Late ==
  /\ At("scroll")
  /\ Goto(IF screen.y > ROWS THEN "copy" ELSE "cursor_row")
  /\ UNCHANGED memory

ScrollTest ==
  /\ At("scroll")
  /\ Goto(IF screen.y >= ROWS THEN "copy" ELSE "cursor_row")
  /\ UNCHANGED memory

(* Mutant: the last row is not blanked.                                    *)
Scroll_NoBlank ==
  /\ At("copy")
  /\ IF call.k + COLS \in Cells
     THEN /\ screen' = [screen EXCEPT !.mem[call.k] = screen.mem[call.k + COLS]]
          /\ call' = [call EXCEPT !.k = @ + 1]
     ELSE /\ screen' = [screen EXCEPT !.y = ROWS - 1]
          /\ Goto("cursor_row")
  /\ UNCHANGED <<buf, cursor>>

(* The two loops of console_scroll and the assignment behind them.         *)
Scroll ==
  /\ At("copy")
  /\ IF call.k \in Cells
     THEN /\ screen' = [screen EXCEPT !.mem[call.k] =
               IF call.k + COLS \in Cells THEN screen.mem[call.k + COLS] ELSE Blank]
          /\ call' = [call EXCEPT !.k = @ + 1]
     ELSE /\ screen' = [screen EXCEPT !.y = ROWS - 1]
          /\ Goto("cursor_row")
  /\ UNCHANGED <<buf, cursor>>

-----------------------------------------------------------------------------
(* console_move_cursor: four writes to the display's ports.                *)
CursorRow == At("cursor_row") /\ Load(screen.y * COLS, "cursor_x") /\ UNCHANGED memory
CursorX == At("cursor_x") /\ Load(call.reg + screen.x, "select_high") /\ UNCHANGED memory

Select(half, here, there) ==
  /\ At(here)
  /\ cursor' = [cursor EXCEPT !.index = half]
  /\ Goto(there)
  /\ UNCHANGED <<buf, screen>>

SelectHigh == Select("high", "select_high", "write_high")
SelectLow == Select("low", "select_low", "write_low")

(* A write to the data port goes to the register selected by whoever       *)
(* selected last.                                                          *)
Data(value) == [cursor EXCEPT ![cursor.index] = value % BYTE]

WriteHigh ==
  /\ At("write_high")
  /\ cursor' = Data(call.reg \div BYTE)
  /\ Goto("select_low")
  /\ UNCHANGED <<buf, screen>>

(* Mutant: the loop of console_puts does not advance.                      *)
WriteLow_SameCharacter ==
  /\ At("write_low")
  /\ cursor' = Data(call.reg)
  /\ Goto("test")
  /\ UNCHANGED <<buf, screen>>

WriteLow ==
  /\ At("write_low")
  /\ cursor' = Data(call.reg)
  /\ call' = [call EXCEPT !.pc = "test", !.i = @ + 1]
  /\ UNCHANGED <<buf, screen>>

-----------------------------------------------------------------------------
(* The buffer after a call of kprintf that nothing interrupts.             *)
Formatted(b, text) ==
  [j \in 0..BUF-1 |-> IF j < Len(text) THEN text[j + 1]
                      ELSE IF j = Len(text) THEN "NUL" ELSE b[j]]

(* The timer's interrupt, from init_tasking on: switch_task prints and, as *)
(* there is no other process, returns to the kernel.                       *)
TimerIRQ ==
  /\ tasking
  /\ buf' = Formatted(buf, Message)
  /\ screen' = console_puts(screen, Message)
  /\ cursor' = console_move_cursor(screen')
  /\ IF At("idle")
     THEN expected' = TypedText(Window(screen), Message) /\ disturbed' = FALSE
     ELSE UNCHANGED expected /\ disturbed' = TRUE
  /\ UNCHANGED <<call, tasking>>

-----------------------------------------------------------------------------
Step ==
  /\ \/ vsprintf \/ Terminate \/ Test \/ Fetch
     \/ Row \/ Locate \/ Store \/ ReadX \/ WriteX
     \/ ReadY \/ WriteY \/ CarriageReturn \/ ScrollTest \/ Scroll
     \/ CursorRow \/ CursorX \/ SelectHigh \/ WriteHigh \/ SelectLow \/ WriteLow
  /\ UNCHANGED <<tasking, history>>

Next ==
  \/ \E text \in Texts : Call(text)
  \/ (~tasking /\ \E text \in BootTexts : Call(text))
  \/ InitTasking
  \/ Step
  \/ TimerIRQ

Spec == Init /\ [][Next]_vars

(* The processor keeps executing the kernel, however often it is           *)
(* interrupted.                                                            *)
FairSpec == Spec /\ WF_vars(Step)

-----------------------------------------------------------------------------
(* Properties.                                                             *)

Formatting == {"format", "terminate"}
InPutchar == {"fetch", "row", "locate", "store", "read_x", "write_x", "read_y", "write_y",
              "return", "scroll", "copy", "cursor_row", "cursor_x", "select_high",
              "write_high", "select_low", "write_low"}

TypeOK ==
  /\ DOMAIN buf = 0..BUF-1
  /\ call.pc \in {"idle", "test"} \cup Formatting \cup InPutchar
  /\ call.i \in 0..BUF-1
  /\ tasking \in BOOLEAN /\ disturbed \in BOOLEAN

(* console_puts always has a terminator ahead of it inside the buffer,     *)
(* though the interrupt's message replaces the beginning of the text that  *)
(* is being written out, at any point of doing so: it cannot run off the   *)
(* buffer's end.                                                           *)
TerminatorAhead ==
  /\ call.pc = "test" => \E j \in call.i .. BUF-1 : buf[j] = "NUL"
  /\ call.pc \in InPutchar => \E j \in call.i+1 .. BUF-1 : buf[j] = "NUL"

(* No character is stored outside the screen, though the cursor moves      *)
(* between the reads of its row and its column, and rows scroll away       *)
(* before the store.                                                       *)
StoresOnScreen == At("store") => call.reg \in Cells

(* What is printed undisturbed appears as on a window moving down a sheet  *)
(* of paper, with the display's cursor behind it.                          *)
ScreenShowsText ==
  At("idle") /\ ~disturbed =>
    /\ Window(screen) = expected
    /\ cursor = console_move_cursor(screen)

(* The message of switch_task always gets a line of its own, just above    *)
(* the cursor, also when it comes while the kernel scrolls or has moved    *)
(* below the last row.                                                     *)
MessageShown ==
  [][tasking /\ UNCHANGED call /\ screen' # screen =>
       /\ screen'.x = 0 /\ screen'.y \in 1..ROWS-1
       /\ \A k \in 1..Len(Message) - 2 :
            screen'.mem[(screen'.y - 1) * COLS + k - 1] = Message[k + 1]]_vars

(* Every kprintf returns.                                                  *)
PrintReturns == ~At("idle") ~> At("idle")
=============================================================================
