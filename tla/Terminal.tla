------------------------------ MODULE Terminal ------------------------------
(***************************************************************************)
(* Typing a command: the keyboard interrupt and the cursor of              *)
(* src/src/Keyboard/keyboard.c, the interrupt controller as                *)
(* src/src/Interrupt/interrupt.c drives it, and the main loop of the shell *)
(* (src/src/user-shell.c), from a key press to the command it becomes.     *)
(*                                                                         *)
(* The shell polls: system call 4 hands it the one character the keyboard  *)
(* driver keeps, and it echoes with system calls 5 and 6.  System calls run*)
(* with interrupts off, so the keyboard interrupt falls between any two of *)
(* them.  What commands do is left out here (see Shell): one prints some   *)
(* characters, or nothing, or clears the screen.  Programs started with    *)
(* exec run beside the shell: clock and testing write to fixed places of   *)
(* the screen.                                                             *)
(*                                                                         *)
(* External: the keyboard and its controller, which hold the keys pressed  *)
(* and raise the interrupt again as long as there are more to read.        *)
(***************************************************************************)
EXTENDS Integers, Sequences

CONSTANTS
  COLS, ROWS,      \* size of the screen (80 and 25)
  UINT8,           \* 2^8: bytes wrap here
  MAX_CMD_LENGTH,  \* size of cmd_buffer (128)
  PromptLengths,   \* how many characters a prompt can have (18 and the path's)
  ClockWidth,      \* characters of the clock, at the end of the last row (8)
  BannerWidth,     \* characters of testing's banner, at the end of row 0 (16)
  Letters,         \* characters that can be typed, other than the next two
  MaxQueue,        \* bound: keys the keyboard controller holds
  MaxOutput,       \* bound: characters a command prints on a line
  EarlyKeys        \* may keys be pressed before the shell has started?

Backspace == "\\b"
Newline   == "\\n"
NUL       == "0"      \* also what scancodes of released keys map to
Blank     == " "
PromptChar == "$"
ClockChar  == "c"
BannerChar == "t"
OutputChar == CHOOSE letter \in Letters : TRUE
Keys == Letters \cup {Backspace, Newline, NUL}

ASSUME TerminalAssumption ==
  /\ Letters # {} /\ Letters \cap {Backspace, Newline, NUL} = {}
  /\ COLS \in Nat \ {0} /\ ROWS \in Nat \ {0}
  /\ MaxOutput \in 0 .. COLS
  /\ MAX_CMD_LENGTH \in Nat \ {0}
  /\ ClockWidth \in 0 .. COLS /\ BannerWidth \in 0 .. COLS
  /\ UINT8 \in Nat /\ UINT8 > ROWS /\ UINT8 > MAX_CMD_LENGTH + COLS + 1
  /\ \A length \in PromptLengths :
       /\ length \in Nat \ {0} /\ length < UINT8
       /\ length + MAX_CMD_LENGTH < ROWS * (COLS + 1)
  /\ MaxQueue \in Nat \ {0} /\ EarlyKeys \in BOOLEAN

VARIABLES
  kbd,             \* the controller: scancodes not read yet
  raised,          \* is interrupt 1 requested?
  in_service,      \* interrupt 1 is delivered and not acknowledged
  input_on,        \* keyboard_state.keyboard_input_on
  keyboard_buffer, \* keyboard_state.keyboard_buffer
  template_length, \* keyboard_state.template_length
  tty,             \* screen memory and keyboard_state.cursorRow, cursorColumn
  pc,              \* where the shell is
  buf,             \* main's character
  cmd_buffer,
  cur_cmd_length,
  prompt_length,   \* characters of the last prompt
  start_row        \* ghost: the row on which that prompt begins

deviceVars == <<kbd, raised, in_service>>
driverVars == <<input_on, keyboard_buffer, template_length>>
shellVars  == <<pc, buf, cmd_buffer, cur_cmd_length>>
promptVars == <<prompt_length, start_row>>
vars == <<deviceVars, driverVars, tty, shellVars, promptVars>>

Cells == 0 .. ROWS * COLS - 1
ClockCells  == ROWS * COLS - ClockWidth .. ROWS * COLS - 1
BannerCells == COLS - BannerWidth .. COLS - 1
EmptyCommand == [i \in 0 .. MAX_CMD_LENGTH - 1 |-> NUL]

Init ==
  /\ kbd = <<>> /\ raised = FALSE /\ in_service = FALSE
  /\ input_on = FALSE /\ keyboard_buffer = NUL /\ template_length = 0
  /\ tty = [screen |-> [c \in Cells |-> Blank], row |-> 0, col |-> 0]
  /\ pc = "start" /\ buf = NUL
  /\ cmd_buffer = EmptyCommand /\ cur_cmd_length = 0 /\ prompt_length = 0 /\ start_row = 0

-----------------------------------------------------------------------------
(* The screen *)

(* Column COLS of the last row lies behind the screen, in video memory that *)
(* is not shown.                                                            *)
framebuffer_write(t, row, col, c) ==
  IF row * COLS + col \in Cells THEN [t EXCEPT !.screen[row * COLS + col] = c] ELSE t

(* Mutant: the line wraps one column later. *)
putchar_wraps_late(t, c) ==
  IF c = Backspace
  THEN IF t.col > 0
       THEN [framebuffer_write(t, t.row, t.col - 1, Blank) EXCEPT !.col = t.col - 1]
       ELSE t
  ELSE LET w == IF c = Newline THEN t
                ELSE [framebuffer_write(t, t.row, t.col, c) EXCEPT !.col = t.col + 1]
       IN  IF c = Newline \/ w.col = COLS + 2
           THEN [w EXCEPT !.row = ((t.row + 1) % UINT8) % ROWS, !.col = 0]
           ELSE w

(* A line has one column more than the screen: the character in it is the   *)
(* first cell of the next row, where the following character goes too.      *)
putchar(t, c) ==
  IF c = Backspace
  THEN IF t.col > 0
       THEN [framebuffer_write(t, t.row, t.col - 1, Blank) EXCEPT !.col = t.col - 1]
       ELSE IF t.row > 0 THEN [t EXCEPT !.row = t.row - 1, !.col = COLS] ELSE t
  ELSE LET w == IF c = Newline THEN t
                ELSE [framebuffer_write(t, t.row, t.col, c) EXCEPT !.col = t.col + 1]
       IN  IF c = Newline \/ w.col = COLS + 1
           THEN [w EXCEPT !.row = ((t.row + 1) % UINT8) % ROWS, !.col = 0]
           ELSE w

puts(t, c, count) ==
  LET shown[i \in 0 .. count] == IF i = 0 THEN t ELSE putchar(shown[i - 1], c)
  IN  shown[count]

(* The row wraps to 255: the cursor is off the screen until a newline. *)
clear_screen(t) ==
  [t EXCEPT !.screen = [c \in Cells |-> Blank], !.row = UINT8 - 1, !.col = 0]

-----------------------------------------------------------------------------
(* Keyboard *)

PressKey(key) ==
  /\ input_on \/ EarlyKeys
  /\ Len(kbd) < MaxQueue
  /\ kbd' = Append(kbd, key)
  /\ raised' = (raised \/ kbd = <<>>)
  /\ UNCHANGED <<in_service, driverVars, tty, shellVars, promptVars>>

(* pic_ack, and the request for the next scancode. *)
pic_ack(rest) == in_service' = FALSE /\ raised' = (rest # <<>>)

(* Mutant: a scancode without a character is not acknowledged. *)
isr_skips_unmapped ==
  /\ raised /\ ~in_service
  /\ IF input_on
     THEN LET key == Head(kbd)
          IN  /\ kbd' = Tail(kbd)
              /\ IF key = NUL THEN raised' = FALSE /\ in_service' = TRUE ELSE pic_ack(kbd')
              /\ keyboard_buffer' =
                   IF key = NUL \/ (key = Backspace /\ tty.col <= template_length)
                   THEN keyboard_buffer ELSE key
     ELSE raised' = FALSE /\ in_service' = TRUE /\ UNCHANGED <<kbd, keyboard_buffer>>
  /\ UNCHANGED <<input_on, template_length, tty, shellVars, promptVars>>

(* Interrupt 1.  Before keyboard_state_activate the handler neither reads   *)
(* the scancode nor acknowledges, and the controller delivers no other.     *)
(* The buffer holds one character; a new one replaces it.                   *)
keyboard_isr ==
  /\ raised /\ ~in_service
  /\ IF input_on
     THEN LET key == Head(kbd)
          IN  /\ kbd' = Tail(kbd)
              /\ pic_ack(kbd')
              /\ keyboard_buffer' =
                   IF key = NUL \/ (key = Backspace /\ tty.col <= template_length)
                   THEN keyboard_buffer ELSE key
     ELSE raised' = FALSE /\ in_service' = TRUE /\ UNCHANGED <<kbd, keyboard_buffer>>
  /\ UNCHANGED <<input_on, template_length, tty, shellVars, promptVars>>

-----------------------------------------------------------------------------
(* The shell *)

(* System call 7, keyboard_state_activate. *)
Activate ==
  /\ pc = "start"
  /\ input_on' = TRUE /\ keyboard_buffer' = NUL /\ template_length' = 0
  /\ tty' = [tty EXCEPT !.row = 0, !.col = 0]
  /\ pc' = "prompt"
  /\ UNCHANGED <<deviceVars, buf, cmd_buffer, cur_cmd_length, promptVars>>

(* template_print: the prompt, and then system call 19. *)
PrintPrompt ==
  /\ pc = "prompt"
  /\ prompt_length' \in PromptLengths
  /\ tty' = puts(tty, PromptChar, prompt_length')
  /\ start_row' = tty.row
  /\ pc' = "template"
  /\ UNCHANGED <<deviceVars, driverVars, buf, cmd_buffer, cur_cmd_length>>

SetTemplate ==
  /\ pc = "template"
  /\ template_length' = prompt_length
  /\ pc' = "read"
  /\ UNCHANGED <<deviceVars, input_on, keyboard_buffer, tty, buf, cmd_buffer, cur_cmd_length, promptVars>>

(* Mutant: the buffer is not flushed. *)
ReadKeepsBuffer ==
  /\ pc = "read"
  /\ buf' = keyboard_buffer
  /\ pc' = IF buf' = NUL THEN "read" ELSE "handle"
  /\ UNCHANGED <<deviceVars, driverVars, tty, cmd_buffer, cur_cmd_length, promptVars>>

(* System call 4, get_keyboard_buffer. *)
ReadKey ==
  /\ pc = "read"
  /\ buf' = keyboard_buffer /\ keyboard_buffer' = NUL
  /\ pc' = IF buf' = NUL THEN "read" ELSE "handle"
  /\ UNCHANGED <<deviceVars, input_on, template_length, tty, cmd_buffer, cur_cmd_length, promptVars>>

HandleNewline ==
  /\ pc = "handle" /\ buf = Newline
  /\ tty' = putchar(tty, buf)
  /\ pc' = "execute"
  /\ UNCHANGED <<deviceVars, driverVars, buf, cmd_buffer, cur_cmd_length, promptVars>>

(* Mutant: the length is not tested. *)
BackspaceUntested ==
  /\ pc = "handle" /\ buf = Backspace
  /\ tty' = putchar(tty, buf)
  /\ cmd_buffer' = IF cur_cmd_length < MAX_CMD_LENGTH
                   THEN [cmd_buffer EXCEPT ![cur_cmd_length] = NUL] ELSE cmd_buffer
  /\ cur_cmd_length' = IF cur_cmd_length > 0 THEN cur_cmd_length - 1 ELSE 0
  /\ pc' = "read"
  /\ UNCHANGED <<deviceVars, driverVars, buf, promptVars>>

(* The NUL is stored before the length is decremented, one place too far:   *)
(* the erased character stays in cmd_buffer.  With the buffer full it is    *)
(* stored behind the buffer, where compilers place cur_cmd_length, which    *)
(* then goes from 0 to 255; or elsewhere.                                   *)
HandleBackspace ==
  /\ pc = "handle" /\ buf = Backspace
  /\ IF cur_cmd_length = 0
     THEN UNCHANGED <<tty, cmd_buffer, cur_cmd_length>>
     ELSE /\ tty' = putchar(tty, buf)
          /\ IF cur_cmd_length < MAX_CMD_LENGTH
             THEN /\ cmd_buffer' = [cmd_buffer EXCEPT ![cur_cmd_length] = NUL]
                  /\ cur_cmd_length' = cur_cmd_length - 1
             ELSE /\ UNCHANGED cmd_buffer
                  /\ \/ cur_cmd_length' = cur_cmd_length - 1
                     \/ cur_cmd_length = MAX_CMD_LENGTH /\ cur_cmd_length' = UINT8 - 1
  /\ pc' = "read"
  /\ UNCHANGED <<deviceVars, driverVars, buf, promptVars>>

(* usual: a full buffer takes no more characters. *)
HandleCharacter ==
  /\ pc = "handle" /\ buf \in Letters
  /\ IF cur_cmd_length >= MAX_CMD_LENGTH
     THEN UNCHANGED <<tty, cmd_buffer, cur_cmd_length>>
     ELSE /\ tty' = putchar(tty, buf)
          /\ cmd_buffer' = [cmd_buffer EXCEPT ![cur_cmd_length] = buf]
          /\ cur_cmd_length' = cur_cmd_length + 1
  /\ pc' = "read"
  /\ UNCHANGED <<deviceVars, driverVars, buf, promptVars>>

(* What the command puts on the screen.  After an overrun of cmd_buffer     *)
(* execute may copy more than its own buffer holds; where the shell goes    *)
(* then is not modelled.                                                    *)
Execute ==
  /\ pc = "execute"
  /\ \/ \E count \in {0, MaxOutput} : tty' = puts(tty, OutputChar, count)
     \/ tty' = clear_screen(tty)
  /\ \/ pc' = "finish"
     \/ cur_cmd_length > MAX_CMD_LENGTH /\ pc' = "wild"
  /\ UNCHANGED <<deviceVars, driverVars, buf, cmd_buffer, cur_cmd_length, promptVars>>

(* Mutant: cmd_buffer is not cleared. *)
FinishKeepsCommand ==
  /\ pc = "finish"
  /\ tty' = putchar(tty, Newline)
  /\ cur_cmd_length' = 0
  /\ pc' = "prompt"
  /\ UNCHANGED <<deviceVars, driverVars, cmd_buffer, buf, promptVars>>

(* The end of execute. *)
Finish ==
  /\ pc = "finish"
  /\ cmd_buffer' = EmptyCommand
  /\ tty' = putchar(tty, Newline)
  /\ cur_cmd_length' = 0
  /\ pc' = "prompt"
  /\ UNCHANGED <<deviceVars, driverVars, buf, promptVars>>

-----------------------------------------------------------------------------
(* Other programs *)

Overwrite(cells, char) ==
  /\ pc # "start"
  /\ tty' = [tty EXCEPT !.screen = [c \in Cells |-> IF c \in cells THEN char ELSE tty.screen[c]]]
  /\ UNCHANGED <<deviceVars, driverVars, shellVars, promptVars>>

(* System call 78 of the program clock, writeClock, and system call 420 of  *)
(* the program testing.  Both programs loop.  The cursor does not move.     *)
ClockWrites  == Overwrite(ClockCells, ClockChar)
BannerWrites == Overwrite(BannerCells, BannerChar)

-----------------------------------------------------------------------------

Shell ==
  \/ Activate \/ PrintPrompt \/ SetTemplate
  \/ ReadKey \/ HandleNewline \/ HandleBackspace \/ HandleCharacter
  \/ Execute \/ Finish

Next == (\E key \in Keys : PressKey(key)) \/ keyboard_isr \/ Shell \/ ClockWrites \/ BannerWrites

(* The scheduler gives the shell the processor again and again (Kernel's    *)
(* NoStarvation), and a requested interrupt is delivered.                   *)
Fairness == WF_vars(Shell) /\ WF_vars(keyboard_isr)

Spec == Init /\ [][Next]_vars /\ Fairness

-----------------------------------------------------------------------------
(* Properties *)

TypeOK ==
  /\ kbd \in Seq(Keys) /\ Len(kbd) <= MaxQueue
  /\ raised \in BOOLEAN /\ in_service \in BOOLEAN /\ input_on \in BOOLEAN
  /\ keyboard_buffer \in Keys /\ buf \in Keys
  /\ template_length \in {0} \cup PromptLengths /\ prompt_length \in {0} \cup PromptLengths
  /\ tty \in [screen : [Cells -> Letters \cup {Blank, PromptChar, ClockChar, BannerChar}],
              row : 0 .. ROWS - 1 \cup {UINT8 - 1}, col : 0 .. COLS]
  /\ pc \in {"start", "prompt", "template", "read", "handle", "execute", "finish", "wild"}
  /\ cmd_buffer \in [0 .. MAX_CMD_LENGTH - 1 -> Letters \cup {NUL}]
  /\ cur_cmd_length \in 0 .. UINT8 - 1 /\ start_row \in 0 .. ROWS - 1

Overrun == cur_cmd_length > MAX_CMD_LENGTH

(* Where the k-th character of the line stands: a row has COLS + 1 columns, *)
(* the last of which is the first cell of the next row.                     *)
LineRow(k)    == start_row + (k \div (COLS + 1))
LineColumn(k) == k % (COLS + 1)
LineCell(k)   == LineRow(k) * COLS + LineColumn(k)

(* Is there room for the longest line between the prompt and the bottom of  *)
(* the screen?                                                              *)
LineFits == LineRow(prompt_length + MAX_CMD_LENGTH) < ROWS

(* The prompt and the command. *)
LineCharacter(k) == IF k < prompt_length THEN PromptChar ELSE cmd_buffer[k - prompt_length]

(* The first characters of the line are in their places, and the cursor is  *)
(* behind them.                                                             *)
InPlace(length) ==
  /\ tty.row = LineRow(length) /\ tty.col = LineColumn(length)
  /\ \A k \in 0 .. length - 1 :
       LineColumn(k) # COLS /\ LineCell(k) \notin ClockCells \cup BannerCells =>
         tty.screen[LineCell(k)] = LineCharacter(k)

(* While a command is typed the screen shows it: the prompt stands in front *)
(* of it, untouched by backspaces however they fall between output, prompt  *)
(* and keys; every character is in its place, those at column COLS apart;   *)
(* and the cursor is behind the last, so that the driver's comparison of    *)
(* cursorColumn with template_length is about this line.  Excepted are      *)
(* lines that wrap from the bottom of the screen to the top: there putchar  *)
(* does not take a backspace back (keyboard.c:92).                          *)
LineShown ==
  pc \in {"read", "handle"} /\ ~Overrun /\ LineFits => InPlace(prompt_length + cur_cmd_length)

(* The commands measure the line now by cur_cmd_length and now by           *)
(* strlen(cmd_buffer).  The two differ by one at most, by the character a   *)
(* backspace has left behind: nothing of an earlier, longer line remains.   *)
OneStaleCharacter ==
  pc \in {"read", "execute"} /\ ~Overrun =>
    \A i \in 0 .. MAX_CMD_LENGTH - 1 :
      /\ i < cur_cmd_length => cmd_buffer[i] # NUL
      /\ i > cur_cmd_length => cmd_buffer[i] = NUL

(* Every interrupt is answered: once the keyboard has been switched on, a   *)
(* full controller is read.                                                 *)
KeyboardListens == input_on /\ Len(kbd) = MaxQueue ~> Len(kbd) < MaxQueue

(* A character the driver has kept is taken by the shell.                   *)
KeysAreTaken == keyboard_buffer # NUL ~> keyboard_buffer = NUL \/ pc = "wild"
=============================================================================
