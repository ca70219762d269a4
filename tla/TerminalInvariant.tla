------------------------- MODULE TerminalInvariant -------------------------
(***************************************************************************)
(* What holds at every step of typing a command.                           *)
(***************************************************************************)
EXTENDS Terminal

Characters == Letters \cup {Blank, PromptChar, ClockChar, BannerChar}
Terminals  == [screen : [Cells -> Characters],
               row : 0 .. ROWS - 1 \cup {UINT8 - 1}, col : 0 .. COLS]

(* The controller asks for the processor only while it has a key to give;   *)
(* the driver knows the length of the prompt while a line is typed.         *)
DeviceInv ==
  /\ raised => kbd # <<>>
  /\ pc \in {"read", "handle"} => template_length = prompt_length
  /\ pc \notin {"start", "prompt"} => prompt_length # 0

(* Only clear_screen moves the cursor off the screen, and the newline at    *)
(* the end of execute brings it back.                                       *)
CursorInv ==
  /\ pc \notin {"finish", "wild"} => tty.row \in 0 .. ROWS - 1
  /\ pc = "prompt" => tty.col = 0

(* cmd_buffer holds the characters counted, at most one that is counted no  *)
(* more, and NULs.  It does so also while the length is too large.          *)
CommandInv ==
  /\ pc \in {"start", "prompt", "template"} => cur_cmd_length = 0 /\ cmd_buffer = EmptyCommand
  /\ pc = "handle" => buf # NUL
  /\ pc \in {"read", "handle", "execute"} =>
       \A i \in 0 .. MAX_CMD_LENGTH - 1 :
         /\ i < cur_cmd_length => cmd_buffer[i] # NUL
         /\ i > cur_cmd_length => cmd_buffer[i] = NUL

(* The driver keeps a backspace only behind the prompt.  When the shell     *)
(* comes to it, at most one other key has moved the cursor, so that there   *)
(* is still a column in front of it to erase, or the line has just wrapped. *)
Erasable == tty.col >= prompt_length \/ (tty.col = 0 /\ ~Overrun)
BackspaceInv ==
  /\ pc = "handle" /\ keyboard_buffer = Backspace => tty.col > prompt_length
  /\ pc = "read" /\ keyboard_buffer = Backspace /\ cur_cmd_length > 0 => Erasable
  /\ pc = "handle" /\ buf = Backspace /\ cur_cmd_length > 0 => Erasable

(* A length that has wrapped below 0 does not come back to a true one: each *)
(* backspace takes a column as well, and there are too few of them.         *)
OverrunInv ==
  pc \in {"read", "handle"} /\ Overrun => cur_cmd_length + COLS >= UINT8 - 1 + tty.col

LineInv ==
  /\ pc = "template" /\ LineFits => InPlace(prompt_length)
  /\ LineShown

TerminalInv ==
  TypeOK /\ DeviceInv /\ CursorInv /\ CommandInv /\ BackspaceInv /\ OverrunInv /\ LineInv
=============================================================================
