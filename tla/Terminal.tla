------------------------------- MODULE Terminal -------------------------------
(***************************************************************************)
(* The keyboard, the shell and the console (IO.c, Shell.c, ISR_Keyboard):  *)
(* the interrupt handler converts a scan code and puts it into a ring; the *)
(* shell takes it out with interrupts off, puts it into its command line   *)
(* and shows it on the screen.  The command shutdown takes keys out of the *)
(* ring with interrupts on, and the tasks of the command task write to the *)
(* screen beside the shell.                                                *)
(*                                                                         *)
(* What a command prints is a member of Outputs: the texts of its calls of *)
(* printf.  A cell of the screen has a character and a color; the prompt   *)
(* is what has PATH_COLOR.                                                 *)
(***************************************************************************)
EXTENDS Integers, SequencesExt

CONSTANTS
    ScanCodes,          \* scan codes that arrive, out of those of KeyTable
    BUFFER_SIZE,        \* keys in the ring (100)
    COMMAND_MAX,        \* characters of a command line (1024)
    WIDTH, HEIGHT,      \* of the screen (80, 25)
    Outputs,            \* sequences of texts that commands print
    PIDs,               \* of the tasks of the command task
    MaxTabs             \* bound: tabs in one line

Prompt == <<"root", ">">>       \* return_pwd(), here one cell, and >

ASSUME TerminalAssumption ==
    /\ BUFFER_SIZE \in Nat \ {0} /\ COMMAND_MAX \in Nat \ {0} /\ MaxTabs \in Nat
    /\ WIDTH \in Nat /\ WIDTH > Len(Prompt) /\ HEIGHT \in Nat /\ HEIGHT > 1
    \* a line and its prompt fit on the screen
    /\ Len(Prompt) + COMMAND_MAX + MaxTabs <= WIDTH * HEIGHT
    /\ Outputs \subseteq Seq(Seq(STRING)) /\ PIDs \subseteq Nat

VARIABLES
    \* the keyboard: shift, the locks that are on, the ring
    Shift_Down, Key_Manager, Key_Buf, PutIndex, GetIndex, Buf_Count,
    \* the shell: where it is, the count it has read, its line and the flag
    pc, count, Buffer_Command, Length,
    \* the console, and if tasks have been created that print to it
    screen, g_Cursor, tasks,
    \* keys put into the ring and not taken out yet, tabs of the line
    unread, tabs,
    \* history: a key was put over one not taken out yet, a task has printed
    overrun, printed

ringVars == <<Key_Buf, PutIndex, GetIndex, Buf_Count, unread, overrun>>
keyVars == <<Shift_Down, Key_Manager, ringVars>>
taskVars == <<tasks, printed>>
lineVars == <<Buffer_Command, Length, tabs>>
consoleVars == <<screen, g_Cursor>>
vars == <<keyVars, pc, count, lineVars, consoleVars, taskVars>>

-----------------------------------------------------------------------------
(* The keyboard.                                                           *)

NoKey == "NONE"
\* One key of each kind in _Key_Table: its code, and its code with shift.
KeyTable ==
    [letter |-> <<"a", "A">>, numpad |-> <<"HOME", "7">>, enter |-> <<"\n", "\n">>,
     backspace |-> <<"BACKSPACE", "BACKSPACE">>, tab |-> <<"\t", "\t">>, esc |-> <<"ESC", "ESC">>,
     shift |-> <<"SHIFT", "SHIFT">>, NumLock |-> <<"NUMLOCK", "NUMLOCK">>,
     CapsLock |-> <<"CAPSLOCK", "CAPSLOCK">>, ScrollLock |-> <<"SCROLLLOCK", "SCROLLLOCK">>]
ASSUME KeyTableAssumption == ScanCodes \subseteq DOMAIN KeyTable
Locks == {"NumLock", "CapsLock", "ScrollLock"}
Keys == {KeyTable[s][k] : s \in DOMAIN KeyTable, k \in {1, 2}}
Letters == {"a", "A", "7"}
\* Filter_Is_ASCII: 1 to 126 without 27.
Filter_Is_ASCII(code) == code \in Letters \cup {"\n", "\t", "BACKSPACE"}

\* Scan_Convert_ASCII of a key that goes down.
Scan_Convert_ASCII(scan) ==
    LET lock == IF scan = "numpad" THEN "NumLock" ELSE "CapsLock"
    IN  IF Shift_Down # (lock \in Key_Manager) THEN KeyTable[scan][2] ELSE KeyTable[scan][1]

PutKeyBuf_Slip(key) ==
    /\ Key_Buf' = [Key_Buf EXCEPT ![PutIndex] = key]
    /\ PutIndex' = (PutIndex + 1) % BUFFER_SIZE
    /\ Buf_Count' = IF Buf_Count < BUFFER_SIZE THEN Buf_Count + 1 ELSE Buf_Count
    /\ unread' = IF Buf_Count < BUFFER_SIZE THEN Append(unread, key) ELSE unread
    /\ overrun' = (overrun \/ (Buf_Count < BUFFER_SIZE /\ Len(unread) >= BUFFER_SIZE))
PutKeyBuf(key) ==
    IF Buf_Count >= BUFFER_SIZE
    THEN UNCHANGED <<Key_Buf, PutIndex, Buf_Count, unread, overrun>>
    ELSE /\ Key_Buf' = [Key_Buf EXCEPT ![PutIndex] = key]
         /\ PutIndex' = (PutIndex + 1) % BUFFER_SIZE
         /\ Buf_Count' = Buf_Count + 1
         /\ unread' = Append(unread, key)
         /\ overrun' = (overrun \/ Len(unread) >= BUFFER_SIZE)

\* ISR_Keyboard.  A key that goes up is not put into the ring.
ISR_Keyboard(scan) ==
    /\ Shift_Down' = (Shift_Down \/ scan = "shift")
    /\ Key_Manager' = IF scan \in Locks \cap Key_Manager THEN Key_Manager \ {scan}
                                                         ELSE Key_Manager \cup ({scan} \cap Locks)
    /\ PutKeyBuf(Scan_Convert_ASCII(scan))
    /\ UNCHANGED <<GetIndex, pc, count, lineVars, consoleVars, taskVars>>
ShiftUp ==
    /\ Shift_Down
    /\ Shift_Down' = FALSE
    /\ UNCHANGED <<Key_Manager, ringVars, pc, count, lineVars, consoleVars, taskVars>>

-----------------------------------------------------------------------------
(* The console: what a call does to the screen and the cursor.  While      *)
(* printf runs it keeps a place of its own, Video_Mem, where it stores.    *)

Cells == 0 .. WIDTH * HEIGHT - 1
CURSOR_LIMIT == WIDTH * HEIGHT - 1
Cell(c) == [char |-> c, color |-> "DEFAULT"]
cleark == [k \in Cells |-> Cell(" ")]

Begin(con) == [cells |-> con.cells, cursor |-> con.cursor, Video_Mem |-> con.cursor]
End(out) == [cells |-> out.cells, cursor |-> out.cursor]

Advance(out, n) ==
    [cells |-> out.cells, cursor |-> out.cursor + n, Video_Mem |-> out.Video_Mem + n]

Scroll(out) ==
    [cells |-> [k \in Cells |-> IF k + WIDTH \in Cells THEN out.cells[k + WIDTH] ELSE Cell(" ")],
     cursor |-> out.cursor - WIDTH, Video_Mem |-> out.Video_Mem]

\* LineFeed leaves Video_Mem in the row below the screen when it scrolls.
LineFeed(out) ==
    LET fed == Advance(out, WIDTH - (out.Video_Mem % WIDTH))
    IN  IF CURSOR_LIMIT < fed.cursor THEN Scroll(fed) ELSE fed

BackSpace_Slip(con) ==
    IF con.cursor > 0
    THEN [cells |-> [con.cells EXCEPT ![con.cursor - 1] = Cell(" ")], cursor |-> con.cursor - 1]
    ELSE con
BackSpace(con) ==
    IF con.cursor > 0 /\ con.cells[con.cursor - 1].color # "PATH"
    THEN [cells |-> [con.cells EXCEPT ![con.cursor - 1] = Cell(" ")], cursor |-> con.cursor - 1]
    ELSE con

\* Below the screen nothing is seen.
Store(out, c) ==
    IF out.Video_Mem \in Cells THEN [out EXCEPT !.cells[out.Video_Mem] = Cell(c)] ELSE out

\* A character, which is stored before the screen scrolls.
PutCell_Slip(out, c) ==
    LET scrolled == IF CURSOR_LIMIT <= out.cursor THEN Scroll(out) ELSE out
    IN  Advance(Store(scrolled, c), 1)
PutCell(out, c) ==
    LET stored == Store(out, c)
    IN  IF CURSOR_LIMIT <= out.cursor
        THEN Advance([Scroll(stored) EXCEPT !.Video_Mem = @ - WIDTH], 1)
        ELSE Advance(stored, 1)

putchar(con, c) ==
    CASE c = "\n" -> End(LineFeed(Begin(con)))
      [] c = "BACKSPACE" -> BackSpace(con)
      [] OTHER -> End(PutCell(Begin(con), c))

PutFormat(out, c) == IF c = "\n" THEN LineFeed(out) ELSE PutCell(out, c)
printf(con, text) == End(FoldLeft(PutFormat, Begin(con), text))
\* An argument %s is put as it is, with its line feeds.
PrintString(out, text) == FoldLeft(PutCell, out, text)

SetColor_Path(con, n) ==
    [con EXCEPT !.cells = [k \in Cells |->
        IF k \in con.cursor - n .. con.cursor - 1 THEN [@[k] EXCEPT !.color = "PATH"] ELSE @[k]]]
PrintPrompt(con) ==
    SetColor_Path(End(PutCell(PrintString(Begin(con), Front(Prompt)), Last(Prompt))), Len(Prompt))

\* printk stores a text where it is told, whatever stands there.
printk(cells, text, line, color) ==
    [k \in Cells |-> IF k - line * WIDTH \in 0 .. Len(text) - 1
                     THEN [char |-> text[k - line * WIDTH + 1], color |-> color] ELSE cells[k]]

Console == [cells |-> screen, cursor |-> g_Cursor]
Show(con) == screen' = con.cells /\ g_Cursor' = con.cursor

-----------------------------------------------------------------------------
(* The shell.                                                              *)

\* Shell_Start takes a key with interrupts off and stores it; without a key
\* it stores 0 and tries again.
GetKeyBuf ==
    /\ pc = "get"
    /\ IF Buf_Count <= 0
       THEN /\ Buffer_Command' = [Buffer_Command EXCEPT ![Length] = NoKey]
            /\ UNCHANGED <<ringVars, pc>>
       ELSE /\ Buffer_Command' = [Buffer_Command EXCEPT ![Length] = Key_Buf[GetIndex]]
            /\ Buf_Count' = Buf_Count - 1
            /\ GetIndex' = (GetIndex + 1) % BUFFER_SIZE
            /\ unread' = Tail(unread)
            /\ pc' = "key"
            /\ UNCHANGED <<Key_Buf, PutIndex, overrun>>
    /\ UNCHANGED <<Shift_Down, Key_Manager, count, Length, tabs, consoleVars, taskVars>>

Code == Buffer_Command[Length]
Handling(code) == pc = "key" /\ Code = code /\ UNCHANGED <<keyVars, count, printed>>

Ignored ==
    /\ \E code \in Keys : Handling(code) /\ ~Filter_Is_ASCII(code)
    /\ pc' = "get"
    /\ UNCHANGED <<lineVars, consoleVars, tasks>>

(* A character.  Bound: a line of COMMAND_MAX characters is not reached;   *)
(* there GetKeyBuf stores into the first byte of Length.                   *)
LineBound == Length + 1 < COMMAND_MAX
Character ==
    /\ \E code \in Letters : Handling(code) /\ Show(putchar(Console, code))
    /\ LineBound
    /\ Length' = Length + 1
    /\ pc' = "get"
    /\ UNCHANGED <<Buffer_Command, tabs, tasks>>

Erase ==
    /\ Handling("BACKSPACE")
    /\ Show(putchar(Console, "BACKSPACE"))
    /\ Buffer_Command' = [Buffer_Command EXCEPT ![Length] = NoKey]
    /\ Length' = IF Length > 0 THEN Length - 1 ELSE Length
    /\ pc' = "get"
    /\ UNCHANGED <<tabs, tasks>>

\* A tab is shown and is not part of the line.
Tab ==
    /\ Handling("\t")
    /\ tabs < MaxTabs
    /\ Show(putchar(Console, "\t"))
    /\ tabs' = tabs + 1
    /\ pc' = "get"
    /\ UNCHANGED <<Buffer_Command, Length, tasks>>

\* RemoveCommand, with the tabs of the line.
RemoveCommand_Slip ==
    /\ Buffer_Command' = [k \in DOMAIN Buffer_Command |-> IF k <= Length THEN NoKey ELSE Buffer_Command[k]]
    /\ tabs' = 0
    /\ UNCHANGED Length
RemoveCommand ==
    /\ Buffer_Command' = [k \in DOMAIN Buffer_Command |-> IF k <= Length THEN NoKey ELSE Buffer_Command[k]]
    /\ Length' = 0
    /\ tabs' = 0

(* Put_Com_toConsole of an empty line, of a line that is no command, of a  *)
(* command that prints, of clear and of task, whose tasks may be refused.  *)
Entered == Handling("\n") /\ pc' = "get" /\ RemoveCommand
EmptyLine ==
    /\ Entered /\ Length = 0
    /\ Show(PrintPrompt(putchar(Console, "\n")))
    /\ UNCHANGED tasks
NoCommand ==
    /\ Entered /\ Length > 0
    /\ Show(PrintPrompt(printf(putchar(Console, "\n"), <<"?", "\n">>)))
    /\ UNCHANGED tasks
Command ==
    /\ Entered /\ Length > 0
    /\ \E out \in Outputs :
          Show(PrintPrompt(putchar(FoldLeft(printf, putchar(Console, "\n"), out), "\n")))
    /\ UNCHANGED tasks
Clear_Command ==
    /\ Entered /\ Length > 0
    /\ Show(PrintPrompt(putchar([cells |-> cleark, cursor |-> 0 - WIDTH], "\n")))
    /\ UNCHANGED tasks
TestTask_Create ==
    /\ Entered /\ Length > 0
    /\ Show(PrintPrompt(putchar(putchar(Console, "\n"), "\n")))
    /\ tasks' \in {tasks, TRUE}

(* shutdown asks, and takes a key with interrupts on: it tests the count   *)
(* and reads it, then writes it and steps the index.  A letter may be a    *)
(* no, a yes, which ends it all, or another.                               *)
shutdown ==
    /\ Handling("\n") /\ Length > 0
    /\ Show(printf(putchar(Console, "\n"), <<"?">>))
    /\ pc' = "ask"
    /\ UNCHANGED <<lineVars, tasks>>
shutdown_Count ==
    /\ pc = "ask"
    /\ Buf_Count > 0
    /\ count' = Buf_Count
    /\ pc' = "asked"
    /\ UNCHANGED <<keyVars, lineVars, consoleVars, taskVars>>
shutdown_Key ==
    /\ pc = "asked"
    /\ Buf_Count' = count - 1
    /\ GetIndex' = (GetIndex + 1) % BUFFER_SIZE
    /\ unread' = Tail(unread)
    /\ count' = 0
    /\ LET key == Key_Buf[GetIndex]
       IN  \/ /\ pc' = "ask"
              /\ Show(printf(putchar(putchar(Console, key), "\n"), <<"?">>))
              /\ UNCHANGED lineVars
           \/ /\ key \in Letters
              /\ pc' = "get"
              /\ Show(PrintPrompt(putchar(printf(putchar(Console, key), <<"\n", "c", "\n">>), "\n")))
              /\ RemoveCommand
           \/ /\ key \in Letters
              /\ pc' = "off"
              /\ UNCHANGED <<lineVars, consoleVars>>
    /\ UNCHANGED <<Shift_Down, Key_Manager, Key_Buf, PutIndex, overrun, taskVars>>

(* TestTask1 and TestTask2 print in the row of their PID, in the middle of *)
(* whatever the shell does: once they have, nothing is said of the screen. *)
TestTask ==
    /\ tasks
    /\ \E line \in PIDs :
          \/ screen' = printk(screen, <<"T", "1">>, line, "GREEN")
          \/ screen' = printk(screen, <<"T", "2">>, line, "CYAN")
    /\ printed' = TRUE
    /\ UNCHANGED <<keyVars, pc, count, lineVars, g_Cursor, tasks>>

-----------------------------------------------------------------------------
\* EnableKeyBoard has run, and the shell has shown its first prompt.
Init ==
    /\ Shift_Down = FALSE /\ Key_Manager = {"NumLock"}
    /\ Key_Buf = [k \in 0 .. BUFFER_SIZE - 1 |-> NoKey]
    /\ PutIndex = 0 /\ GetIndex = 0 /\ Buf_Count = 0 /\ unread = <<>> /\ overrun = FALSE
    /\ tasks = FALSE /\ printed = FALSE
    /\ pc = "get" /\ count = 0
    /\ Buffer_Command = [k \in 0 .. COMMAND_MAX - 1 |-> NoKey] /\ Length = 0 /\ tabs = 0
    /\ LET con == PrintPrompt([cells |-> cleark, cursor |-> 0])
       IN  screen = con.cells /\ g_Cursor = con.cursor

Shell ==
    \/ GetKeyBuf \/ Ignored \/ Character \/ Erase \/ Tab \/ EmptyLine \/ NoCommand
    \/ Command \/ Clear_Command \/ TestTask_Create \/ shutdown \/ shutdown_Count \/ shutdown_Key

Next == Shell \/ TestTask \/ ShiftUp \/ \E scan \in ScanCodes : ISR_Keyboard(scan)

Spec == Init /\ [][Next]_vars

-----------------------------------------------------------------------------
(* The ring gives the keys in the order they were typed, each once, and    *)
(* never counts more than it holds, also when the keyboard interrupts a    *)
(* shutdown that has read the count and not written it yet.  That loses an *)
(* increment, and only a ring that counts less than it holds ever puts a   *)
(* key over one that waits, which ends the order.                          *)
ReadsInOrder ==
    /\ Buf_Count <= Len(unread)
    /\ overrun => Buf_Count < Len(unread)
    /\ ~overrun => \A k \in 1 .. Len(unread) : Key_Buf[(GetIndex + k - 1) % BUFFER_SIZE] = unread[k]

AtPrompt == pc \in {"get", "key"}

(* What stands between the prompt and the cursor is the line that Enter    *)
(* will run, if no tab was typed in it, wherever the line wraps and        *)
(* however far the screen has scrolled, until a test task prints.          *)
LineIsOnScreen ==
    ~printed /\ AtPrompt /\ tabs = 0 =>
        /\ Length < g_Cursor
        /\ \A k \in 0 .. Length - 1 : screen[g_Cursor - Length + k] = Cell(Buffer_Command[k])
        /\ screen[g_Cursor - Length - 1] = [char |-> ">", color |-> "PATH"]

(* The prompt of the line that is typed stays on the screen, as far before *)
(* the cursor as the line and the tabs reach, until a test task prints.    *)
PromptKept ==
    ~printed /\ AtPrompt =>
        \E from \in Cells :
            /\ from + Len(Prompt) \in g_Cursor - Length - tabs .. g_Cursor - Length
            /\ \A n \in 1 .. Len(Prompt) : screen[from + n - 1] = [char |-> Prompt[n], color |-> "PATH"]

(* A backspace that could not erase because the prompt stands before the   *)
(* cursor does not shorten the line (Shell.c:68), tabs or not, until a     *)
(* test task prints.                                                       *)
BackspaceErases == [][~printed /\ Erase /\ Length' < Length => g_Cursor' = g_Cursor - 1]_vars
=============================================================================
