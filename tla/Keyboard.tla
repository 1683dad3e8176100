------------------------------ MODULE Keyboard ------------------------------
(***************************************************************************)
(* The PS/2 keyboard path of CottonOS (drivers/keyboard.rs): the keyboard  *)
(* sends scancode bytes, IRQ1 runs handle_interrupt for each byte, which   *)
(* decodes it, updates MODIFIERS and appends a KeyEvent to                 *)
(* KEYBOARD_BUFFER; the shell's read_line polls has_key() and drains the   *)
(* buffer with get_char().                                                 *)
(*                                                                         *)
(* The CPU is single.  handle_interrupt runs to completion with IF clear.  *)
(* Main-line code holds the KEYBOARD_BUFFER spin::Mutex inside has_key and *)
(* read_key with interrupts enabled; an IRQ1 that needs the lock then      *)
(* spins forever (`fault` = "spin").                                       *)
(*                                                                         *)
(* Bytes are numbers (scancode set 1); the keycode tables are cut down to  *)
(* the keys the model presses, every other code decodes as "Unknown".      *)
(*                                                                         *)
(* read_line echoes what it takes through the VGA text console             *)
(* (drivers/console.rs write_byte): the model keeps the console's cursor   *)
(* and the shell loop's prompt and reply around each line; characters are *)
(* classes (printable, newline, backspace), since only the cursor moves.   *)
(***************************************************************************)
EXTENDS Naturals, Sequences, FiniteSets, TLC

CONSTANTS
    CAPACITY,   \* KEYBOARD_BUFFER's bound (256)
    Keys,       \* the physical keys the user presses
    MAX_TYPED,  \* bound on key transitions per behaviour
    WIDTH,      \* VGA_WIDTH (80)
    HEIGHT      \* VGA_HEIGHT (25)

E0 == 224     \* the extended-key prefix byte

\* The bytes the keyboard sends when a key goes down and when it comes up.
\* Pause sends a fixed six-byte sequence (E1 1D 45 E1 9D C5) and no break.
MakeBytes(k) ==
    CASE k = "A"          -> <<30>>
      [] k = "Backspace"  -> <<14>>
      [] k = "Enter"      -> <<28>>
      [] k = "LeftShift"  -> <<42>>
      [] k = "RightShift" -> <<54>>
      [] k = "CapsLock"   -> <<58>>
      [] k = "RightCtrl"  -> <<E0, 29>>
      [] k = "Pause"      -> <<225, 29, 69, 225, 157, 197>>
BreakBytes(k) ==
    LET mk == MakeBytes(k) IN [mk EXCEPT ![Len(mk)] = @ + 128]
HasBreak(k) == k # "Pause"

\* scancode_to_keycode and extended_scancode_to_keycode, on the codes the
\* modelled keys produce.
ScancodeToKeycode(c) ==
    CASE c = 14 -> "Backspace"  [] c = 28 -> "Enter"
      [] c = 29 -> "LeftCtrl"   [] c = 30 -> "A"
      [] c = 42 -> "LeftShift"  [] c = 54 -> "RightShift"
      [] c = 58 -> "CapsLock"   [] c = 69 -> "NumLock"
      [] OTHER  -> "Unknown"
ExtendedScancodeToKeycode(c) ==
    CASE c = 29 -> "RightCtrl"
      [] OTHER  -> "Unknown"

(***************************************************************************)
(* The console.  A character is a class: CH a printable byte, NL '\n',     *)
(* BS 0x08.  A cursor is [row, col] plus `bad`, set once write_byte has    *)
(* written a cell outside the WIDTH * HEIGHT buffer.                       *)
(***************************************************************************)
CH == "ch"
NL == "nl"
BS == "bs"

InVga(r, c) == r * WIDTH + c < WIDTH * HEIGHT

\* scroll: the lines move up, the last is blanked, the cursor row is the
\* last one.
Scroll(cur) == [cur EXCEPT !.row = HEIGHT - 1]

\* The check that ends every write_byte.
ScrollIfBelow(cur) == IF cur.row >= HEIGHT THEN Scroll(cur) ELSE cur

\* A printable byte: wrap at the right edge, scroll at the bottom, write
\* the cell at the cursor and advance.
WrapNever(cur) == cur
WrapIfFull(cur) == IF cur.col >= WIDTH THEN [cur EXCEPT !.col = 0, !.row = @ + 1] ELSE cur
PutChar(cur) ==
    LET c == ScrollIfBelow(WrapIfFull(cur))
    IN  [c EXCEPT !.col = @ + 1, !.bad = @ \/ ~InVga(c.row, c.col)]

\* Console::write_byte.
WriteByte(cur, b) ==
    ScrollIfBelow(
        CASE b = NL -> [cur EXCEPT !.col = 0, !.row = @ + 1]
          [] b = BS -> IF cur.col > 0
                       THEN [cur EXCEPT !.col = @ - 1, !.bad = @ \/ ~InVga(cur.row, cur.col - 1)]
                       ELSE cur
          [] OTHER  -> PutChar(cur))

Chars(n) == [i \in 1..n |-> CH]

\* "cotton:{}> " with the working directory "/".
Prompt == Chars(10)

\* execute's default arm on an input of n letters:
\* kprintln!("Unknown command: '{}'. Type 'help'.", cmd).
UnknownReply(n) == Chars(33 + n) \o <<NL>>

NoEvent == [key |-> "none", pressed |-> FALSE, shift |-> FALSE, caps |-> FALSE]

VARIABLES
    wire,     \* bytes the keyboard has yet to deliver, one per IRQ1
    ext,      \* EXTENDED_KEY
    mods,     \* MODIFIERS: [shift, ctrl, alt, caps, num]
    buffer,   \* KEYBOARD_BUFFER
    pc,       \* read_line: "poll" (has_key) or "read" (get_char)
    held,     \* TRUE while main-line holds KEYBOARD_BUFFER
    avail,    \* has_key's result
    last,     \* read_key's result
    fault,    \* "none" or "spin"
    down,     \* the keys physically held (the user's side)
    typed,    \* the key transitions the user made, in order
    dropped,  \* indices into typed whose event found the buffer full
    got,      \* the events get_char has taken, in order
    buflen,   \* the length of read_line's buf
    con,      \* the console cursor
    out       \* the bytes the shell is writing to the console, in order

vars == <<wire, ext, mods, buffer, pc, held, avail, last, fault, down, typed, dropped, got, buflen, con, out>>

Init ==
    /\ wire = <<>>
    /\ ext = FALSE
    /\ mods = [shift |-> FALSE, ctrl |-> FALSE, alt |-> FALSE, caps |-> FALSE, num |-> FALSE]
    /\ buffer = <<>>
    /\ pc = "poll"
    /\ held = FALSE
    /\ avail = FALSE
    /\ last = NoEvent
    /\ fault = "none"
    /\ down = {}
    /\ typed = <<>>
    /\ dropped = {}
    /\ got = <<>>
    /\ buflen = 0
    \* shell::run's banner ends in a newline, then the first prompt
    /\ con \in [row : 0..(HEIGHT - 1), col : {0}, bad : {FALSE}]
    /\ out = Prompt

(***************************************************************************)
(* The user presses or releases a key; the keyboard queues its bytes once  *)
(* the previous key's bytes are out.                                       *)
(***************************************************************************)
Transition(k, isPress) ==
    /\ wire = <<>> /\ Len(typed) < MAX_TYPED
    /\ wire' = IF isPress THEN MakeBytes(k) ELSE BreakBytes(k)
    /\ down' = IF isPress /\ HasBreak(k) THEN down \cup {k}
               ELSE IF isPress THEN down ELSE down \ {k}
    /\ typed' = Append(typed, [key |-> k, pressed |-> isPress])
    /\ UNCHANGED <<ext, mods, buffer, pc, held, avail, last, fault, dropped, got, buflen, con, out>>

Press == \E k \in Keys \ down : Transition(k, TRUE)
Release == \E k \in down : Transition(k, FALSE)

\* process_scancode's modifier update: shift, ctrl and alt follow the
\* pressed bit, caps and num lock toggle on a press.
UpdateModifiers(m, key, pressed) ==
    CASE key \in {"LeftShift", "RightShift"} -> [m EXCEPT !.shift = pressed]
      [] key \in {"LeftCtrl", "RightCtrl"}   -> [m EXCEPT !.ctrl = pressed]
      [] key \in {"LeftAlt", "RightAlt"}     -> [m EXCEPT !.alt = pressed]
      [] key = "CapsLock" /\ pressed         -> [m EXCEPT !.caps = ~@]
      [] key = "NumLock" /\ pressed          -> [m EXCEPT !.num = ~@]
      [] OTHER                               -> m

ClearExtKept == ext' = ext

\* handle_interrupt reads and clears EXTENDED_KEY for a non-prefix byte.
ClearExt == ext' = FALSE

(***************************************************************************)
(* IRQ1: handle_interrupt on the next byte.  0xE0 only sets the prefix     *)
(* flag.  Any other byte is decoded (bit 7 is the break bit), updates the  *)
(* modifiers and yields an event, which is appended when the buffer has    *)
(* room and lost otherwise.  A handler that spins never completes, so its *)
(* byte stays undelivered.                                                 *)
(***************************************************************************)
KeyIrq ==
    /\ fault = "none" /\ wire # <<>>
    /\ wire' = IF held /\ Head(wire) # E0 THEN wire ELSE Tail(wire)
    /\ LET b == Head(wire) IN
       IF b = E0
         THEN /\ ext' = TRUE
              /\ UNCHANGED <<mods, buffer, fault, dropped>>
         ELSE LET pressed == b < 128
                  key == IF ext THEN ExtendedScancodeToKeycode(b % 128)
                                ELSE ScancodeToKeycode(b % 128)
                  m == UpdateModifiers(mods, key, pressed)
                  ev == [key |-> key, pressed |-> pressed, shift |-> m.shift, caps |-> m.caps]
              IN  /\ ClearExt
                  /\ mods' = m
                  /\ IF held
                       THEN fault' = "spin" /\ UNCHANGED <<buffer, dropped>>
                     ELSE IF Len(buffer) < CAPACITY
                       THEN buffer' = Append(buffer, ev) /\ UNCHANGED <<fault, dropped>>
                     ELSE dropped' = dropped \cup {Len(typed)} /\ UNCHANGED <<buffer, fault>>
    /\ UNCHANGED <<pc, held, avail, last, down, typed, got, buflen, con, out>>

\* keyevent_to_char yields a character: a press of a letter, digit,
\* punctuation or editing key; never a release or a modifier.
Printable(e) == e.pressed /\ e.key \in {"A", "Enter", "Backspace"}

\* The character's class: Enter gives '\n', Backspace 0x08.
CharOf(e) == CASE e.key = "Enter" -> NL [] e.key = "Backspace" -> BS [] OTHER -> CH

(***************************************************************************)
(* read_line on the character get_char returned, and for '\n' the rest of  *)
(* the shell loop until read_line runs again: kprintln!(""), then, for a   *)
(* non-empty line (the letters typed are the command), execute's "Unknown  *)
(* command" reply, then the next prompt.  A backspace on an empty buf is   *)
(* ignored; otherwise buf.pop and "\x08 \x08".  Other characters are      *)
(* pushed and echoed.                                                      *)
(***************************************************************************)
HandleChar(c) ==
    CASE c = NL -> /\ buflen' = 0
                   /\ out' = <<NL>> \o (IF buflen > 0 THEN UnknownReply(buflen) ELSE <<>>) \o Prompt
      [] c = BS -> IF buflen > 0
                   THEN buflen' = buflen - 1 /\ out' = <<BS, CH, BS>>
                   ELSE UNCHANGED <<buflen, out>>
      [] OTHER  -> buflen' = buflen + 1 /\ out' = <<CH>>

\* The console writes the shell's next byte (CONSOLE.lock, write_byte);
\* read_line polls again only when its output is written.
Echo ==
    /\ fault = "none" /\ out # <<>>
    /\ con' = WriteByte(con, Head(out))
    /\ out' = Tail(out)
    /\ UNCHANGED <<wire, ext, mods, buffer, pc, held, avail, last, fault, down, typed, dropped, got, buflen>>

HasKeyTwo ==
    /\ fault = "none" /\ pc = "poll" /\ ~held /\ out = <<>>
    /\ held' = TRUE /\ avail' = (Len(buffer) > 1)
    /\ UNCHANGED <<wire, ext, mods, buffer, pc, last, fault, down, typed, dropped, got, buflen, con, out>>

\* has_key(): test the buffer under KEYBOARD_BUFFER.
HasKey ==
    /\ fault = "none" /\ pc = "poll" /\ ~held /\ out = <<>>
    /\ held' = TRUE /\ avail' = (buffer # <<>>)
    /\ UNCHANGED <<wire, ext, mods, buffer, pc, last, fault, down, typed, dropped, got, buflen, con, out>>

\* read_key(): pop the oldest event under KEYBOARD_BUFFER.
ReadKey ==
    /\ fault = "none" /\ pc = "read" /\ ~held
    /\ held' = TRUE
    /\ IF buffer # <<>>
         THEN /\ last' = Head(buffer) /\ buffer' = Tail(buffer)
              /\ got' = Append(got, Head(buffer))
         ELSE last' = NoEvent /\ UNCHANGED <<buffer, got>>
    /\ UNCHANGED <<wire, ext, mods, pc, avail, fault, down, typed, dropped, buflen, con, out>>

\* The lock is released.  read_line halts and polls again while has_key
\* is false; get_char keeps reading past events that give no character
\* and returns at the first character or an empty buffer, after which
\* read_line handles the character and polls again.
Unlock ==
    /\ fault = "none" /\ held
    /\ held' = FALSE
    /\ pc' = IF pc = "poll" THEN (IF avail THEN "read" ELSE "poll")
             ELSE IF last # NoEvent /\ ~Printable(last) THEN "read" ELSE "poll"
    /\ IF pc = "read" /\ Printable(last)
         THEN HandleChar(CharOf(last))
         ELSE UNCHANGED <<buflen, out>>
    /\ UNCHANGED <<wire, ext, mods, buffer, avail, last, fault, down, typed, dropped, got, con>>

\* IRQ1 spinning on KEYBOARD_BUFFER: nothing else ever runs.
Stuck ==
    /\ fault # "none"
    /\ UNCHANGED vars

Next == Press \/ Release \/ KeyIrq \/ HasKey \/ ReadKey \/ Unlock \/ Echo \/ Stuck

\* The keyboard delivers every byte it queued, and read_line keeps
\* polling (the timer interrupt ends every halt).
Fairness ==
    /\ WF_vars(KeyIrq)
    /\ WF_vars(HasKey \/ ReadKey \/ Unlock \/ Echo)

Spec == Init /\ [][Next]_vars /\ Fairness

(***************************************************************************)
(* Properties                                                              *)
(***************************************************************************)

\* The key transitions whose bytes have all been delivered.
Delivered == IF wire = <<>> THEN typed ELSE SubSeq(typed, 1, Len(typed) - 1)

RECURSIVE KeptFrom(_, _)
KeptFrom(s, i) ==
    IF i > Len(s) THEN <<>>
    ELSE (IF i \in dropped THEN <<>> ELSE <<s[i]>>) \o KeptFrom(s, i + 1)

\* What handle_interrupt decodes and get_char takes are exactly the keys
\* the user pressed and released, in order, less those that found
\* KEYBOARD_BUFFER full: the E0 prefix state machine pairs every prefix
\* with its own key, and nothing is reordered or invented.
DecodeFaithful ==
    LET evs == got \o buffer
        kept == KeptFrom(Delivered, 1)
    IN  /\ Len(evs) = Len(kept)
        /\ \A i \in 1..Len(evs) : evs[i].key = kept[i].key /\ evs[i].pressed = kept[i].pressed

\* Every event handle_interrupt queues is eventually taken by get_char:
\* read_line's polling never leaves an event behind in KEYBOARD_BUFFER,
\* unless the machine hung.
EventsConsumed ==
    \A n \in 1..MAX_TYPED :
        (Len(got) + Len(buffer) >= n) ~> (Len(got) >= n \/ fault # "none")

\* Spec 4.N: shift is level-tracked, so once the bytes of the last key
\* are out it is on exactly when a shift key is held down.
ShiftLevel ==
    wire = <<>> => (mods.shift <=> down \cap {"LeftShift", "RightShift"} # {})

\* Every cell read_line's echo, the prompt and the shell's replies write
\* lies inside the VGA text buffer: write_byte wraps a full line before it
\* writes, scrolls at the bottom, and a backspace moves back only within
\* the line (so an erase after a wrapped echo leaves the character on the
\* previous line, but stays in the buffer).
VgaInBounds == ~con.bad

\* IRQ1 never spins on KEYBOARD_BUFFER held by has_key or read_key.
NoSpin == fault # "spin"

TypeOK ==
    /\ Len(buffer) <= CAPACITY
    /\ pc \in {"poll", "read"}
    /\ down \subseteq Keys

====
