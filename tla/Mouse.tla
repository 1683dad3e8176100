------------------------------- MODULE Mouse -------------------------------
(***************************************************************************)
(* The PS/2 mouse path of CottonOS (drivers/mouse.rs): IRQ12 feeds each    *)
(* byte from port 0x60 to MouseState::process_byte, which accumulates 3-   *)
(* or 4-byte packets and applies them to the shared MOUSE state; the GUI   *)
(* loop (gui/mod.rs handle_mouse and run) reads position, buttons and the  *)
(* scroll delta in separate MOUSE critical sections.                       *)
(*                                                                         *)
(* mouse::init runs with interrupts enabled and sets the IRQ12 enable bit  *)
(* before it sends its command sequence; each reply byte (eight ACKs, the  *)
(* device ID, the ACK of 0xF4) is taken either by mouse_read's polling or  *)
(* by the IRQ12 handler, which feeds it to process_byte.  The model starts *)
(* with those replies on the wire and lets either side take each one.      *)
(***************************************************************************)
EXTENDS Integers, Sequences, FiniteSets, Bitwise

CONSTANTS
    WIDTH, HEIGHT,  \* the screen size set_screen_size installs
    Moves,          \* the movements (dx, dy) the device reports
    Wheels,         \* the wheel movements an IntelliMouse reports
    MAX_PACKETS     \* bound on the packets the device sends

ACK == 250          \* 0xFA
ID_WHEEL == 3       \* the IntelliMouse device ID
Replies(dev) == <<ACK, ACK, ACK, ACK, ACK, ACK, ACK, ACK,
                  IF dev THEN ID_WHEEL ELSE 0, ACK>>
ID_REPLY == 9       \* the position of the ID among the replies

NoPacket == [btn |-> 0, dx |-> 0, dy |-> 0, wheel |-> 0, valid |-> FALSE]

\* The bytes of a movement packet as the device encodes it: byte 0 has
\* bit 3 set, the buttons in bits 0-2 and the sign bits of dx and dy in
\* bits 4 and 5; the deltas and the wheel are two's-complement bytes.
Encode(p, dev) ==
    LET b0 == 8 + p.btn + (IF p.dx < 0 THEN 16 ELSE 0) + (IF p.dy < 0 THEN 32 ELSE 0)
        body == <<b0, p.dx % 256, p.dy % 256>>
    IN  IF dev THEN Append(body, p.wheel % 256) ELSE body

VARIABLES
    dev,      \* the device is an IntelliMouse (ID 3)
    wire,     \* bytes in flight from the device
    replies,  \* how many of them are init replies
    cycle,    \* MouseState::cycle
    bytes,    \* MouseState::bytes
    hasWheel, \* MouseState::has_scroll_wheel
    x, y,     \* MouseState::x, y
    buttons,  \* MouseState::buttons
    scroll,   \* MouseState::scroll_delta
    pc,       \* the GUI loop's next MOUSE section
    held,     \* TRUE while the GUI holds MOUSE
    fault,    \* "none" or "spin"
    sent,     \* the packets the device sent
    count,    \* how many it sent
    applied,  \* the packet process_byte applied last
    moved,    \* the sum of the wheel deltas process_byte applied
    seen      \* the sum of the deltas get_scroll_delta returned

vars == <<dev, wire, replies, cycle, bytes, hasWheel, x, y, buttons, scroll,
          pc, held, fault, sent, count, applied, moved, seen>>

\* MouseState::new, then set_screen_size from gui::init; the device is a
\* plain PS/2 mouse or an IntelliMouse, and init's replies are in flight.
Init ==
    /\ dev \in BOOLEAN
    /\ wire = Replies(dev)
    /\ replies = Len(Replies(dev))
    /\ cycle = 0
    /\ bytes = <<0, 0, 0, 0>>
    /\ hasWheel = FALSE
    /\ x = WIDTH \div 2 /\ y = HEIGHT \div 2
    /\ buttons = 0
    /\ scroll = 0
    /\ pc = "pos"
    /\ held = FALSE
    /\ fault = "none"
    /\ sent = {} /\ count = 0
    /\ applied = NoPacket
    /\ moved = 0 /\ seen = 0

(***************************************************************************)
(* The device reports a movement once init's replies and the previous     *)
(* packet are out.                                                         *)
(***************************************************************************)
Report ==
    /\ wire = <<>> /\ count < MAX_PACKETS
    /\ \E mv \in Moves, btn \in {0, 1}, w \in (IF dev THEN Wheels ELSE {0}) :
         LET p == [btn |-> btn, dx |-> mv[1], dy |-> mv[2], wheel |-> w, valid |-> TRUE]
         IN  /\ wire' = Encode(p, dev)
             /\ sent' = sent \cup {p}
    /\ count' = count + 1
    /\ UNCHANGED <<dev, replies, cycle, bytes, hasWheel, x, y, buttons, scroll,
                   pc, held, fault, applied, moved, seen>>

\* Clamp to the screen rectangle.
Clamp(v, size) == IF v < 0 THEN 0 ELSE IF v >= size THEN size - 1 ELSE v

\* Sign extension of a delta byte by a sign bit of byte 0, and of the
\* wheel byte as i8.
SignExtend(b, neg) == IF neg THEN b - 256 ELSE b
AsI8(b) == IF b >= 128 THEN b - 256 ELSE b

OverflowIgnored(flags) == FALSE

\* The X or Y overflow bit (0xC0) of byte 0.
Overflow(flags) == (flags & 192) # 0

(***************************************************************************)
(* MouseState::process_byte.  At cycle 0 a byte without bit 3 is dropped.  *)
(* Otherwise it is stored; when a whole packet is in, the cycle restarts,  *)
(* a packet with an overflow bit is discarded, and the rest set the        *)
(* buttons, overwrite scroll_delta and move the clamped position.          *)
(***************************************************************************)
ProcessByte(b) ==
    IF cycle = 0 /\ (b & 8) = 0
      THEN UNCHANGED <<cycle, bytes, x, y, buttons, scroll, applied, moved, seen>>
    ELSE LET bs == [bytes EXCEPT ![cycle + 1] = b]
             size == IF hasWheel THEN 4 ELSE 3
         IN  /\ bytes' = bs
             /\ IF cycle + 1 < size
                  THEN cycle' = cycle + 1
                       /\ UNCHANGED <<x, y, buttons, scroll, applied, moved, seen>>
                ELSE LET flags == bs[1]
                         dx == SignExtend(bs[2], (flags & 16) # 0)
                         dy == SignExtend(bs[3], (flags & 32) # 0)
                         w  == IF hasWheel THEN AsI8(bs[4]) ELSE 0
                     IN  /\ cycle' = 0
                         /\ IF Overflow(flags)
                              THEN UNCHANGED <<x, y, buttons, scroll, applied, moved, seen>>
                            ELSE /\ buttons' = flags & 7
                                 /\ scroll' = w
                                 /\ x' = Clamp(x + dx, WIDTH)
                                 /\ y' = Clamp(y - dy, HEIGHT)
                                 /\ applied' = [btn |-> flags & 7, dx |-> dx, dy |-> dy,
                                                wheel |-> w, valid |-> TRUE]
                                 /\ moved' = moved + w
                                 /\ UNCHANGED seen

\* IRQ12: mouse::handle_interrupt reads the byte and, under MOUSE, feeds it
\* to process_byte.  The ID reply is followed by enable_scroll_wheel when
\* it names an IntelliMouse.
MouseIrq ==
    /\ fault = "none" /\ wire # <<>>
    /\ IF held
         THEN fault' = "spin"
              /\ UNCHANGED <<wire, replies, cycle, bytes, hasWheel, x, y, buttons, scroll, applied, moved, seen>>
         ELSE /\ wire' = Tail(wire)
              /\ replies' = IF replies > 0 THEN replies - 1 ELSE 0
              /\ ProcessByte(Head(wire))
              /\ hasWheel' = (hasWheel \/ (dev /\ replies = Len(Replies(dev)) - ID_REPLY + 1))
              /\ UNCHANGED fault
    /\ UNCHANGED <<dev, pc, held, sent, count>>

\* mouse_read: init's polling loop takes a reply before IRQ12 does.  When
\* IRQ12 took it first, mouse_wait_output times out and inb(0x60) reads the
\* byte still latched in the data port, so init sees the ID either way and
\* calls enable_scroll_wheel (under MOUSE, while no byte is pending).
PollReply ==
    /\ fault = "none" /\ replies > 0
    /\ wire' = Tail(wire)
    /\ replies' = replies - 1
    /\ hasWheel' = (hasWheel \/ (dev /\ replies = Len(Replies(dev)) - ID_REPLY + 1))
    /\ UNCHANGED <<dev, cycle, bytes, x, y, buttons, scroll, pc, held, fault, sent, count, applied, moved, seen>>

(***************************************************************************)
(* The GUI loop, after init: handle_mouse calls get_position, get_buttons  *)
(* and get_scroll_delta, and run calls get_position again; each holds      *)
(* MOUSE for its read.  get_scroll_delta also clears the delta.            *)
(***************************************************************************)
NextSection(s) == CASE s = "pos" -> "btn" [] s = "btn" -> "scroll"
                    [] s = "scroll" -> "pos2" [] s = "pos2" -> "pos"

GuiLock ==
    /\ fault = "none" /\ replies = 0 /\ ~held
    /\ held' = TRUE
    /\ IF pc = "scroll"
         THEN scroll' = 0 /\ seen' = seen + scroll
         ELSE UNCHANGED <<scroll, seen>>
    /\ UNCHANGED <<dev, wire, replies, cycle, bytes, hasWheel, x, y, buttons, pc, fault, sent, count, applied, moved>>

GuiUnlock ==
    /\ fault = "none" /\ held
    /\ held' = FALSE
    /\ pc' = NextSection(pc)
    /\ UNCHANGED <<dev, wire, replies, cycle, bytes, hasWheel, x, y, buttons, scroll, fault, sent, count, applied, moved, seen>>

\* IRQ12 spinning on MOUSE: nothing else ever runs.
Stuck ==
    /\ fault # "none"
    /\ UNCHANGED vars

Next == Report \/ MouseIrq \/ PollReply \/ GuiLock \/ GuiUnlock \/ Stuck

Spec == Init /\ [][Next]_vars

(***************************************************************************)
(* Properties                                                              *)
(***************************************************************************)

\* Every packet process_byte applies to the cursor and buttons is one the
\* device sent: the bit-3 check at cycle 0 is meant to keep the packet
\* boundaries in step with the device.  IRQ12 also feeds init's replies to
\* the accumulator, and a delta byte with bit 3 set then passes the check
\* as a first byte, so this fails.
PacketIntegrity == applied.valid => applied \in sent

\* get_scroll_delta ("get scroll wheel delta and clear it") returns every
\* wheel movement the driver applied: what was read plus what is pending
\* is what was scrolled.
ScrollConserved == seen + scroll = moved

\* IRQ12 never spins on MOUSE held by the GUI loop.
NoSpin == fault # "spin"

TypeOK ==
    /\ cycle \in 0..3
    /\ x \in 0..(WIDTH - 1) /\ y \in 0..(HEIGHT - 1)
    /\ pc \in {"pos", "btn", "scroll", "pos2"}

====
