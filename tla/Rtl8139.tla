------------------------------ MODULE Rtl8139 -------------------------------
(***************************************************************************)
(* The network card and its driver, src/drivers/rtl8139.c: the receive     *)
(* ring the card writes and the driver reads, and the transmit descriptors *)
(* that all point to one buffer.  The card is external: it moves between   *)
(* any two calls of the driver.  The statistics are left out.              *)
(*                                                                         *)
(* The ring is in cells of four bytes.  A frame takes a header cell and    *)
(* the cells of its data and of its CRC.  What the driver reads where no   *)
(* header is - the data of a frame - can be anything.                      *)
(***************************************************************************)
EXTENDS Integers, Sequences, FiniteSets, FiniteSetsExt

CONSTANTS RTL_RX_BUFFER_SIZE,  \* bytes of the receive ring
          RTL_MAX_PACKETS,     \* descriptors the driver goes through
          Descriptors,         \* descriptors the card has
          FrameLen,            \* lengths of frames
          MaxLength,           \* sizes of receivers' buffers
          MaxFrames            \* bound: frames that arrive, frames that are sent

ASSUME RtlAssumption ==
    /\ RTL_RX_BUFFER_SIZE \in Nat \ {0} /\ RTL_RX_BUFFER_SIZE % 4 = 0
    /\ {RTL_MAX_PACKETS, Descriptors} \subseteq Nat \ {0}
    /\ MaxFrames \in Nat /\ MaxFrames > 1   \* delivered tells the first frame from the others
    /\ FrameLen \subseteq 1 .. RTL_RX_BUFFER_SIZE - 8 /\ MaxLength \subseteq Nat \ {0}

VARIABLES rx_ring,          \* cell -> what the card wrote there
          rx_offset,        \* where the driver reads
          rx_write,         \* where the card writes
          rx_read,          \* where the card believes the driver reads
          arrived,          \* lengths of the frames that arrived
          rx,               \* [frame, length, max_length] of the last frame delivered
          delivered,        \* frames delivered
          tx_ring,          \* the frame in the transmit buffer
          tx_buffer_index,  \* the driver's next descriptor
          tx_status,        \* descriptor -> [frame, alone] that waits in it, or Free
          tx_next,          \* the card's next descriptor
          wire,             \* [frame, given, alone] of the last frame the card sent
          given,            \* frames given to rtl8139_send_packet
          overrun           \* history: a descriptor was used again before its frame was sent

rxVars == <<rx_ring, rx_offset, rx_write, rx_read, arrived, rx, delivered>>
txVars == <<tx_ring, tx_buffer_index, tx_status, tx_next, wire, given, overrun>>
nicVars == <<rxVars, txVars>>

\* The widths of the source relative to the ring: the length field of a
\* header has 14 bits, the driver's length 16, the ring 2^13 bytes.
LengthField == 2 * RTL_RX_BUFFER_SIZE
Width16 == 8 * RTL_RX_BUFFER_SIZE

Cells == 0 .. RTL_RX_BUFFER_SIZE \div 4 - 1
Desc == 0 .. Descriptors - 1
Up4(n) == ((n + 3) \div 4) * 4

Lost == 0
Free == [frame |-> Lost, alone |-> FALSE]
Zero == [type |-> "zero", frame |-> Lost, n |-> 0]
Header(f, length) == [type |-> "header", frame |-> f, n |-> length]
Data(f, cell) == [type |-> "data", frame |-> f, n |-> cell]

\* rtl8139_init.
NicInit ==
    /\ rx_ring = [c \in Cells |-> Zero] /\ rx_offset = 0 /\ rx_write = 0 /\ rx_read = 0
    /\ arrived = << >>
    /\ rx = [frame |-> Lost, length |-> 0, max_length |-> 0] /\ delivered = 0
    /\ tx_ring = Lost /\ tx_buffer_index = 0 /\ tx_status = [d \in Desc |-> Free]
    /\ tx_next = 0 /\ wire = [frame |-> Lost, given |-> Lost, alone |-> FALSE]
    /\ given = 0 /\ overrun = FALSE

-----------------------------------------------------------------------------
\* Receiving.  A frame arrives and is written behind the last, around the end
\* of the ring if need be, unless it would reach what is not yet read.  This is
\* a card set up for the driver's ring that takes every frame; RXCONFIG as
\* rtl8139.c:88 writes it says neither, and a card that obeys it stores no frame.
card_receive(len) ==
    LET f == Len(arrived) + 1
        size == Up4(4 + len + 4)
        unread == (rx_write + RTL_RX_BUFFER_SIZE - rx_read) % RTL_RX_BUFFER_SIZE
        at(c) == (c * 4 + RTL_RX_BUFFER_SIZE - rx_write) % RTL_RX_BUFFER_SIZE
    IN  /\ f <= MaxFrames
        /\ size + unread < RTL_RX_BUFFER_SIZE
        /\ rx_ring' = [c \in Cells |-> IF at(c) = 0 THEN Header(f, len + 4)
                                       ELSE IF at(c) < size THEN Data(f, at(c) \div 4)
                                       ELSE rx_ring[c]]
        /\ rx_write' = (rx_write + size) % RTL_RX_BUFFER_SIZE
        /\ arrived' = Append(arrived, len)
        /\ UNCHANGED <<rx_offset, rx_read, rx, delivered, txVars>>

\* What the driver can read at its offset as status bit and length.
headers ==
    LET cell == rx_ring[rx_offset \div 4] IN
    IF cell = Zero THEN {[ready |-> FALSE, length |-> 0]}
    ELSE IF cell.type = "header" THEN {[ready |-> TRUE, length |-> cell.n]}
    ELSE [ready: BOOLEAN, length: 0 .. LengthField - 1]

\* The frame whose data the copied cells are, Lost when they are not one frame's.
copied(length) ==
    LET c0 == rx_offset \div 4
        n == Up4(length) \div 4
        whole(f) == \A k \in 1 .. n : c0 + k \in Cells /\ rx_ring[c0 + k] = Data(f, k)
    IN  IF \E f \in DOMAIN arrived : arrived[f] = length /\ whole(f)
        THEN CHOOSE f \in DOMAIN arrived : arrived[f] = length /\ whole(f) ELSE Lost

too_long(length, max_length) == length > max_length \/ length > RTL_RX_BUFFER_SIZE

rtl8139_recv_packet(max_length) ==
    \E h \in headers :
        LET length == (h.length + Width16 - 4) % Width16
            next == Up4(rx_offset + length + 4)
        IN  /\ IF ~h.ready \/ too_long(length, max_length)
               THEN rx_offset' = 0 /\ UNCHANGED <<rx, delivered>>
               ELSE /\ rx' = [frame |-> copied(length), length |-> length, max_length |-> max_length]
                    /\ rx_offset' = IF next >= RTL_RX_BUFFER_SIZE THEN 0 ELSE next
                    /\ delivered' = Min({delivered + 1, MaxFrames})
            /\ rx_read' = IF h.ready THEN rx_offset' ELSE rx_read
            /\ UNCHANGED <<rx_ring, rx_write, arrived, txVars>>

-----------------------------------------------------------------------------
\* Sending.  The frame is copied over whatever the buffer holds.  Frames are no
\* longer than the buffer, so that the cut to RTL_TX_BUFFER_SIZE does nothing.
pending == {d \in Desc : tx_status[d] # Free}

\* A seeded slip: one descriptor too many.
Mut_tx_advance(i) == (i + 1) % (RTL_MAX_PACKETS + 1)

tx_advance(i) == (i + 1) % RTL_MAX_PACKETS

rtl8139_send_packet ==
    LET f == given + 1 IN
    /\ f <= MaxFrames
    /\ tx_ring' = f /\ given' = f
    /\ tx_status' = [d \in Desc |->
           IF d = tx_buffer_index THEN [frame |-> f, alone |-> pending = {}]
           ELSE IF d \in pending THEN [tx_status[d] EXCEPT !.alone = FALSE] ELSE Free]
    /\ overrun' = (overrun \/ tx_buffer_index \in pending)
    /\ tx_buffer_index' = tx_advance(tx_buffer_index)
    /\ UNCHANGED <<tx_next, wire, rxVars>>

\* The card sends what the buffer holds now, and takes its descriptors in turn.
card_send ==
    /\ tx_next \in pending
    /\ wire' = [frame |-> tx_ring, given |-> tx_status[tx_next].frame,
                alone |-> tx_status[tx_next].alone]
    /\ tx_status' = [tx_status EXCEPT ![tx_next] = Free]
    /\ tx_next' = (tx_next + 1) % Descriptors
    /\ UNCHANGED <<tx_ring, tx_buffer_index, given, overrun, rxVars>>

NicNext ==
    \/ \E len \in FrameLen : card_receive(len)
    \/ \E max_length \in MaxLength : rtl8139_recv_packet(max_length)
    \/ rtl8139_send_packet \/ card_send

NicSpec == NicInit /\ [][NicNext]_nicVars

-----------------------------------------------------------------------------
(***************************************************************************)
(* Of the card's two sides: while no descriptor was used before its time,  *)
(* what waits is what the card takes next, no frame given is left out, and *)
(* a frame sent with nothing else under way leaves as it was given.        *)
(* Whatever the driver takes for a header, it copies no more than the      *)
(* receiver has room for and reads on at a cell of the ring; and the first *)
(* frame it delivers is the first that arrived.                            *)
(***************************************************************************)
CardInStep ==
    /\ ~overrun => /\ pending = {(tx_next + k) % Descriptors : k \in 0 .. Cardinality(pending) - 1}
                   /\ wire.given = given - Cardinality(pending)
    /\ wire.alone => wire.frame = wire.given
    /\ rx.length <= rx.max_length
    /\ rx_offset \div 4 \in Cells /\ rx_offset % 4 = 0
    /\ delivered = 1 => rx.frame = 1
=============================================================================
