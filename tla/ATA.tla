-------------------------------- MODULE ATA --------------------------------
(***************************************************************************)
(* The ATA PIO driver of CottonOS (drivers/storage/ata.rs) as CottonFS     *)
(* drives it: read_block / write_block (fs/cottonfs.rs) turn a 4 KiB block *)
(* into SPB sectors and call BlockDevice::read / write, that is            *)
(* read_sectors / write_sectors, which program the task-file registers,    *)
(* poll the status register for DRQ or ERR in bounded loops, move one      *)
(* sector per DRQ, and after a write issue FLUSH CACHE and poll for BSY.   *)
(*                                                                         *)
(* The drive is the environment.  It is modelled after the ATA task-file   *)
(* protocol as QEMU's IDE emulation implements it: a command written while *)
(* BSY or DRQ is set is ignored; while BSY is set the status reads BSY     *)
(* alone; a data-port access in the wrong direction is ignored, or reads   *)
(* garbage; a written sector goes to the drive's write cache, which it     *)
(* writes back to the media when it likes and completely on FLUSH CACHE;  *)
(* a sector beyond the end of the drive aborts the command with ERR.       *)
(* Faults: a media error aborts a busy command with ERR, and a drive may   *)
(* hang with BSY set.  With SLOW, a busy drive may also outlast a poll     *)
(* loop and answer afterwards.                                             *)
(*                                                                         *)
(* A poll loop of 100000 status reads is one step that sees the status the *)
(* loop would break on, or a timeout step, which happens only when no such *)
(* status comes within the loop.                                           *)
(***************************************************************************)
EXTENDS Integers, Sequences

CONSTANTS
    SECTORS,    \* the drive's sector count (IDENTIFY words 60-61 or 100-103)
    SPB,        \* SECTORS_PER_BLOCK (8)
    Vals,       \* the contents a block write gives each sector
    FAULTS,     \* the drive may fail a command or hang
    SLOW,       \* a busy drive may outlast a poll loop
    MAX_OPS     \* bound on the block calls CottonFS makes

Blank == "blank"        \* the contents of a sector never written
Junk == "junk"          \* what the data port reads outside a read transfer

Sector == 0..SECTORS - 1

\* Superblock::new(device.total_blocks()): the filesystem's block count is
\* the drive's total_blocks(), which AtaDevice reports in 512-byte sectors.
TotalBlocks == SECTORS
Blocks == 0..TotalBlocks - 1

\* read_block / write_block: the block's first sector.
BlockLba(b) == b * SPB
SectorsOf(b) == {BlockLba(b) + i : i \in 0..SPB - 1}

(***************************************************************************)
(* The drive                                                               *)
(***************************************************************************)

Idle == [st |-> "idle", op |-> "none", lba |-> 0, left |-> 0, full |-> FALSE, buf |-> Blank]

\* The host writes the command register: accepted unless BSY or DRQ is set.
Command(d, op, lba, n) ==
    IF d.st \in {"busy", "hung", "drq"} THEN d
    ELSE [st |-> "busy", op |-> op, lba |-> lba, left |-> n, full |-> FALSE, buf |-> d.buf]

(***************************************************************************)
(* The driver's register sequences                                         *)
(***************************************************************************)

\* read_sectors / write_sectors up to the command: the buffer is large
\* enough and the count fits (CottonFS always passes SPB sectors of one
\* block), the drive, LBA and count registers are programmed, then the
\* command is written.
Issue(d, op, lba) == Command(d, op, lba, SPB)

VARIABLES
    disk,     \* what the drive returns for each sector (media and cache)
    media,    \* what a power loss leaves of each sector
    dev,      \* the drive: [st, op, lba, left, full, buf]
    drv,      \* the driver's call: [pc, op, blk, k, got, val]
    last,     \* the latest block call and its result
    ops       \* block calls made

vars == <<disk, media, dev, drv, last, ops>>

NoCall == [pc |-> "idle", op |-> "none", blk |-> 0, k |-> 0, got |-> <<>>, val |-> Blank]

Init ==
    /\ disk = [s \in Sector |-> Blank]
    /\ media = disk
    /\ dev = Idle
    /\ drv = NoCall
    /\ last = [op |-> "none", blk |-> 0, res |-> "none", got |-> <<>>, val |-> Blank]
    /\ ops = 0

\* The call returns res to CottonFS.
Return(res) ==
    /\ last' = [op |-> drv.op, blk |-> drv.blk, res |-> res, got |-> drv.got, val |-> drv.val]
    /\ drv' = NoCall

(***************************************************************************)
(* CottonFS's calls                                                        *)
(***************************************************************************)

\* read_block: BlockDevice::read(block * SPB, SPB), read_sectors.
ReadBlock(b) ==
    /\ drv.pc = "idle" /\ ops < MAX_OPS
    /\ dev' = Issue(dev, "read", BlockLba(b))
    /\ drv' = [NoCall EXCEPT !.pc = "rd_poll", !.op = "read", !.blk = b]
    /\ ops' = ops + 1
    /\ UNCHANGED <<disk, media, last>>

\* write_block: BlockDevice::write(block * SPB, SPB), write_sectors.
WriteBlock(b, v) ==
    /\ drv.pc = "idle" /\ ops < MAX_OPS
    /\ dev' = Issue(dev, "write", BlockLba(b))
    /\ drv' = [NoCall EXCEPT !.pc = "wr_poll", !.op = "write", !.blk = b, !.val = v]
    /\ ops' = ops + 1
    /\ UNCHANGED <<disk, media, last>>

(***************************************************************************)
(* The driver's poll loops                                                 *)
(***************************************************************************)

\* read_sectors, one sector: the loop returns Err on ERR, else breaks on
\* DRQ; then 256 inw.  A read transfer hands over the drive's sector and
\* moves it on; in a write transfer the data port reads garbage.
RdPoll ==
    /\ drv.pc = "rd_poll"
    /\ \/ dev.st = "err" /\ Return("err") /\ UNCHANGED dev
       \/ /\ dev.st = "drq"
          /\ LET got == Append(drv.got, IF dev.op = "read" THEN dev.buf ELSE Junk)
             IN  IF Len(got) = SPB
                 THEN /\ last' = [op |-> "read", blk |-> drv.blk, res |-> "ok",
                                  got |-> got, val |-> Blank]
                      /\ drv' = NoCall
                 ELSE drv' = [drv EXCEPT !.got = got] /\ UNCHANGED last
          /\ dev' = IF dev.op # "read" THEN dev
                    ELSE [dev EXCEPT !.st = IF dev.left = 1 THEN "idle" ELSE "busy",
                                     !.left = @ - 1, !.lba = @ + 1]
    /\ UNCHANGED <<disk, media, ops>>

\* write_sectors, one sector: Err on ERR, else on DRQ 256 outw.  A write
\* transfer fills the drive's buffer; in a read transfer the words are
\* dropped.  After the last sector the driver goes straight to flush().
WrPoll ==
    /\ drv.pc = "wr_poll"
    /\ \/ dev.st = "err" /\ Return("err") /\ UNCHANGED dev
       \/ /\ dev.st = "drq"
          /\ drv' = [drv EXCEPT !.k = @ + 1, !.pc = IF drv.k + 1 = SPB THEN "flush" ELSE "wr_poll"]
          /\ dev' = IF dev.op # "write" THEN dev
                    ELSE [dev EXCEPT !.st = "busy", !.full = TRUE, !.buf = drv.val]
          /\ UNCHANGED last
    /\ UNCHANGED <<disk, media, ops>>

\* flush: write FLUSH CACHE at once, without reading the status first.
FlushIssue ==
    /\ drv.pc = "flush"
    /\ dev' = Command(dev, "flush", 0, 0)
    /\ drv' = [drv EXCEPT !.pc = "fl_poll"]
    /\ UNCHANGED <<disk, media, last, ops>>

\* flush's loop breaks when BSY is clear; flush returns Ok whatever the
\* status, and so does write_sectors.
FlPoll ==
    /\ drv.pc = "fl_poll"
    /\ dev.st \notin {"busy", "hung"}
    /\ Return("ok")
    /\ UNCHANGED <<disk, media, dev, ops>>

\* A poll loop runs out: the status it waits for did not come within
\* 100000 reads, because the drive hung, has nothing to offer, or is slow.
Stalled == dev.st \in {"idle", "hung"} \/ (SLOW /\ dev.st = "busy")

\* Mutant: a poll loop without an iteration bound keeps spinning.
RdTimeoutUnbounded ==
    /\ drv.pc = "rd_poll" /\ Stalled
    /\ UNCHANGED vars

RdTimeout ==
    /\ drv.pc = "rd_poll" /\ Stalled
    /\ Return("err")
    /\ UNCHANGED <<disk, media, dev, ops>>

WrTimeout ==
    /\ drv.pc = "wr_poll" /\ Stalled
    /\ Return("err")
    /\ UNCHANGED <<disk, media, dev, ops>>

\* flush ignores its own timeout.
FlTimeout ==
    /\ drv.pc = "fl_poll" /\ (dev.st = "hung" \/ (SLOW /\ dev.st = "busy"))
    /\ Return("ok")
    /\ UNCHANGED <<disk, media, dev, ops>>

(***************************************************************************)
(* The drive's steps                                                       *)
(***************************************************************************)

InRange(d) == d.lba < SECTORS

\* A busy drive finishes its current step: it offers the next sector of a
\* read, asks for the next sector of a write, stores a received sector in
\* its cache, or completes a flush.  A sector beyond the end aborts.
DevStep ==
    /\ dev.st = "busy"
    /\ \/ /\ dev.op = "read"
          /\ dev' = IF InRange(dev) THEN [dev EXCEPT !.st = "drq", !.buf = disk[dev.lba]]
                    ELSE [dev EXCEPT !.st = "err"]
          /\ UNCHANGED <<disk, media>>
       \/ /\ dev.op = "write" /\ ~dev.full
          /\ dev' = [dev EXCEPT !.st = IF InRange(dev) THEN "drq" ELSE "err"]
          /\ UNCHANGED <<disk, media>>
       \/ /\ dev.op = "write" /\ dev.full
          /\ disk' = [disk EXCEPT ![dev.lba] = dev.buf]
          /\ dev' = [dev EXCEPT !.st = IF dev.left = 1 THEN "idle" ELSE "busy",
                                !.left = @ - 1, !.lba = @ + 1, !.full = FALSE]
          /\ UNCHANGED media
       \/ /\ dev.op = "flush"
          /\ media' = disk
          /\ dev' = [dev EXCEPT !.st = "idle"]
          /\ UNCHANGED disk
    /\ UNCHANGED <<drv, last, ops>>

\* The drive writes one cached sector back to the media on its own.
DevWriteBack ==
    /\ \E s \in Sector : disk[s] # media[s] /\ media' = [media EXCEPT ![s] = disk[s]]
    /\ UNCHANGED <<disk, dev, drv, last, ops>>

\* A media error aborts the busy command; or the drive hangs with BSY set.
DevFault ==
    /\ FAULTS /\ dev.st = "busy"
    /\ \/ dev' = [dev EXCEPT !.st = "err"]
       \/ dev' = [dev EXCEPT !.st = "hung"]
    /\ UNCHANGED <<disk, media, drv, last, ops>>

\* CottonFS has made its MAX_OPS calls; the model stops here.
Done ==
    /\ drv.pc = "idle" /\ ops = MAX_OPS
    /\ UNCHANGED vars

Next ==
    \/ \E b \in Blocks : ReadBlock(b)
    \/ \E b \in Blocks, v \in Vals : WriteBlock(b, v)
    \/ RdPoll \/ WrPoll \/ FlushIssue \/ FlPoll
    \/ RdTimeout \/ WrTimeout \/ FlTimeout
    \/ DevStep \/ DevWriteBack \/ DevFault
    \/ Done

\* The CPU keeps running the call's loop, and a drive that has not hung
\* finishes what it is busy with.
Fairness ==
    /\ WF_vars(RdPoll) /\ WF_vars(WrPoll) /\ WF_vars(FlushIssue) /\ WF_vars(FlPoll)
    /\ WF_vars(RdTimeout) /\ WF_vars(WrTimeout) /\ WF_vars(FlTimeout)
    /\ WF_vars(DevStep)

Spec == Init /\ [][Next]_vars /\ Fairness

(***************************************************************************)
(* Properties                                                              *)
(***************************************************************************)

BlockData(d, b) == [i \in 1..SPB |-> d[BlockLba(b) + i - 1]]

\* A read_block that returns Ok hands CottonFS what the drive holds in the
\* block's sectors at that moment, in order, whatever failed or timed out
\* before it.
ReadsReturnDisk ==
    [][drv.op = "read" /\ drv'.pc = "idle" /\ last'.res = "ok"
          /\ SectorsOf(drv.blk) \subseteq Sector
          => last'.got = BlockData(disk', drv.blk)]_vars

\* Every block call returns to CottonFS, also when the drive fails or
\* hangs: each poll loop ends.
CallsReturn == drv.pc # "idle" ~> drv.pc = "idle"

\* A write_block that returns Ok has its block on the media: write_sectors
\* ends with FLUSH CACHE, so a power loss after it keeps the block.
WritesDurable ==
    last.op = "write" /\ last.res = "ok" =>
        \A s \in SectorsOf(last.blk) : s \in Sector /\ media[s] = last.val

\* On a drive that neither fails nor stalls, every block call CottonFS makes,
\* to any block below its superblock's total_blocks, returns Ok.
HealthyCallsSucceed == ~FAULTS /\ ~SLOW => last.res # "err"

TypeOK ==
    /\ dev.st \in {"idle", "busy", "drq", "err", "hung"}
    /\ drv.pc \in {"idle", "rd_poll", "wr_poll", "flush", "fl_poll"}
    /\ ops \in 0..MAX_OPS

====
