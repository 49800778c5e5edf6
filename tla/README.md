# TLA+ models of yesterwind-xyzmodem

This directory is a verification development of the X-, Y- and Z-Modem engines in
`src/yesterwind_xyzmodem/` and of the demo programs around them: TLA+ modules translated from the source, TLC configurations
that check them on small instances, and proofs that TLAPS checks for every value of the
parameters. `PROJECT.json` says, definition by definition, which lines each one models,
lists the runs, the hazards they are for and the results that are proved. Paths below are
relative to `src/yesterwind_xyzmodem/`.

    tlc -config xm_calm.cfg MCXModem      # a run: its cfg, and the MC module it names
    tlapm XModemProofs.tla                # a proof module

1. [The system](#1-the-system)
2. [The modules](#2-the-modules)
3. [The runs](#3-the-runs)
4. [Where the code and its documents disagree](#4-where-the-code-and-its-documents-disagree)
5. [Proofs](#5-proofs)
6. [What is not modelled](#6-what-is-not-modelled)
7. [Plan](#7-plan)

## 1. The system

Every engine is a pair of coroutines, one at each end of a byte line: it writes, then
awaits one read with a time-out, then acts on what came. The two share nothing but
the line. All that is hard here comes from that: an answer is a byte or a header without
the number of what it answers, both ends have a time-out of the same length, and each
repeats what it sent when its own runs out.

| Component | State it keeps | Operations | What makes it correct |
|---|---|---|---|
| **X-Modem engine** `xmodem.py` | sender: CRC or checksum, `block_num`, attempt; receiver: `expected_block`, `consecutive_errors`, the blocks collected | `send`, `_sender_handshake`, `_send_blocks`, `_send_block`, `_send_eot`; `receive`, `_receive_blocks` | blocks taken once, in order, over the wrap of the number; the stream gets all or nothing; `send` returns only after `receive` did; both end |
| **Y-Modem engine** `ymodem.py` | the same per file, the file it is in, G mode, the open output file, the files received | `send`, `_send_file`, `_send_block0`, `_send_data_blocks`, the waits for ACK and 'C'; `receive`, `_receive_block0`, `_receive_data_blocks` | files stay apart and in order; a closed file is whole and cut at its size; both end |
| **Z-Modem engine** `zmodem.py` | the file it is in, offsets, the attempt, the open output file and what earlier sessions left of it | `send`, `_send_file`; `receive`, `_receive_file_data`; headers and subpackets | a file grows by its own next bytes, also over sessions that were cut; reported only when whole; a session without faults succeeds |
| **Padding and trimming** | none | SUB padding of the last block, stripping, cutting at the size | what was padded is what is taken off |
| **CRC and checksum** `crc.py` | two tables | `crc16`, `crc32`, `checksum` | they are the CRCs of the polynomials, so that damage is found |
| **Transports** `transport.py` | the stream | `read`, `write`, reads with a time-out | bytes in order; a short read is not mistaken for a frame |
| **BBS client** `demos/bbs.py` | the chunk, the window for the Z-Modem magic, the bytes ready for display, `_in_transfer`, `_running`, the terminal's mode | `_remote_to_local`, `_local_to_remote`, `_do_zmodem_receive`, `_on_winch`, `run` | a transfer starts when one is offered; no key reaches the line amid it; text is shown once and in order; the terminal is restored; a hang-up or Ctrl+] ends it |
| **Send server** `demos/send.py` | the listening socket, the tasks of its clients, their displays | `serve`, `_client_factory`, `_handle_client` | nobody's transfer is cancelled by the end of another's; a single-shot server returns |
| **Receive client** `demos/receive.py` | one session, its display | `receive` | it ends, with exit code 0 when it has every file |
| **Progress callbacks** `callbacks.py` | none | events fired by the engines | order of events |
| **Constants, exceptions, wrappers** | none | | |

The engines call the transport (`read`, `write`, `read_byte_with_timeout`) and the caller's
callback; the demos call the engines. The BBS client has two tasks and a signal handler over
shared state (`_in_transfer`, `_running`, the writer); the send server has a task for each
client over its set of pending tasks and one console.

**Hard behaviours**: an answer that arrives after the time-out it should have prevented; a
lost or damaged frame, ACK, 'C', EOT or header; a frame that loses its first byte and is
then read byte by byte as something else; noise that reads as CAN or EOT; the wrap of block
numbers at 256; the end of a file and the beginning of the next with an answer still
outstanding; a session cut, or a process killed, between any two steps, and the session that
resumes from what it left; retry loops whose attempts are used up by something unrelated;
one damaged byte amid escapes, CRCs and terminators; a stream cut into chunks at any place;
tasks that end each other, and clients that connect while a server closes.
`PROJECT.json` lists them as hazards, each at its line.

## 2. The modules

| Module | What it is |
|---|---|
| `FileTransfer` | what one transfer promises its two callers (abstract) |
| `XModem` | the X-Modem engine, both ends, and the line |
| `XModemProofs` | theorems about `XModem` |
| `Downloads` | what resumable downloads promise (abstract) |
| `ZModem` | sessions of the Z-Modem engine, over files that outlive them |
| `ZModemProofs`, `ZModemDiskProofs` | theorems about `ZModem`: about its sessions, and about the files they leave |
| `YModem` | batches of the Y-Modem engine, acknowledged and streamed |
| `YModemProofs` | theorems about `YModem`: batches with timers that wait, and any batch |
| `Crc` | the two CRCs by their tables, and the polynomials they are to be the CRCs of |
| `CrcProofs` | theorems about the CRCs, and an induction for what recursive functions compute |
| `Framing` | the bytes of headers and subpackets, the readers (extends `Crc`) |
| `FramingProofs` | theorems about `Framing` |
| `BBSClient`, `BBSClientProofs` | the telnet client of `demos/bbs.py`, and theorems about it: its modes and its line, and the text it shows |
| `SendServer`, `SendServerProofs` | the server of `demos/send.py` with clients of `demos/receive.py`, and theorems about them |
| `MCXModem`, `MCYModem`, `MCZModem`, `MCFraming`, `MCBBSClient`, `MCSendServer` | values of constants for the configurations |

The engines' modules do not import each other: `ZModem` takes the headers and subpackets for
tokens, and `Framing` checks (`TokenLine`, `CleanDelivery`) that bytes behave as those tokens do;
`BBSClient` and `SendServer` take a Z-Modem session for what `ZModem` shows of it: that it
ends (`Terminates`), and that the sender returns only when the receiver has the files (`SenderKnows`).

### How code becomes actions

Each engine is single-threaded between two awaits of a read, so an action is the code from
the return of one read to the next read: the whole handler, with what it writes. Writes go to
the end of a queue (`fwd` from sender to receiver, `rev` back), reads take its head. Where a
frame takes several reads (header byte, number, complement, data, check), the frame is one
token and one action, because nothing is written in between and no variable of the other
end is touched.

**Time-outs** are actions of their own (`SenderTimeout`, `ReceiverTimeout`). `Quiet` says
that nothing is on its way to an end that still reads; a timer may expire when that is so.
It may also expire while an answer is still coming, `MaxLate` times in a behaviour: that
is the delayed answer that makes these protocols difficult. The code's clock is not modelled
further; both ends have the same `timeout`, so in silence either may be first.

**The line** keeps order (it is a stream) and commits at most `MaxFaults` faults, at the head
of a queue. A process that stops, or a link that goes, is `Cut` (in `ZModem`, where
something survives it); in `XModem` and `YModem` the other end sees such a thing as silence.

### XModem

`sphase` is the place of `send()`: `handshake` (`_sender_handshake`), `block` (the retry loop
of `_send_block`), `eot` (`_send_eot`), or how it ended. `rphase` is that of `receive()`: `run`
(the header read of `_receive_blocks`), `can` (the read after a first CAN), or how it ended.

| Action | Code |
|---|---|
| `SenderHandshake` / `SenderAnswer` / `SenderEotAnswer` | a byte read by `_sender_handshake`, `_send_block`, `_send_eot`; `Transmit` is the next round of `_send_blocks`, `Retry` the next attempt of the three loops or their failure |
| `SenderTimeout` | `asyncio.TimeoutError` in any of them |
| `ReceiverStart` | the handshake byte, written once |
| `ReceiveEot`, `ReceiveCan`, `ReceiveAfterCan`, `ReceiveJunk` | the branches on the header byte |
| `ReceiveDamaged`, `ReceiveBlock` | a frame that fails a test; a good one (duplicate, out of sequence, next) |
| `ReceiverTimeout` | the two time-outs of `_receive_blocks` |
| `ForwardFault`, `ReverseFault` | the line |

A block's data is its index in the file, which the wire carries modulo `NumMod` (256 in the
code); the receiver decides on the number alone, so a wrong block taken for the right one is a
state of the model. A frame's `wire` says how its bytes look: whole, damaged, one byte short, or
announced by a header that wants a longer frame. A frame that lost its header byte
(`Residue`) goes on as what its second byte, the block number, means as a header: 1 is SOH, 2
is STX, 4 is EOT, 24 is CAN, and else noise, followed by `TailBytes`. A frame may also arrive in
two pieces (the fault `"split"`): `StreamTransport.read` returns the first, which is a frame one byte
short to the receiver, and its last byte is then read as a header (`FrameTail`). The CRC and the checksum
are ideal: damage is always seen. `retry_limit` and the check mode are constants; what
`use_crc` the sender ends up with is not, it follows from the byte it reads.

### ZModem

Several sessions, one after another, over the files of the receiver's directory. `sphase` is
`init` (`send()` waits for ZRINIT), `zrpos` and `eof` (the two waits of `_send_file`), `fin`;
`rphase` is `main` (the loop of `receive()`), `info` (ZFILE's subpacket), `file` (the header
read of `_receive_file_data`), `data` (its subpacket read), `garbled` (a subpacket read that
took a header for data). `AwaitZrinit`, `AwaitZrpos`, `AwaitConfirmation` are the sender's
handlers, `GoTo` its loop over the files, `Stream` what it writes after ZRPOS, all at once and
without waiting; `ReceiveHeader`, `ReceiveInfo`, `ReceiveFileHeader`, `ReceiveData`,
`ReceiveUnexpected`, `ReceiveIntoSubpacket` the receiver's. `Cut` ends a session anywhere;
when the receiver's process dies, what its file object had not written out since the file was
opened is lost, any amount of it. `DieBeforeClose` is the one place inside a handler where that
matters: ZACK is written and the file is not closed yet. `Restart` is the user who tries again.

`ForeignSkip` and `ForeignAbort` are programs of other makes, which the code interoperates
with: this receiver never writes ZSKIP, this sender never ZABORT, but each reads them.

The line carries headers and subpackets whole. It may lose a header, damage a header or a
subpacket (which then fails its CRC, or is garbled up to a terminator that was none), but not
lose a whole subpacket; `Framing` shows that one faulty byte does no more, and `DamagedByteShows` that a
byte changed in what a CRC covers is seen, however long it is. Nothing in the code compares an offset while it
receives, and a subpacket that vanished without a trace would be a gap nobody sees (a stream
that loses exactly that is listed as a hazard).

### YModem

`sphase` follows the waits of `send()`: `handshake`, `ack0` and `c` after a block 0, `block`,
`eot`, `last`; `stream` is G mode, in which the sender reads nothing until the last block 0 and
`SenderStreams` writes one whole file. `rphase` is `block0` (`_receive_block0`) or `data`
(`_receive_data_blocks`). `Written` is the end of `_receive_data_blocks`: cut at the size sent
in block 0, or stripped of SUBs. Frames are lost or damaged as a whole; the frames that lose
their header byte are in `XModem`, whose receiver has much the same loop; a read that returns less than a
frame, which X-Modem's receiver tests for (`xmodem.py:302`) and Y-Modem's does not, is modelled for X-Modem only.

### Framing

The items of a batch are encoded as `zmodem.py` does (`BuildHexHeader`, `BuildBin32Header`,
`DataSubpacket`; `BuildBin16Header` is what other programs send), the line changes or loses a
byte, and `ReadByte` is one byte of `_read_header`, `_read_hex_header`, `_read_bin_header` or
`_read_data_subpacket_with_term`, by `mode`: `scan` (for ZDLE), `fmt`, `hex`, `trail` (the CR and LF
that are awaited for a tenth of a second), `bin16`, `bin32`, `sub`, `crc`. What the reader
goes on with after each item is the choice of `receive` and `_receive_file_data`. A reader that raises stops:
what the engines then do is in `ZModem`. `BatchesAssumption` says which batches there are: items that come as the
reader of the other end expects them (`Orderly`). `send()` keeps to that but for a ZDATA
with nothing after it, which is `zm_resume` of section 4.

`Crc` has `crc16` and `crc32` as the code computes them, a byte and a table entry at a time (`Turn16`, `Turn32`,
with tables built by `Shift16`, `Shift32`), and beside them the division by the polynomial, a bit at a time
(`Serial16`, `Serial32`, checked against the published check values in `MCFraming`). Exclusive or is a recursive function on
pairs of numbers, and not the operator of the community modules, so that it can be proved about. 32-bit words are
pairs of halves, since TLC's integers have 32 bits with a sign.

### BBSClient

A byte is its place in what the BBS sends, so that its order and its fate can be told. `taken` is the
end of the chunk, `pos` how far it is handled. `rphase` is the place of `_remote_to_local`: `read` (the
read with half a second), `scan` (its loop over the chunk), `cmd` (after an IAC, with the
`readexactly` that have no time-out), `session` (inside `_do_zmodem_receive`).

| Action | Code |
|---|---|
| `Read`, `ReadTimeout`, `ChunkDone` | a chunk, nothing for half a second, the end of the loop over a chunk |
| `ScanByte`, `ScanIac` | a byte through the window, and the fourth of the magic; an IAC with its flushes |
| `AwaitCommand`, `Command` | the reads a command needs beyond the chunk; the command, with `_Negotiator.handle` |
| `SessionReads`, `SessionEnds` | what `ZModem.receive` takes of the chunk, then of the stream; its return or exception, the rest of the chunk dropped |
| `TakeKey`, `KeyTimeout`, `Type` | `_local_to_remote`; `Type` is `_stdin_ready` |
| `Resize` | `_on_winch`, between any two steps |
| `RunEnds`, `Interrupt` | `run`: `gather` returns or raises, or both tasks are cancelled; its finally clause |

A step handles one byte or one command, which is finer than the event loop: tasks switch
only where they await. Every order of the code is an order of the model, so what holds of the
model holds of the code; none of the properties is violated by the finer steps. After
an offer the scripts hold no commands, because a session may give up anywhere, also inside one.

### SendServer

`server` is the place of `serve()`, `handler[c]` that of `_handle_client` for client `c`: `accepted`
(the connection is there and `_client_factory` has not run), `starting` (its task has not begun),
`sending` (in `ZModem.send`), `closing` and `draining` (its finally clause), `done`, `crashed`. `Accept`
takes every connection that waits, `Connected` runs the factory for all of them in one turn
of the loop and closes a single-shot server. `Poll` and `Gathered` are the beginning and the end of its
`gather`, and `Return` is the exit of `async with server`, which closes the server and awaits `wait_closed()`.
`HandlerStarts` to `HandlerCloses` are the handler, `Connect` to `ClientFails` the client; `Interrupt` is Ctrl+C,
by the place where it finds `serve()`.

Three settings of `Init` never change. `nested`: `rich` keeps one display per console before 14.1
and nests them since (`lives` and `begun` count them); the project asks for 13.0 or later. `waits`: before
Python 3.12 `wait_closed()` waits for nothing once the server is closed; since, it waits until every connection
is closed, that of a handler that crashed among them, which nothing in the code closes (`LeftOpenCloses`: the
collection of its writer or its client may, or never). The project names 3.10 to 3.12. `left[c]`: the files of which client `c` lacks
something; a file that is empty, or that it has whole, is not among them, and fails the session at both ends
(`NothingLeft`), as `zm_resume` shows of `ZModem`.

### Abstract specifications

`FileTransfer` has two verdicts and an output stream: `Deliver` puts the whole file there and
returns, `ConfirmSend` may follow only that, and the rest raise. `XModem!KeepsPromise` is
`FileTransfer!Spec` with the verdicts read off the phases. `Downloads` has for each file what is
on the disk, how much of it a crash cannot take, and what this session reported; files are
only extended by their own next bytes and reported only whole. `ZModem!KeepsPromise` is
`Downloads!Spec`, with `safe` the length at opening while a file is open and its length
otherwise. In both, "refines" is the content of "never corrupts".

## 3. The runs

Every passing run explores its state space exhaustively. Deadlock is not checked: the calls,
the client and the clients of the server end, and the system with them; the liveness properties
say that it ends nowhere else.

| Run | Shows | Bounds |
|---|---|---|
| `xm_calm` | with timers that wait, the ends stay in step (`CalmInv`), success is mutual, nothing is cut short, `FileTransfer` is kept, and fewer than `retry_limit` faults do not stop the receiver once the handshake is through (`Completes`) | 5 blocks over a number cycle of 4, so that numbers repeat; 3 faults against a limit of 4, the most that `Completes` allows |
| `xm_lossy` | with early timers, each leaves at most one ACK too many (`StaleAcksBounded`), and no block is mistaken for one a cycle away (`PrefixDelivered`) | 7 blocks over a cycle of 4, 2 faults, 2 early timers |
| `xm_noisy` | with every fault there is (frames that lose their header or come in two pieces, noise that reads as EOT or CAN) what is accepted is a prefix, and both calls end | 4 blocks, cycle of 6 so that number 4 (EOT as a header) occurs, what is left of a frame reads as two CANs; 2 faults, 2 early timers |
| `zm_session` | over two sessions, with faults, cuts, kills and programs of other makes: `Downloads` is kept, `send` returns only when every file was received or refused (but for a receiver that dies between a ZACK and the closing of the file), a session that fails had a fault or an early timer, or a file with nothing left to send; every session ends | files of 3 and 1 bytes in subpackets of 2: one full, one partial, one alone; 2 faults and an early timer in each session |
| `ym_batch` | files are kept apart and in order, streamed or not and however early a timer runs, where block numbers can tell (`FilesUnmixed`); with timers that wait, closed files are whole and cut at their size, and `send` returns only when all are closed; both calls end, streamed or not | files of 7, 0 and 2 blocks over a cycle of 5: one wraps, one is empty; one size is known; 2 faults, 2 early timers. With a fault the numbers tell of the first and the third file, and of the empty one they do not: both sides of `NumbersTell` occur |
| `framing` | without a fault every item is read as it was written (`CleanDelivery`); one faulty byte or early timer makes at most a header vanish and nothing else be returned (`TokenLine`); the tables give the polynomials' CRCs on whatever was collected (`CrcTablesAgree`) | three batches: a session of this sender, the answers to it, and binary headers with every terminator; the data hold each byte that is escaped and the letters of the terminators. One fault, anywhere: a byte lost, one of four of its bits changed, or turned into one of `NoiseBytes` (CR, XON, ZDLE, the letters of a header format and of two terminators, 200). `ScanLimit` is 22 for 1024, more than the longest gap of these batches |
| `bbs_client` | text is shown once and in order, an offer in one piece is taken, a session owns the line, the terminal is restored, a hang-up and Ctrl+] end the client | four BBSs of 8 to 14 bytes (stars before an offer, options and a literal IAC amid half an offer, a command inside an offer, a subnegotiation and two offers in a row), in chunks of every size; 2 reads of the keyboard, 1 resize |
| `demo_serve` | a single-shot server waits for every handler and returns; displays are stopped; without a fault or a Ctrl+C a client fails only at a file with nothing left to send, or by a rich that refuses displays (`CleanClientSucceeds`); every client that connects comes to an end, and so does the server, unless a Python that waits for connections waits for one left open (`SingleShotReturns`) | 2 clients, 2 files, both modes, either rich, either Python, each client with no file or with the last one already (or the last one empty), 2 faults |
| `xm_truncated`, `xm_mode`, `zm_resume`, `ym_stream` | a disagreement each, see [section 4](#4-where-the-code-and-its-documents-disagree) | the smallest instance that has it |

`xm_lossy` needs its number cycle: the sender may be `1 + MaxLate` blocks ahead, and the receiver
can tell them apart while `MaxLate + 2 <= NumMod`. With 3 early timers and a cycle of 4
`StaleAcksBounded` fails, because a block a whole cycle ahead is taken for the duplicate it
looks like; section 5 proves that within the condition it holds in any file. The code's cycle of 256 leaves room for 254 early time-outs in one transfer.

**Fairness.** A coroutine whose read has something to return is scheduled
(`WF_vars(SenderReads)`, `WF_vars(ReceiverReads)`, and the start of each), and
`asyncio.wait_for` expires when nothing comes (`WF_vars(Quiet /\ SenderTimeout)`, the same for
the receiver). Weak fairness is enough and is what the event loop gives: a readable
stream stays readable until it is read, silence lasts until somebody's timer ends it. Nothing
is assumed of faults, early timers, cuts, restarts or other programs. The `MaxFaults` bound
is no fairness of the line: `Terminates` holds for a line that uses it up at any time.

In `BBSClient` the two tasks and `run` are scheduled (`WF_vars(Remote)`, `WF_vars(Local)`,
`WF_vars(RunEnds)`), their reads with a time-out expire, and a session ends
(`WF_vars(SessionEnds)`: each of its reads has a time-out, and `Terminates` is checked for `ZModem`).
BBS and user owe nothing, so `QuitEnds` must except a command that the BBS leaves unfinished, which is
awaited without a time-out. In `SendServer` the loop and every task run on, a read that is not answered
expires, and nobody has to connect, to press Ctrl+C, or to close the connection of a crashed handler. `Framing` has safety only.

**What the bounds leave out.** Faults and early timers are bounded, so the runs say nothing of a
line that is never quiet; the theorems of section 5 do, their bounds being parameters.
`framing` shows single faults; of two in one batch it says nothing.

## 4. Where the code and its documents disagree

Each run finds one property violated that a docstring, comment or roadmap item states.

- **`xm_truncated`** (`xmodem.py:269`). `receive` "Raises on failure", but any EOT ends its loop
  and commits what came. An early time-out makes the sender repeat a
  block, which is then acknowledged twice; the second ACK is taken for the next block's. If
  that next block is the last and is lost, EOT follows it and `receive()` returns a file that lacks it.
- **`xm_mode`** (`xmodem.py:266`). "The sender honours whichever the receiver requests", but a
  receiver that asked for CRCs with a 'C' that was lost answers its time-out with NAK, which is how
  checksums are asked for. No frame passes from then on, and both give up.
- **`zm_resume`** (`zmodem.py:365`). "Resume interrupted transfers from last confirmed byte": when
  all the bytes had arrived and ZEOF's answer had not, the next session has nothing to send,
  writes ZDATA and no subpacket, and the receiver waits for one, takes ZEOF for its beginning, and
  times out. So does every later session, and any session with an empty file.
- **`ym_stream`** (`ymodem.py:420`). "Full-file CRC check on receipt": there is none, nor a count. In
  G mode a damaged block is answered by a NAK that nobody reads, and the file is closed without it.

More that the passing properties had to be stated around, or that showed on the way:

- Y-Modem's block 0 is a frame like any other amid the data. When an EOT was lost, the next block 0 is a
  duplicate to a file of a multiple of 256 blocks, the empty one among them, and the block expected to a
  file of one less: the next file's blocks go into this one. It takes a stream, or an early timer beside the
  lost EOT; `NumbersTell` in `FilesUnmixed` excepts these files.
- One CAN ends the X-Modem sender, where `exceptions.py` speaks of two.
- `retry_limit` is "How many consecutive NAKs / timeouts before giving up"; the branches for damaged
  frames (`xmodem.py:298-327`) count and never compare.
- ZFILE is to be repeated when ZRPOS does not come, but only in the first attempt
  (`zmodem.py:343`), which a spare ZRINIT that is still buffered uses up.
- With a `retry_limit` of 1 ("How many consecutive errors before giving up") no Z-Modem session of these two
  programs need get past its first file: the ZRINIT that `receive()` writes unasked, and that `_send_file` means to
  "just drain", uses up the only attempt (`zmodem.py:339`). Hence `RetryLimit > 1` in `FailuresHaveCause`.
- A bad digit among the last four of a hex header raises `ValueError` (`zmodem.py:516`), which
  the waits that tolerate a `ProtocolError` do not catch, that for ZFIN's answer among them.
- An offer that the end of a chunk cuts in two is not seen (`bbs.py:443`); `README.md` has transfers
  "detected automatically". `OfferTaken` excepts it.
- Text that follows a failed or short session in the same chunk is dropped (`bbs.py:435`); `TextInOrder`
  counts it as the session's.
- Ctrl+] while the BBS has left a telnet command unfinished ends the keyboard task and not the client
  (`bbs.py:394`); `QuitEnds` excepts it.
- "Accept one client, send file, exit": connections that arrive in one turn of the loop are all
  accepted before the first closes the server, and all served (`send.py:248`).
- With a rich before 14.1, which `pyproject.toml` allows, the second file of a batch fails in `yw-receive`
  and the second of two clients in `yw-send`, since each starts a display of its own;
  `CleanClientSucceeds` excepts it, and the file with nothing left to send of `zm_resume`.
- A file of `yw-send` that cannot be opened fails before the `try` (`send.py:182`), and its connection is left open.
  Python 3.12 waits for it at the end of `async with server` (`send.py:266`), so a single-shot server "exits" only if something
  closes it: the collection of its writer, or its client. `SingleShotReturns` excepts it.

## 5. Proofs

The eight proof modules are checked by TLAPS with no step left out and
from no assumption but each module's `ConstantsAssumption` (in `Framing` also `BatchesAssumption`) and what the table says. `ConstantsAssumption`
gives the types of the constants and what the code takes for granted: a number cycle longer than 1 and a positive
retry limit, in `SendServer` finitely many clients and at least one file, in `YModem` that an empty file
is not one that ends amid a block, in `BBSClient` that the scripts say which of their bytes are text
(`Beginnings`), in `Framing` a search of at least three bytes for a ZDLE (1024 in the code; a hex header has two before it). The bounds (faults, early timers, sessions, keys) are constants too, so what is
proved holds for any number of them.

| Theorem | Says | Assumes |
|---|---|---|
| `TypeCorrect` | `Spec => []TypeOK` (`XModem`) | nothing |
| `PrefixInvariant` | `Spec => []PrefixInv` | `NBlocks < NumMod` |
| `PrefixIsDelivered` | `Spec => []PrefixDelivered` | `NBlocks < NumMod` |
| `CalmInvariant` | `Spec => []CalmInv` | `Calm` |
| `NothingTruncated` | `Spec => []NoSilentTruncation` | `Calm` |
| `SuccessMeansDelivered` | `Spec => []SuccessIsMutual` | `Calm` |
| `PromiseKept` | `Spec => KeepsPromise` (it implements `FileTransfer`) | `Calm` |
| `AcksAreBounded` | `Spec => []StaleAcksBounded` | `FramesKept`, `MaxLate + 2 <= NumMod` |
| `PrefixOverWraps` | `Spec => []PrefixDelivered` | the same |
| `BatchTypes` | `Spec => []TypeOK` (`YModem`) | nothing |
| `ClosedFilesAreWhole` | `Spec => []AckedIsWhole` | nothing |
| `SenderLearns` | `Spec => []SenderKnows` (`YModem`) | nothing |
| `FilesKeptApart` | `Spec => []FilesUnmixed` | nothing |
| `SessionTypes` | `Spec => []TypeOK` (`ZModem`) | nothing |
| `SendKnows` | `Spec => []SenderKnows` (`ZModem`) | nothing |
| `FailuresHaveCause` | `Spec => []FailsForCause` | `RetryLimit > 1` |
| `DiskKeepsPromise` | `Spec => KeepsPromise` (`ZModem` implements `Downloads`) | `NamesDiffer`, `FilesSmall` |
| `ReportedIsWhole` | `Spec => [](\A f \in received : disk[Dest[f]] = FileBytes(f))` | the same |
| `TerminalIsRestored` | `Spec => []TerminalRestored` (`BBSClient`) | nothing |
| `TransferOwnsLine` | `Spec => SessionOwnsLine` | nothing |
| `NothingTwice` | `Spec => []InOrder` | nothing |
| `ClientTypes` | `Spec => []TypeOK` (`BBSClient`) | nothing |
| `TextIsShown` | `Spec => []TextInOrder` | nothing |
| `OfferIsTaken` | `Spec => []OfferTaken` | nothing |
| `TypesHold` | `Spec => []TypeOK` (`SendServer`) | nothing |
| `NobodyIsLeftBehind` | `Spec => []NobodyLeftBehind` | nothing |
| `DisplaysAreStopped` | `Spec => []DisplaysStopped` | nothing |
| `CleanClientsSucceed` | `Spec => []CleanClientSucceeds` | nothing |
| `TablesCompute` | for all data, `crc16 = Serial16` and `crc32 = Serial32` | nothing |
| `DamagedByteShows` | data that differ in one byte have different CRCs, of either width | nothing |
| `ReadersInBounds` | `Spec => []TypeOK` (`Framing`) | nothing |
| `CleanLineDelivers` | `Spec => []CleanDelivery` | nothing |
| `TablesAreRight` | `Spec => []CrcTablesAgree` | nothing |

`Calm` is `MaxLate = 0` and a forward line that only loses and damages; replies may be lost
or rewritten to anything, and the number of faults is any. It is what section 4 shows to be needed.
`FramesKept` is a forward line that loses or damages frames and rewrites control bytes, but does not make two tokens of one.

*The argument for prefixes.* `PrefixDelivered` is not inductive: it says nothing of what the
receiver takes next. `PrefixInv` adds that `expected_block` is the number of the first block it
lacks. A frame on the line has some index `i` in `1..NBlocks`; it is taken only when
`Number(i) = expected_block = Number(Len(buffer) + 1)`, and with all numbers different
(`NBlocks < NumMod`) that is `i = Len(buffer) + 1`. No assumption on the line or the timers is
needed, since nothing it does makes a frame whole that was not sent.

*The argument for calm lines.* In a longer file numbers repeat, so the invariant must say which
frame can be on the line at all. `StopAndWait` does: one token is under way, frame or reply; a
frame is the sender's current block, which is the one the receiver wants or the one it took
last; an ACK under way is for that block; EOT follows the last one. `CalmInv` joins it with
`PrefixInv` and with what remains when the receiver has stopped (the sender may go on for a
while, into a line that nobody reads). The step has one lemma for each action. The arithmetic it rests on,
that the receiver counts numbers as the sender counts blocks over any number of wraps
(`NextOfNumber`, `PrevOfNext`), is proved from uniqueness of remainders. `PromiseKept` maps
each step to a step of `FileTransfer` or a stutter, using `CalmInv` for the file being whole.

*The argument for early timers.* An ACK does not say what it acknowledges, so an answer that comes after its
timer is taken for the next block's, and `StopAndWait` is gone; what remains is counting (`AckInv`). One token is
under way, and one more for each early timer (`CountInv`); an ACK under way counts for the block to which it will
move the sender: `block + Acks(rev) <= Len(buffer) + 1 + late`. A retransmission after silence adds to
neither side; one before its time adds one to both. Frames on the line are of the blocks up to the
sender's, in order and by steps of one at most (`Climbs`), so with so few of them the first is less than a cycle
from the block the receiver wants, and equal numbers are equal blocks: with that the prefix goes past wraps, and a
duplicate is what `Number` says it is. `ModeInv` keeps a sender with the wrong check, whose frames are read short, in block 1.
`FramesKept` is needed: what is left of a frame in two pieces can be answered twice, and no timer was early.

*The argument for batches with timers that wait.* `CalmInv` of `YModemProofs` is what stop-and-wait is to
`XModem`, over the ends of files. `LineInv` says what can be on its way to the receiver for each of its places (one
block 0, one block, or EOTs, some of which the line made into a byte of noise); `Ack0Inv`, `CInv`,
`BlockInv`, `EotInv` say, for each wait of the sender, what an ACK or a 'C' under way is the answer to. An ACK
on the line is all the sender goes by, so every one of them must be the answer to what it waits for;
`AckEnds` (after an ACK only one 'C', at the end of the queue) is what makes the waits that skip bytes
leave nothing behind. Damage to a reply can only take an ACK away (`Thinner`). What the receiver has is in
`RecvInv`: the closed files are the first ones, whole, and it collects the next.

*The argument for any batch.* With early timers or in a stream an answer says nothing, so `GapInv` uses none.
The sender writes a chain (`ChainInv`): each frame is the one before once more or its successor in the batch,
over the ends of files too, and only the first can be spoilt, since the line spoils the head of its queue.
So between what the receiver has of a file and the next thing it reads (`Before`), or what the sender wrote last if
there is nothing on the line (`After`), at most `faults` frames are missing. A frame that is taken for
another is one whose number differs by a cycle, which is more than the line has taken; block 0 is a special
frame with the number 0, and an EOT that was lost leaves it amid the data: `NumbersTell` is what keeps it from being
taken for a block. `OrderInv` puts the files in order: each block 0 on the line is that of a later file.

*The argument for Z-Modem's sessions.* `LineInv` of `ZModemProofs` says in which order things can be on the
line: nothing of a file after its ZEOF, no ZRPOS after another or after a confirmation (`FwdInv`, `RevInv`), and
where the ends can be then (`PhaseInv`). The headers carry no name of a file; `FileInv` says that the
last ZFILE on the line, or the file the receiver is in, is the sender's. With that `ConfirmInv` can say
that a ZACK or ZRINIT under way while the sender waits after ZEOF confirms *this* file, and not the one before,
each of which has two confirmations. `KnownInv` is what the sender has learnt by then.

*The argument for what fails a session.* Where nothing disturbs a session its ends take turns, but for the beginning,
where both write unasked. `CauseInv` lists what can then be on the line in both directions, place by place
(`Opening`, `Offering`, `Streaming`, `Ending`, and `Stuck`): the one ZRINIT too many is still unread, or has cost an attempt,
which is why two are needed. The line is silent only in `Stuck`, where the receiver is at a file of which nothing
was left, or when it has returned (`CourseQuiet`), so a timer that waits for silence fails no other session.
Sizes, names, the disk and the wrap of offsets are any: what is asked for is at most what is there (`OffsetLess`).

*The argument for the disk.* A step of the receiver that writes must be `Downloads`'s `Grow`. `DataInv`: the
position that is asked for is the length of the file, and the subpackets on the line go on from it in one
piece to the end (`Continues`), also after the line has spoilt the first or a header among them, and whatever cut
the session before. `DiskInv` is that every file is the beginning of the one sent, over all sessions. Both
hypotheses are needed and neither is the code's: with two files of one name the second is appended to
the first (`zmodem.py:281`), and past `OffsetMod`, 2^32, `_encode_offset` asks for another place
(`zmodem.py:138`). `ReportedIsWhole` needs nothing more of the code: it is an invariant of `Downloads`, carried over by the mapping.

*The argument for the BBS client.* `TerminalInv` joins the mode with the phase of the reader and with
the saved mode: it is there exactly while the terminal is raw, so that no `_set_raw` saves the raw mode and
no `_restore_terminal` restores twice. `FlagInv` is that `_in_transfer` is up exactly in a session (or,
after a Ctrl+C amid one, when the client is closed), which makes
`TransferOwnsLine` a matter of looking at the three writers. `OrderInv` says that `shown`, `display` and
the window, one after the other, are places in ascending order, none beyond `pos`, and that the window is empty
inside a command. That last part is needed: IAC IAC puts its byte into `display`, which would be before
older bytes of the window if any were left. A byte through the window moves its head to the end of
`display`, which changes nothing in the three joined (`ThroughWindow`); an offer cuts off the end
(`PrefixInOrder`).

*The argument for its text.* That no byte is lost needs the places too. `PlaceInv`: the reader's next place
is one where a byte of text or a command begins (`Begins`), also when a session gives up somewhere. `WindowInv`:
the window is the last bytes read. `ShownInv`: `shown`, `display` and window have the bytes of text that were
read and were no session's, as a set; with `OrderInv` that is `TextInOrder`. `PartInv` says where an offer
of which the reader has a part is: in the window, unless a chunk cut it or a session took it.
So the fourth byte meets the first three.

*The argument for the server.* `PendingInv`: where a single-shot server has closed itself (and nobody
pressed Ctrl+C) no connection lacks its task, because `Connected` makes the tasks of all accepted ones
in the turn that closes it; so the handlers that `Poll` gives to `gather` are all there will be, and
none is pending after `Gathered`, and `Return` cancels none. `DisplayInv` adds to `DisplaysStopped` that a client which is not accepted has no
handler. `CleanInv`, for behaviours without a fault or a Ctrl+C so far, relates a handler to its client: one
that has stopped sending left a client with every file, or met one that had failed, or was refused its
display; one that is done closed after its client. With `PendingInv` (nobody is cancelled) this
leaves a client two things to fail by, and both last: a file of which nothing is left (`NothingLeftLasts`), and
`rich` (`RefusalsLast`).

*Induction over data.* The library's theorems of induction take a formula as a parameter, which the provers
installed here cannot instantiate. That the natural numbers have least elements is a fact about *sets*
(`WFMin`), and from it comes an induction over sets of numbers (`SetInduction`, `StrongInduction`): a statement about every
length is that the set of the lengths for which it holds is `Nat`. With it recursive functions are built from
their finite beginnings, which agree: `Xor`, the loops of the CRCs (`Loop`) and `FlattenSeq` (in the community modules a recursive function,
too) have the equations they are written with, and what they compute for data of any length follows.

*The argument for the CRCs.* `Xor` is shown to be commutative and associative, to undo itself, and to work
on two parts of a number apart (`SplitsAt`). A turn of the polynomial is then linear, so that the eight turns of a
byte are those of what a byte and the register have in common, which is the entry of the table, combined with what
only moves (`Turn16Byte16`, `Turn32Byte32`); one byte by the table is its eight bits, and by induction so are the data. A
turn can also be undone, because the bit that was shifted out shows in the last bit of 0x1021 and the first of
0xEDB88320: different registers stay different, and different bytes make equal ones different. So two
data that differ in one byte part there and never meet again (`DamagedByteShows`).

*The argument for the readers.* `CleanDelivery` says what has been returned; `Clean` says what is going to be. There is a
plan `w` of what the reader wants after each item, as `BatchesAssumption` has it, and the items that are still to come, `todo`: `delivered` and
`todo` are the batch, the wire has the encodings of `todo`, and where the reader is amid an item
what it has collected and what is on the wire make up that item: for each mode the rest of the digits
(`Spelling`), of the escaped bytes (`UnderWay`), with the escape that has been read and not its byte, and the CRC that
is compared at the end. The bytes of escaped data need one fact: no byte that must be escaped turns into a terminator
(`ToggledNoTerm`), so ZDLE and a terminator is the end and nothing else; and `zmodem.py`'s digits give back the
bytes they were made of (`PairsBack`). Each reader has a lemma, a byte at a time (`CleanScan` to `CleanCheck`);
the reader that awaits CR and LF finds both (`CleanTrail`), unless a timer was early, and that counts as a fault. When
nothing is left of the batch, the wire is empty and a time-out is the only end. `TypeInv` needs none of that, and holds with faults.

*Only model-checked*: the liveness properties (`Completes`, `Terminates`, `HangupEnds`, `QuitEnds`,
`ClientsEnd`, `SingleShotReturns`: out of the prover's reach, as everything under fairness), and `TokenLine` of
`Framing`. That one is not so for all data: a byte that is *lost*, or an escape that becomes another byte, leaves a subpacket of
another length, and among all of these some have the CRC of the one that was sent. What
holds for all data is `DamagedByteShows`, for a byte that is changed and leaves the rest in place; the run
shows that in its batches the other faults are seen too.

## 6. What is not modelled

- **Codings of block 0**, and the checksum of X-Modem: the checks of `XModem` and `YModem` are ideal.
  `Offset` keeps the wrap at 32 bits as a parameter.
- **ZCRCW and ZCRCQ amid the data** (zmodem.py:459): this sender never writes them.
- **The contents of padding**: X-Modem strips every file of the SUBs it ends in (`xmodem.py:357`), which `Commit` leaves out;
  `YModem` keeps whether a file was cut at its size or stripped. What stripping does to data that ends in SUBs is in neither.
- **A receiver that dies after its ACK of EOT** and before what it collected is written (`xmodem.py:270` and 358,
  `ymodem.py:421` and 481): in X- and Y-Modem a process that stops is silence. `ZModem` has that window (`DieBeforeClose`).
- **Short reads of Y-Modem's receiver**, which has no test for them (`ymodem.py:430`).
- **Files of one name, and offsets beyond 4 GiB**: the models have them as parameters, and the
  configurations keep clear of them. The code makes no attempt at either, and no document speaks of them.
- **The in-memory transport** (a test double) and `purge()`, which nothing calls.
- **Progress events**, but for those that start a display: no control of the engines depends on them.
- **What a BBS sends after an offer** that is not for the session: the scripts hold no commands there, and the
  session has no contents. IAC bytes inside a session go to the engine as they are (`bbs.py:378`).
- **Wrappers, panels, argument parsing**: they print, or call one function.

## 7. Plan

Done: (1) `XModem`, `FileTransfer` and their proofs; (2) `ZModem`, `Downloads`; (3) `YModem`;
(4) `BBSClient` and its proofs; (5) `Framing`; (6) `SendServer` and its proofs; (7) in `ZModem`
a receiver that dies between a ZACK and the closing of the file, in `XModem` frames in two pieces;
(8) theorems for `ZModem` and `YModem`, for the text of `BBSClient`, for early timers in `XModem`
and for what fails a session of `ZModem`;
(9) `Crc`, and theorems for the CRCs and the readers of `Framing`.

Next, in this order:

10. A theorem in place of `TokenLine` for a byte that is changed and is no part of an escape.
11. ZCRCW and ZCRCQ amid the data, from programs of other makes.
