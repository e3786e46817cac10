# Verification of the MSTD bootloader and its configuration tool

MSTD is a mass storage device (an ESP32 and an FPGA) for two home computers whose bootloader
receives firmware and configurations by TFTP over WiFi, keeps the configurations in a log
in flash, and shows its state on a small OLED display. `mstd.cfg.py` is the program at the
other end: it compiles configurations and uploads or downloads them. This directory holds
TLA+ modules of that system, TLC configurations that model-check them on small instances,
and theorems that TLAPS proves for all sizes. File names below are relative to
`src/soft/bootloader/main/` unless they start with `cfg_compiler/`, `test-hw/` or `HW/`.

## The system

| component | state it keeps | operations | what is hard |
|---|---|---|---|
| configuration log (`setup_data.cpp`) | the flash partition; `cfg_full`, `config`, `cfg_size`, `next_cfg_shift` in RAM | `load_config` (scan at boot), `save_config_image`, `save_config_full` | power loss at every word, torn words, flash errors, a log that is exactly full |
| TFTP server (`tftp/src/tftp_server.cpp`) | `m_buffer`, `m_client`, the block number, the retry count | `start`, `run`, `parse_rq`, `process_write`, `process_read` | lost and repeated datagrams, one socket for all clients, timeouts of 30 s against 5 s |
| OTA handlers (`tftp/src/tftp_ota_server.cpp`) | `job`, `ota_cfg_buffer`, `cur_ptr` | `on_write`, `on_read`, `on_write_data`, `on_read_data`, `on_close` | transfers that stop half way, a full buffer, flash and `esp_ota` errors, reboot after a firmware upload |
| TFTP client (`TFTPClient` in `cfg_compiler/mstd.cfg.py`) | the block it waits for, its retries, what it has read | `send`, `read` | retries against an answer that is only late |
| configuration compiler (`ConfigData`, `EnumDef`, same file) | fields with or without a value | load binary or text, override, save binary or text | a CRC that must be computed last, an enum whose names overlap |
| display (`sd1306.cpp`) | the panel and its one address; `pi_row`, `pi_data`, `pi_count` | `init`, `draw_text`, `clr_screen`, `start_pi`, `inc_pi` | two tasks draw without a lock; a transfer that sets the address may fail; the indicator at the end of a row, a pass or the panel |
| WiFi station (`wifi_module.cpp`) | `s_retry_num` | `wifi_init`; handlers of start, disconnect and got-IP events | runs on the event loop task, beside the main task |
| main and board set-up (`main.cpp`, `hardware.cpp`) | none | the steps of the boot, the server loop, `reboot` | each step may fail; reset in the middle of everything |
| FPGA loader of the hardware test (`load_fpga` in `test-hw/main/hardware.cpp`) | the pins CRESET, SS and CDONE, the place in the image | reset, dummy byte, image in pieces of 64 bytes, clocks until CDONE, last clocks | SS must be right for each transfer; SPI errors; an FPGA that holds half an image |
| bit packer (`HW/bitpk.py`), hardware design | see "Not modelled" | | |

How they interact: `app_main` calls `load_config`, starts WiFi and runs the server for ever.
A request becomes a `job`; every block goes through `on_write_data` or `on_read_data`, which
also drives the progress indicator (`inc_cur_ptr` calls `inc_pi`); `on_close` calls
`save_config_image` or `save_config_full`, or verifies firmware and reboots. The event loop
task draws the station's address on the same display. `app_main` of `test-hw/` calls
`load_fpga` and nothing else of the system. `mstd.cfg.py` prepares an image, sends
it, and what it computed as CRC and size is what `save_config_image` and the next boot check.

What makes each part correct:

* log: as long as boots find where it ends, saves never program over data, a good record
  survives everything but an erase and every boot finds it; the scan ends on any contents; what is handed out has a right CRC.
* transfer: what arrives is a prefix, what is complete is whole, files of runs one after
  another never mix, losses are survived, every run ends and the server comes back.
* display: the indicator shows what was ticked and keeps pace; text stays where it belongs.
* FPGA loader: its message is true, every byte is taken once and in order, every load ends.
* compiler: what it saves is accepted by the board and by itself; a dump reads back.

## Modules

| module | models | state and actions |
|---|---|---|
| `ConfigStore` | the log | RAM variables under their own names; `flash` and `cfgFull` are arrays of words. One action per turn of the scan's loop (`ScanFree`, `ScanAborted`, `ScanOutOfPartition`, `ScanRecord`, `ScanEnd`), per call of a save (`SaveConfigImage`, `SaveConfigFull`), per erase and per word programmed (`Erase`, `Program`, and their failures), and `Crash` at any point |
| `TftpNet` | UDP between tool and board | a bounded mailbox to the server's one socket, one queue to each client; any datagram may be lost |
| `TftpClient` | `TFTPClient.send` and `.read` | one record of state per run; an action per kind of answer, and `Timeout` |
| `TftpServer` | `TFTP` and `TftpOtaServer` | `spc` is the place the task is at: `start`, `stopped` (the endless loop behind a start that failed), `run`, `write` (process_write), `ack` (wait_for_ack), `parse` (parse_rq again with what ended an upload), `hung`, `reboot`; an action per datagram and place, `StartServer`, and `PowerCycle` at any point. `Outcome` lets any system call of a step fail, `MaxFaults` times |
| `TftpSystem` | server, clients and network together, their timing and fairness | `StartRun` begins a run at any time; if `Sequential`, at any time after the last one is over, whether the server is back from it or not (`hurried`). `waited` counts each client's timeouts since the server last began to wait; `LateServer`, the server's own timeout, comes only when each client that waits has had `Patience` of them |
| `Oled` | the display driver and the panel's addressing | a call is a queue of I2C transfers, each of them one `Transfer` or, lost, one `TransferFails`; the bus driver makes a transfer atomic, not a call. `OledInit` finds a panel (`dev`) or none |
| `Board` | main task and event loop task, both drawing | `HwInit`, `WifiInit`, `DrawAp` and `DrawWaiting` are the boot; `Block`, `BlockFails`, `Tick` and `EndTransfer` the transfer's progress; `StaStart`, `Disconnected` and `GotIp` the event handlers; `Reset` the next boot, over a panel that keeps what it shows |
| `FpgaLoader` | `load_fpga` and the FPGA at the other end of the wires | an action per step of the code, `SendFails` with the transfer that `ERROR_CHECK` makes a second time; the FPGA's registers are external, from `pins.txt` |
| `ConfigTool` | `ConfigData` and `EnumDef` over any number of runs of `main` | `LoadBin`, `LoadText`, `Override`, `SaveBin`, `SaveText` |
| `ConfigRegister` | what the log promises: a register that survives power losses | `saved`, `pending`, and `tried`, what was cut short since; `Boot` hands out one of `saved` and `tried` |
| `ConfigRefinement` | the log implements the register | the refinement mapping (`upBar`, `savedBar`, ...), `ImplementsRegister` |
| `FileService` | what server and tool promise together to a user who moves one file after another | `run` and `taken` of each run, the upload that is `open` as a pair of the run and the place it goes to, what each place has `held`, `calm`, and whether the last run is `rushed`; a reader takes block after block, an upload is opened, finished by its sender and closed by the server; a rushed run may fail, or take over (`TakeOver`) the upload that is open; `Disturb` is anything that goes wrong |
| `TftpRefinement` | the transfer implements the service | the refinement mapping (`openBar`, `calmBar`, `storableBar`, ...), `ImplementsService` |
| `MCConfigStore`, `MCTftp`, `MCBoard`, `MCConfigTool` | values of the constants, constraints | |
| `ConfigStore_proofs`, `ConfigRefinement_proofs`, `Tftp_proofs`, `TftpTransfers_proofs`, `TftpRefinement_proofs`, `Board_proofs`, `ConfigTool_proofs`, `FpgaLoader_proofs` | theorems | |

`PROJECT.json` maps every definition to the lines it models. Definitions named `X_Something`
before a definition `X` are plausible bugs of `X`, one per checked property; with the bug in
the place of `X` the property's run must fail.

### What is abstracted

* `ConfigStore` counts in 32-bit words (sizes that are not multiples of four are refused).
  Word values are abstract: the constant `SizeField` says what a word means as `C.size`,
  `Mix` what programming over a word leaves (bits only clear), `Junk` what a word may hold
  after its programming was interrupted. The CRC is ideal: exactly the members of `Records`
  check. Words are programmed in rising order; the erase of the one sector is atomic. Reading
  `C.size` of a record that starts in the partition's last word reads behind `cfg_full`, so
  that word is any value.
* `TftpNet` keeps the order of datagrams on each way and duplicates none itself; duplicates
  come from retries. `MailBox` bounds what waits at the server, and what does not fit is lost.
* `on_close` stores what is `Accepted`. A partition image is taken as it is. Firmware is taken
  if and only if it is one client's whole file: `esp_ota_end` verifies it with a digest that
  is taken for perfect. A configuration needs a partition that was read (`cfg_pat`), has to
  be as long as its header, the file's first unit, says, and to have its CRC, which is taken
  for perfect too; but a configuration whose CRC is -1 (`AsksCrc`) gets one filled in
  (`setup_data.cpp:122`), and then any data of the right length behind its header pass.
  `sendCfg`'s configuration is one of these, and fills the buffer.
* A block is two units instead of 512 bytes. A partition image is a whole number of blocks,
  as 4096 is, and so ends with an empty block; firmware ends with a short one; `sendLong`'s
  configuration is longer than the buffer.
* Which call of a step fails is not told apart where the code does the same afterwards: in
  `TftpServer` a failed `esp_ota_begin` refuses the request, a failed write leaves a gap or
  not, a failed end or CRC stores nothing, and a failed switch of the boot partition may
  restart the board all the same. A `sendto` that fails ends a download if it sends a block
  (`SendBlock`); that of an ACK or ERROR is not looked at by the code, and is a loss. In
  `Board` the same failures are `Refuse` and `BlockFails` as far as they are drawn.
* `Oled` knows of a column only whether it is blank, part of a text of one of three kinds,
  or holds the lowest n pixels of the indicator.
* `ConfigTool` keeps one enum field behind the header; the CRC is what it covers. Names that
  are ambiguous without their prefix (`Ambiguous`) make a dump unreadable; the real header
  has none, and the runs neither.
* `FpgaLoader` counts bytes and clocks: a byte the FPGA does not take, because of SS or of a
  missing dummy byte, shows as a count that differs. `ERROR_CHECK` evaluates its argument
  again to print it, so a transfer that fails is made twice, and `SendFails` lets none, one or
  both reach the FPGA. `Needs` is how many clocks CDONE takes.

## Runs

Passing runs:

| run | instance and bounds | shows |
|---|---|---|
| `ConfigLog` | 7 words, records of 2 and 3 words and the one-word record, two partition images, torn words with sizes 0, 1 and 4, flash errors. Seven words leave room for three records, a gap at the end, and an exact fill. The constraint `RegularSaves` stops where a record is programmed into a log that is not regular (below); what then happens is followed by `ConfigExactFill`, `ConfigTornSize`, `MCConfigErase.cfg` and `MCConfigOverFull.cfg` | `TypeOK`, `TailFree`, `NewestIntact`, `ActiveIsRecord`, `BootFindsNewest`; `ScanTerminates`; `ImplementsRegister`, the log implements `ConfigRegister` |
| `TftpSequential` | two runs of any of seven kinds, one after the other, the second at any time after the first is over, runs stopped at any point, three retries of the client, two of its timeouts in one of the server's (so that a client may still wait when the server gives up); two troubles, each of them a loss, an early timeout, a failing system call or a power failure (one of the last two, one early timeout at most) | `TypeOK`, `UploadIsPrefix`, `DownloadIsPrefix`, `StoredIsOneFile`, `NoSpuriousFailure`, `UploadSurvivesLoss`, `CompleteIsWhole`; `ImplementsService`, server and tool implement `FileService` |
| `TftpReturns` | the same bounds with uploads of a partition image and of firmware, one that is refused and a download, which between them visit every place of the server, the reboot behind a firmware included | `EveryRunEnds`, `ServerReturns` |
| `TftpOverlap` | three runs, two uploads and a download, that overlap freely, with one failing call, reset or early timeout | `DownloadIsPrefix`; `EveryRunEnds` |
| `Board` | the panel's eight rows with their real roles, two columns of two pixels (8 ticks instead of 2048), a panel or none, one transfer, one address, one reconnect, any number of failing I2C transfers while the first screen is drawn and in downloads. `QuietStation` lets the station start and disconnect only while nothing is drawn, for these two steps touch nothing of the display, a file be refused only before the transfer, and a block fail only while nothing else has drawn over the indicator; `OneBoot` follows one boot and not those in which the event task drew over the access point's rows while they were drawn | `TypeOK`, `BarShowsTicks`, `TicksKeepPace`, `StationGivesUpLate`, `ApStays` |
| `ConfigTool` | the enum `Options1` as it is, with its mask; four option bytes, two of them with bits that have no name; nine foreign images, good, short, cut, changed, of another version, asking for a CRC. No bound on runs | `TypeOK`, `SafeSaveAccepted`, `DumpReadsBack` |
| `FpgaLoader` | images of one to five bytes in transfers of two, so that the last transfer is full or short; CDONE at once, after 1, 8 or 60 clocks or never; SPI errors at any transfer, with the second one that reports them, resets at any step, any number of loads | `TypeOK`, `ShownIsTrue`, `SentIsTaken`; `LoaderEnds` |

A log is *regular* as long as, since the last erase, no partition image was written, no erase
failed and every boot found where the log ends. A boot misses the end if records fill the
partition exactly, or if a size word that a power loss has torn points past the partition
(`setup_data.cpp:70-73`). In other logs `next_cfg_shift` is not the start of free space, and
the next save destroys records: four of the configurations below show how, one for each way in.

The scaled panel of `Board` keeps each boundary: the end of a pass over a row (one column
earlier in the first pass), of the row, and of the panel. `Word32` makes the products of
`inc_cur_ptr` wrap in the middle of a firmware upload, as 2^32 does at 2 MB of 4 MB.

Deadlock is checked except in the runs about the transfer, whose system rests when all the
runs it may start (`MaxRuns`) are over.

### Where the code disagrees with its documentation

Each of these runs has one property that states the documentation, and TLC shows a behaviour
of the code that breaks it.

| run | property | what happens |
|---|---|---|
| `ConfigExactFill` | `SavedIsWhole` | records fill the partition exactly; at the next boot the scan's loop runs out without setting `next_cfg_shift` (`setup_data.cpp:53`), which stays 0, and the next save programs over the first record and returns NULL |
| `ConfigTornSize` | `NewestSurvives` | a torn size word points past the partition; the boot's scan returns early with `next_cfg_shift` still 0 (`setup_data.cpp:73`), and the next save programs over the newest record without an erase |
| `TftpAborted` | `PartitionIsWhole` | `on_close` runs after any end of an upload, and stores a partition image of which only a part came |
| `TftpHang` | `ServerReturns` | a late ACK reaches `process_write`, whose result 1 makes `parse_rq` loop on an unknown command for ever |
| `BoardFull` | `FullBarKeepsText` | the 2048th tick clears the screen, the access point's rows included (`sd1306.cpp:356, 384`) |

Eight more are stated and have a configuration each, to be run by hand (the same two hazards of
the log by other ways, and disagreements whose cause is plain from the line); they are not
among the runs of `PROJECT.json`. TLC finds each property violated.

| module and configuration | property | what happens |
|---|---|---|
| `MCConfigStore`, `MCConfigErase.cfg` | `NewestSurvives` | `next_cfg_shift` is set to 0 before the erase and stays so when it fails (`setup_data.cpp:126`); the next save programs over the newest record |
| `MCConfigStore`, `MCConfigOverFull.cfg` | `SavedIsWhole` | `save_config_full` leaves `next_cfg_shift` 0 over a partition it has just filled (`setup_data.cpp:139`); a save before the next boot programs over the image and returns NULL |
| `MCConfigStore`, `MCConfigSmall.cfg` | `ActiveIsBigEnough` | `sizeof(config)` is that of a pointer (`setup_data.cpp:77`): a one-word record of zeroes becomes the configuration |
| `MCTftp`, `MCTftpOneLoss.cfg` | `DownloadSurvivesLoss` | a reader whose block was lost repeats its request, and `wait_for_ack` answers whatever is no ACK with an ERROR (`tftp_server.cpp:211`), which ends the download |
| `MCTftp`, `MCTftpRetry.cfg` | `RetrySendsBlock` | the ERROR sent at a timeout of the server is built in `m_buffer` over the block to be retried (`tftp_server.cpp:215`), so what is retried is that ERROR |
| `MCTftp`, `MCTftpHaste.cfg` | `RepeatIsSameClient` | a write request that follows an upload stopped before its first block is acknowledged as that upload's repeated request (`tftp_server.cpp:96`), and its file goes to the other's place |
| `MCConfigTool`, `MCConfigUnsafe.cfg` | `UnsafeSaveAccepted` | with `--unsafe-crc` a CRC that was loaded is kept over changed fields (`mstd.cfg.py:286`), and the board refuses the image |
| `FpgaLoader`, `MCFpgaClocks.cfg` | `DoneIsAwaited` | the CDONE check is the wrong way round (`test-hw/main/hardware.cpp:111`): it reports an error as long as the count is *below* its limit, so an FPGA that does not raise CDONE with its last byte is an error although `pins.txt:74` allows it 100 clocks |

`ServerReturns` holds where runs do not overlap (`TftpReturns`). `ShownIsTrue` holds with the
inverted check, for it speaks of what is shown, and not of what a load should come to. It
leaves one message open: the error of the last transfer, which `ERROR_CHECK` has repeated,
may stand over an FPGA that runs.

## Fairness

* `ConfigStore`: weak fairness of `Scan`. The scan is a loop of `load_config`, and nothing
  else runs on that task; nothing forces saves, erases or power losses.
* `TftpSystem`: weak fairness of the server's steps, of its timeout (`SO_RCVTIMEO`, 30 s), of
  each client's steps and of its timeout (`SOCK_TOUT`, 5 s). Both programs block only in a
  receive with a timeout. Nothing forces a user to start or stop a run, the network to
  lose anything or the power to fail. The server's timeout falls only after each client that still
  waits has had `Patience` timeouts since the server last began to wait, which at 5 s against
  30 s is as many as fit into it. With ten retries a client may be waiting still when the
  server gives up, and `Patience` below `MaxRetry` in `TftpSequential` keeps that case.
  `ServerReturns` allows `stopped`, where `app_main` stays after a start that failed.
* `FpgaLoader`: weak fairness of the loader's own steps; nothing else runs on that task, and
  nothing forces an error or a reset.
* `ConfigRegister`, `Board` and `ConfigTool` claim no liveness.

## Proofs

Each theorem holds for every value of the constants that meets the named assumption of its
module. The assumptions are evaluated by TLC in the runs.

### The log

From the five assumptions of `ConfigStore`: sizes are positive and ordered; the erased word
has no size and takes any value that is programmed over it; records are as long as their size
field says and do not begin with the erased word; images are as long as the partition.

* `TypeCorrect`, `Spec => []TypeOK`. `TypeOK` is inductive as it stands since it contains
  what keeps each access inside the partition: while a record is programmed,
  `next + Words(img) <= PartWords`. `NoRoom` establishes it.
* `TailIsFree`, `Spec => []TailFree`: in a regular log a save never programs over data.
  `TailFree` alone is not inductive. `TailInv` adds that the scan's copy is that of flash
  while it runs (it sets `next` from the copy), that `next` is still the start of free space
  while a partition image waits for its erase (which may fail and return), and that a
  partition image is only programmed into a log that is not regular.
* `ActiveCorrect`, `Spec => []ActiveIsRecord`, with the addition that RAM starts without an
  active configuration.
* `NewestStays`, `Spec => []NewestIntact`, and `BootFinds`, `Spec => BootFindsNewest`. Both speak
  of a log that is still regular; `NewestSurvives` says the first without it, and is false. Both
  need to know where the scan comes by. A `Chain` is a set of places which holds 0, is closed
  under a turn of the scan and does not go beyond its end; it is `Solid` if no turn reads a
  word from the end on. `ChainInv` says that there is a solid chain to the newest record and
  one to `next`, that `next` is behind the newest record, that what is already programmed of
  an image is what was to be programmed, and that a scan is on a chain to the newest record
  until it has taken it. Saves write behind every chain (`WriteFrame`), a saved record makes
  a chain one turn longer (`ChainStep`), and a scan that finds free space has walked a solid
  chain to it (`ErasedEnd`): an aborted turn that steps over erased space never ends at its
  start. `EndsBehind` says that the scan cannot end before the newest record.
* `LogIsRegister`, `Spec => ImplementsRegister`: every step of the log is a step of the
  register or a stutter. Of a log that is no longer regular the register promises only that
  a boot hands out some whole record or none (`reliable`). The proof needs to know
  which record a place behind the newest may hold, so the invariant marks every record on the chain: behind the newest only those whose save was
  cut short since it (`tried`) check. `CrcAssumption` is what makes a torn or foreign word no
  record's CRC; without it a half programmed record could be handed out.

### The transfer

* `TransferTypes`, `Spec => []TypeOK`, also for runs that overlap. It rests on the types of
  all datagrams on their way, and on the fact that no block is longer than `Blk`.
* `UploadsInOrder`, `UploadsWhole`, `DownloadsInOrder` and `StoredWhole`, under `Sequential`,
  where a user starts a run when the last is over, however soon: the server may still be in
  the last one's transfer, with datagrams of it in the mailbox. None of the four is
  inductive. `TransfersInv` says that the server is engaged with one client (`Engaged`):
  datagrams of it come first in the mailbox, and behind them nothing but requests of runs
  begun since (`Mail`). If it is a sender (`Sending`), its requests come before its data,
  ACKs under way are of blocks below the server's, `pktN <= block <= pktN + 1`, so that a
  block the server takes as new is the one it waits for, and `got` is the file's first
  `block - 1` blocks. If it is a reader (`Reading`), the server's block is of what it asked
  for, or has an ERROR in its place once another client's request has come; what a reader
  has collected is all before the block it waits for. A late datagram of an earlier run is
  what each of these parts has to exclude, and unless the run is `hurried` no other client
  has anything to do with the server at all (`Alone`). A new run's write request makes its client the sender
  before the first block, and ends the transfer after it.
* `StoredWhole`, `Spec => []StoredIsOneFile` under `Sequential`, says that what is stored as a
  configuration or as firmware is one whole file. A CRC or digest that is tested is taken for
  perfect, so the files that matter are the configurations that ask for their CRC: they are
  checked for their header and their length, and only the protocol keeps a block of another
  file, or one twice, out of them. The proof takes from `TransfersInv` that what is closed
  is a prefix of one file (`ClosedOne`), and one of its length is all of it. With runs that
  overlap the statement is false for such a configuration.
* `OverlappingDownloads`: `DownloadIsPrefix` without `Sequential`, if all readers ask for the
  same file. The one socket mixes the datagrams of all runs: an ACK of one reader releases a
  block to it that another waits for, and `m_client` becomes whoever was heard last. What
  holds all the same (`OneFile`) is that a download is only started by a reader's request,
  also where `parse_rq` goes on with the datagram that broke an upload, and that the server's
  block is always one of that file with its right number, so that whoever gets it takes
  it only at its place. With readers of different files the property is false.
* `OnlyRefusedFails`, under `Sequential`: without losses, failing calls and early timeouts a
  run that was not hurried fails only on a name that is refused. A hurried one may fail: its
  request can meet a server that waits for an ACK of the last (`tftp_server.cpp:211`).
  `UploadsSurvive`, under `Sequential`: such an upload survives losses, too, as long as they are
  fewer than its retries and fewer than `Patience`. The second bound is real: after six
  losses in a row the server times out, stores or drops what it has, and the client's next
  block finds nobody that waits for it. Downloads do not survive one loss (`MCTftpOneLoss.cfg`).
  `RetriesInv` extends `TransfersInv`. While a run goes on that was not hurried, exactly one
  datagram is under way between its client and the server, and it is the one the other waits
  for (`Together`): for a sender the server is at its block or one behind it, for a reader at
  the block it waits for. When nothing is under way a datagram was lost since the last retry,
  so `retry < drops`, and `retry <= drops` otherwise; and while the server is in
  `process_write`, `waited <= retry`. So a client that gives up has seen `MaxRetry` losses, and
  a server that gives up on it `Patience` of them (`OnTime`). `ServerBound` keeps the server
  reachable once it runs.
* `TransfersAreService`, `Spec => ImplementsService` under `Sequential`: every step of server,
  network and tool is a step of `FileService` or a stutter. An upload is open while the server
  is in `process_write` (`openBar`, with the `job` as its place), and calm means no loss,
  failing call, reset or early timeout (`calmBar`). The service says what users see: a
  reader's run ends well only with the whole file, blocks are taken in order; nothing is
  stored but what the open upload brought, whole (of a partition image perhaps a part); and an
  upload that was not rushed and has ended well is stored when it closes, unless something
  went wrong. The last is not obvious because the tool reports success as soon as the last
  block is *sent*, when the server has yet to take it in. A rushed run may fail with nothing
  lost, or take the last upload over, so that its file goes to the other's place: that is
  what is left of what a user can rely on, and `MCTftpHaste.cfg` shows that it happens. The proof
  adds `ServiceInv` to `RetriesInv`: a reader is answered, and an unhurried sender too, with
  nothing but errors if its name is refused (`Refusals`); the server receives nothing without
  a job, and from an unhurried upload only under its own job (`Granted`); and of a calm
  unhurried run that ended well either the last block is still in the mailbox, with the
  server waiting for it, or the server is done with it (`Settled`). `ClosedStored` and
  `CloseMaps` map what ends an upload to the service's close, `RepeatMaps` a repeated write
  request to a stutter or a takeover.

Each of these invariants was model-checked on the instance of `TftpSequential` before it was
proved.

### The display and the station

* `GivesUpLate`, `Spec => []StationGivesUpLate`: the count of reconnects is never above that
  of disconnects since the last address.
* `ApRowsStay`, `Spec => ApStays`. The access point's rows are safe while the panel's page
  and the pages of both tasks' queues lie below them. A transfer keeps this, failed or not,
  for no queue holds a page inside them. The indicator leaves its rows only when it is full:
  `ticks = ((piRow - PiStart) * Bits + piData - 1) * Cols + piCount` ties the place in the
  indicator to the number of ticks.
* `BarIsTicks`, `Spec => []BarShowsTicks`. The invariant `Indicator` says what is on the
  screen while only the indicator draws: the call that starts it is under way and has blanked
  the rows it has passed (`Wiping`), or the screen shows every column of the passes so far
  (`Drawn`), or the last of them is still queued, with or without its row's address
  (`Drawing`). `BarCell` is what a column shows, with the one that the first pass leaves out
  and the second, too. That this is as many pixels as ticks is counting: `Number` numbers the
  pixels of the indicator in the order of their ticks, a bijection (`NumberDiffers`,
  `NumberOnto`) because the columns and bits are the digits of a number in mixed base, so
  those before a tick are as many as the ticks (`FirstCount`), and the screen shows these or
  all but one. The invariant was model-checked on small panels before it was proved, with one
  to three columns and one or two bits.
* `KeepsPace`, `Spec => []TicksKeepPace`, with `PaceAssumption`, which says which lengths
  and sizes `inc_cur_ptr` meets: no product `cur_ptr * TOTAL_PI` wraps at 2^32, or `total_size` divides
  2^32 and a block is at most a tick. A configuration has at most 4096 bytes, so its
  products stay below 2^24, and firmware has `total_size` 4M and blocks of 512 (`tftp_ota_server.cpp:237-253`).
  `NextStep` is the heart of it: across a wrap the last step of one period is followed by the
  first of the next, and the code's comparison drops this one tick and no other.
* `BoardTypes`, `Spec => []TypeOK`. That the ticks never pass `TotalPi` follows from the
  pace, since a transfer never passes its `total_size`.

### The configuration tool

* `ToolTypes`, `SavedAreAccepted`, `DumpsReadBack`. `ToolInv` says what the two files were
  made of: a binary saved with its CRC has that CRC over the header of this version, a text
  has the names and the number of what was dumped. `ReadBack` is the lemma about the enum:
  names are shown only if all their bits are there, so what is read back is never more, and
  if no number is left it is never less. `ToolAssumption` takes the CRC of no image to be the
  value that asks for one.

### The FPGA loader

* `LoaderTypes`, `DoneMeansRunning` and `NothingLost`: at each place of `load_fpga` the invariant says what
  the FPGA has taken, where SS is, and how many clocks it has had. At the end it says of each
  message but that of the last transfer whether the FPGA runs; the repeated transfers of the
  dummy byte and of the image leave an FPGA that does not, whether they reached it or not.

### Model-checked only

Every property of a passing run that is not about liveness is a theorem, the two refinements
included. Those about what the server receives and stores, and about retries, are proved for
runs one after another, as they are checked: with runs that overlap TLC shows each of them
false, since `process_write` takes a block from whoever sends it. All liveness needs ENABLED
and fairness and stays with TLC: `ScanTerminates`, `EveryRunEnds`, `ServerReturns`, `LoaderEnds`.

## Not modelled

* The bit packer (`HW/bitpk.py`): an experiment of its own that no build file runs and whose
  output nothing reads. Its assertion that runs alternate fails for inputs that start with a
  run of zeroes (`HW/bitpk.py:51`), so there is no promise to check.
* mDNS and NetBIOS set-up, GPIO directions: driver calls in a fixed order without state of
  this program.
* In `mstd.cfg.py`: the parser of the C++ header, TOML quoting, strings and their truncation,
  the choice of files by name; `--bypass`, which copies images unseen.
* The TFTP `blksize` option, which `mstd.cfg.py` never sends; `TFTP::stop`,
  `SSD1306::set_contrast` and `set_orientation`, which nothing calls; the font.
* `config->passwd[63] = 0` (`wifi_module.cpp:98`), which changes the configuration in RAM
  under its CRC: it needs a password field that is full to the last byte, and what a record
  holds is abstract here.
* `test-hw/main/sd1306.cpp` is the same file as the bootloader's display driver, which `Oled`
  models; the hardware test calls only `init` and `draw_text` of it.
* Two downloads of different files at the same time: they share one socket, and a reader can
  get blocks of the other's file. Nothing in the repository excludes or promises anything
  about it, so no property does. The same holds of two uploads side by side: a configuration
  that asks for its CRC can then be stored with blocks of the other.
* Schematics, boards, 3D models and build files have no program state.

## What is left

The liveness of the two abstract specifications: `FileService` and `ConfigRegister` promise
safety only, and that runs end, the server returns and a scan terminates is stated of the
detailed modules and checked there.
