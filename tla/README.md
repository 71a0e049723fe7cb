# Verification of the dual-mode SD card driver

TLA+ models of the UEFI driver in `src/`: a bus driver that finds an SD card
behind an MMC host controller (`EFI_SD_MMC_PASS_THRU_PROTOCOL`) or on a plain
SPI bus (`EFI_SPI_HC_PROTOCOL`), falls back from one to the other, and produces
Block I/O on a child handle. TLC checks the models on small instances; TLAPS
proves the main safety properties for every value of the constants.

## 1. Inventory of the system

| Component | Source | State | Operations | Modelled in |
| --- | --- | --- | --- | --- |
| Driver binding | `SdCardDxe.c` | open-protocol entries, child handles, pool blocks | Supported, Start, Stop | `SdCardDxe` |
| Mode probe and fallback | `SdCardMode.c` | `Mode`, protocol pointers, `SpiPeripheral` | SdCardProbeMode, SdCardHandleModeFallback | `SdCardMode` |
| Initialization dispatcher | `SdCardMedia.c` | `IsInitialized`, `MediaPresent`, `MediaId`, `Csd` | SdCardInitialize, GetCardIdentificationData, Reset | `SdCardMode`, `SdCardDxe` |
| Block I/O and media change | `SdCardMedia.c` | `BlockMedia`, bounce buffer | ReadBlocks, WriteBlocks, FlushBlocks, hotplug notification, timer callback | `SdCardMedia` (SPI), `SdCardHost` (host) |
| SPI transport | `SpiIo.c`, `SpiLib.c` | `CardType`, capacity; state of the card | initialize, command, data blocks | `SdCardSpi` |
| MMC host transport | `HostIo.c` | `CardType`, `Rca`, capacity; state of the card | initialize, command, error mapping, CSD, card status, bus width, UHS mode, error recovery | `SdCardHost` |
| Pure helpers | `DriverLib.c` | none | CRC7, CRC16, command frame, CSD, bounce buffers, clock divisor | `DriverLib` (not the divisor) |
| Power state, boot partition | `SdCardDxe.c` 643-762 | none | two requests nobody calls | `SdCardHost`, in host mode |
| Alternate front end, shell help, build files | `SdCardBlockIo.c`, `SdCardHelp.c`, `.inf/.dec/.dsc` | none | not installed, or not in the image | no |

Interaction. The DXE core calls Start and Stop on a controller handle. Start
allocates an `SD_CARD_PRIVATE_DATA`, chooses the mode, opens that transport's
protocol BY_DRIVER and calls `SdCardInitialize`, which asks for the card's
presence, runs the transport's initialization and, when that fails, calls
`SdCardHandleModeFallback`; the fallback closes one protocol, opens the other
and calls `SdCardInitialize` again. The two therefore recurse through each
other while they change the handle database, the pool and the private
structure. Reset of Block I/O enters the same code for a published child. The
handle database is shared with the producers of the two protocols and with
other drivers that may claim them.

A Block I/O call checks its parameters against `BlockMedia`, hands the transfer
to the transport and, when that fails, asks whether the card is still there. The
hotplug and timer callbacks change the same `BlockMedia` fields and use the same
bus. The SPI transport sends a command and reads eight further bytes in one
transaction, and reads registers and data blocks in transactions of their own.
The host transport hands each command to the controller as one packet and looks
at few of the errors a card reports.

What is hard here: failures in the middle of Start, Stop and of a fallback, at
every depth of the recursion; exits that clean up according to a mode that may
have changed since; state one function expects another to have written; cards
that are swapped, and callbacks that fire, in the middle of a call; command and
data phases of SPI that go out of step; commands and responses that get lost
while card and driver each go on. `PROJECT.json` lists every such hazard at its
line with the property that covers it.

What makes each component correct:

- driver binding: a failed Start changes no claim and no child managed (it may
  leave one it could not uninstall), a successful one adds one child and one
  claim, Stop reports success only for children that are gone with all they
  owned, nothing leaks, no claim outlives the children;
- fallback: initialization goes on only in a mode whose protocol is held and
  whose peripheral exists; it terminates;
- dispatcher: media is present only when initialized from an accepted CSD, and
  the MediaId changes with it;
- Block I/O: a transfer that succeeds reaches the medium whose id the caller
  passed; no two media share an id; a call on an empty slot takes the media out
  of service; bounce buffers are freed;
- SPI transport: a successful transfer moved exactly its blocks, a failed write
  reached a prefix of them, no transfer leaves the card in a data phase, an
  initialized card is ready and addressed the way it expects, every call returns
  (the first and third of these the code does not keep; section 3 says how far);
- host transport: an initialized card is selected, known, and the one whose CSD
  was parsed; it stays so while it is reported present; a transfer command opens
  the block asked for, on that card only; every call returns;
- pure helpers: CRCs agree with the division the SD specification defines, the
  two CSD parsers with each other.

### Two fields nobody writes

`Private->ControllerHandle` and `Private->Csd` are read
(`SdCardMode.c` 103-234, `SdCardMedia.c` 368-403) and never assigned; the
private structure is allocated zeroed. Taken literally the driver can therefore
do very little: every handle-database call of the fallback fails, and every
identification finds an empty CSD. The two are constants of the models,
`RecordsHandle` and `RecordsCsd`, FALSE as built. The runs with FALSE show what
the driver in `src/` does; the runs with TRUE show that the control flow around
these two fields, which is what would be left once they are assigned, keeps the
contract. Everything else is the same definition in both.

`SdCardSpi`, `SdCardMedia` and `SdCardHost` begin behind these two fields: they
show what holds of the transports and of Block I/O once a card gets that far. A
host-mode card does not as built (`dxe_host_detect`).

## 2. Modules

| Module | What it is |
| --- | --- |
| `SdCardMode` | private structure, open-protocol semantics, `SdCardInitialize`, `SdCardHandleModeFallback`; no `Next` of its own |
| `SdCardDxe` | EXTENDS `SdCardMode`: Start, Stop, Reset, the environment, `Spec`, `FairSpec`, its properties |
| `DriverBinding` | abstract bus driver: claims on a controller and managed children |
| `CardSlot` | the slot behind a transport: what its card may be asked, what bring-up makes of it |
| `BlockTransport` | EXTENDS `CardSlot`: what a transport promises Block I/O |
| `RemovableMedia` | abstract Block I/O of removable media: ids, requests, resets and events |
| `SdCardMedia` | EXTENDS `CardSlot`: Block I/O and the two callbacks over a slot whose card is swapped |
| `DriverLib` | pure helpers: CRCs with the division of the SD specification beside them, command frame, both CSD parsers, bounce buffers |
| `SdCardSpi` | EXTENDS `DriverLib`: the SPI transport and an external card in a slot |
| `SdCardHost` | EXTENDS `DriverLib`: the host transport, its transfers, an external controller and card |
| `MCSdCardDxe`, `MCSdCardMedia`, `MCSdCardSpi`, `MCSdCardHost` | their instances for TLC |
| `SdCardDxe_proofs`, `SdCardDxeChildren_proofs`, `SdCardMedia_proofs`, `SdCardSpi_proofs`, `SdCardSpiTransport_proofs`, `SdCardHost_proofs`, `DriverLib_proofs` | inductive invariants and theorems |

### State and code: `SdCardMode`, `SdCardDxe`

| Variable | In the code |
| --- | --- |
| `installed`, `foreign`, `opened` | handle database: protocols on the controller, those opened BY_DRIVER by others, by this driver |
| `children`, `linked` | child handles with Block I/O; BY_CHILD_CONTROLLER entries |
| `priv[i]` | `SD_CARD_PRIVATE_DATA`; pointers are TRUE when not NULL, `csd` is empty, rejected or accepted by the parser |
| `heap[i]` | pool blocks allocated for `i` and not freed, by kind |
| `pc`, `self`, `caller`, `waiting`, `status` | program counter, `Private`, and the call stack: the outside caller and the number of `SdCardInitialize` activations suspended in the fallback they called |
| `protocolOpened`, `todo`, `stopping`, `allStopped` | locals of Start and Stop |
| `before` | history: claims when Start was called |
| `abandoned` | history: children a failed Start could not uninstall |

The recursion is exact: the fallback does nothing with the status of its
`SdCardInitialize` but return it, so a suspended fallback has no state, and a
suspended `SdCardInitialize` has none but its place. A counter is the whole
stack.

Steps. Each action is one stretch of the code between calls that can fail; the
driver runs on one thread and boot-time callers do not preempt it here, so the
grain matters for the failure points and not for interleavings. Environment
actions (protocols installed, removed, claimed by others) happen between calls.
An `OpenProtocol` returns what the UEFI specification lets it return for the
state of the handle (already opened by this driver, claimed by another, absent,
NULL handle) and, when `Faulty`, also an allocation failure.

In `StartLink` the code does not look at the outcome of a call that undoes
something and may well fail: when the child cannot be linked, its uninstallation
may fail as well (a consumer opened Block I/O meanwhile), and `StartExit` frees the
structure of a child that stays published. Such a child is `abandoned`. The
properties about structures and children hold but for these, and
`ChildrenAreBacked` (`dxe_abandoned`) says that there are none, which the code
violates. What Block I/O does when somebody calls it on an abandoned child is
undefined, and no such call is modelled. Stop is never given it, since it is not
linked to the controller. `DriverBinding` calls them strays.

What is abstracted: logging, names, device path contents, the fields of Block
I/O that no property reads. Presence detection and transport initialization
return any status their code can return, whatever the card does; a presence
request without an SPI interface fails, as `SpiTransferBuffer` does for a NULL
protocol. A removed protocol is one nobody holds, as after
DisconnectController. `CloseProtocol` of a protocol the driver does not hold
changes nothing.

### State and code: `SdCardSpi`

| Variable | In the code |
| --- | --- |
| `bus` | external: clean, lossy, noisy, or failing (below) |
| `selected` | chip select, as `SpiAssertCs` and `SpiDeassertCs` leave it |
| `cardType`, `ready` | `Private->CardType`; whether initialization succeeded last |
| `retry`, `done` | locals `Retry` of `SdCardInitializeSpi`, `i` of `SdCardExecuteReadWriteSpi` |
| `pc`, `status` | the command or block the driver is at; status of the call that returned last |
| `lost` | whether the next start token is missed: it fell into the answer window, or was disturbed; of a write, whether any token was |
| `spoiled` | history: whether a start token of this transfer was missed, or a block damaged on its way to the card |
| `card` | external: the card in the slot, its mode and its open data phase |
| `req`, `moved` | the transfer's parameters; history of the blocks read or stored |

One action is one command with the driver's reaction, or one data block. Bytes
are counted, not modelled: `SdCardSendCommandSpi` reads eight bytes after the
command (`Window`), the card answers after some number of them (`Delays`), and
what the driver reads next begins after the window. That arithmetic decides
whether the CMD8 pattern, the OCR's capacity bit and a start token are seen, and
is the same everywhere in the module. The card is modelled from the answers the
driver distinguishes: it is deaf to all but CMD0 until CMD0, takes no command
but CMD0 while it waits for data, and while it sends data an answer may be
anything. A card may be removed and another inserted between any two actions.
`status` after initialization leaves out the CSD parser, which cannot fail: the
capacity it tests for zero is a product of positive numbers.

The bus is one of four, for the whole behaviour.

- `"clean"`: every byte arrives. What goes wrong is the card's timing, the slot
  and the driver.
- `"lossy"`: what is disturbed is missed, refused or damaged, never taken for
  something else. A command or its answer is lost, before the card acted on it or
  after; a start or a stop token is not recognized, by the driver or by the card;
  bytes of a register or of a block are wrong. A card that missed the start token
  of a block takes the block for nothing, or a byte of it for the token, and then
  its block from what comes next; one that missed the stop token goes on waiting.
  The data of a block that arrives damaged is stored.
- `"noisy"`: it may also be taken for something else (`Altered`, `Mistaken`): an
  answer for another answer, idle bytes for an answer, a command for another
  command or for the same one at another address, so that the card sends or takes
  another block, becomes idle, or leaves its data phase. Noise never wakes a card
  that is still in SD mode: that takes a CMD0 with its CRC.
- `"failing"`: `SpiTransferBuffer` may return an error, which most callers ignore;
  what the driver then reads is what its buffer held (`Read`), which for an
  uninitialized local is anything.

In SPI mode a card compares CRCs only after CMD59, which the driver never sends
(`templates/specs.json:100`), so the card of the model refuses no command and no
block for its CRC: wrong arguments are executed and wrong data is stored. CMD0 and
CMD8 are the exceptions, whose CRC7 a card may check (`ChecksCrc`). In the other
direction the driver does compare, and what it makes of a damaged block is
computed: `CrcMatches` compares `DriverLib`'s CRC16 with the remainder of the
division the SD specification defines (`Remainder`), over blocks of three bytes,
bursts of up to four bits and all pairs of bits (`BlocksPass`, `ErrorsPass`). Noise
is taken to be of that kind; and bytes that are not a block of the length the
driver reads (the rest of one, a CSD instead of a block) are taken not to match.
A CRC of sixteen bits cannot promise either for every string of bytes.

Block I/O sees less of the transport, and `BlockTransport` states what: it asks
for presence, bring-up, a command and data, and finds a card fresh, reset,
halfway up or ready. `SlotSeen` and `RequestSeen` map the state of `SdCardSpi` to
that (a card is fresh in SD mode, reset in the idle state, ready when the last
initialization was its own and succeeded), and `ImplementsTransport` says that
every command of the driver is a step of the contract or not seen by it. The
CMD12 after a failed read is not. On the noisy and the failing bus nothing is
promised (`works`): bytes nobody sent may pass for any answer.

### State and code: `SdCardHost`

| Variable | In the code |
| --- | --- |
| `controller`, `starts`, `card` | external: whether the controller goes by the command or by the packet's `CommandType`; whether an ACMD41 without voltages starts a card; the card in the slot |
| `cardType`, `rca` | `Private->CardType`, `Private->Rca` |
| `csdOf`, `blocks` | the medium whose CSD `ParseCsdRegister` parsed last and the capacity it found |
| `ready`, `published` | `BlockMedia.MediaPresent`; the medium it was set for and its `LastBlock + 1` |
| `disturbed` | history: whether that card was powered off or recovered since |
| `caller` | whether `SdCardInitialize` or `ErrorRecoveryHost` runs the initialization |
| `pc`, `status`, `retry` | the command the driver is at, `Status`, `Retry` of the ACMD41 loop |
| `req`, `resp` | parameters of a transfer, `Response` |
| `bounce`, `pool` | aligned bounce buffer, and the addresses of pool blocks not yet freed |

One action is one command: what the controller reports of it, what the card
makes of it, and the driver's reaction. A response is the set of its bits, since
`CheckSdErrorResponse` looks at some bits and `SdCardMapSdErrorToEfiStatus` at
others. The card follows the states of the SD specification (idle, ready, ident,
stby, tran, data, rcv) and what the driver's commands do in each; an illegal
command is not answered and reported with the next R1. `Faulty` loses a command,
or its response after the card has acted. `CommandType` is never set, and its
zero means a broadcast without response, so a controller that goes by it reports
success and zeros (`"byType"`).

The pool returns a block at `PoolAlign`; buffers of a caller are aligned or not.
The packet of a transfer carries no data buffer, so
that `SdCardHost` has command, card and buffers of a transfer but no data.
Published sizes are those of `SdCardParseCsdRegister`, which the identification
uses, and not of the parser in `HostIo.c`.

### State and code: `SdCardMedia`

| Variable | In the code |
| --- | --- |
| `mediaPresent`, `mediaId` | `BlockMedia.MediaPresent`, `BlockMedia.MediaId` |
| `csdOf` | the medium whose CSD and geometry are in the private structure |
| `pc` | where a Block I/O call (`io`) and a callback (`event`) are |
| `req`, `status` | the call's parameters and status |
| `slot` | external: the card and whether it was reset or made ready |
| `source`, `disturbed`, `named`, `empty` | history: the medium the data came from; traffic of an event inside a transfer; what each MediaId named; whether the slot was empty since the call began |

The mode is fixed to SPI (`ModeStaysFixed` below) and the CSD is recorded, since
otherwise nothing is published (`NeverPublishes`). The transport is reduced to
`CardSlot`, the same definitions `BlockTransport` states its contract with and
`SdCardSpi` implements: a card put in is fresh, a failed bring-up may leave it
anywhere on the way up (`LeftBehind`), and data moves only where a card takes it
(`TakesData`). `FreshAnswers` lets a card answer CMD13 that was never reset,
which the SPI transport never does; Block I/O does not depend on it. UEFI raises the
priority for an event, so a callback that fires in the middle of a call runs to
its end before the call continues; the call itself is cut
between detection, clearing the flags, bring-up, identification, the command and
the data of a transfer. Left out: host mode, the `ReadOnly` flag, which nothing
sets, empty and unaligned requests, bounce buffers.

What a caller may rely on is `RemovableMedia`: a MediaId is given to one medium
only, a request begins under the id of the media present, a read that succeeds is
of the medium its id names, absent media refuses and comes back by an event, and
no transfer that reached the card, and no Reset that asked for it, succeeds on a
slot that was empty throughout. (FlushBlocks, and Reset without extended
verification, return success without a look at the card, and a call under an old
id is refused before; these change nothing and are not claimed about.) It leaves open when media is
withdrawn, so a failed transfer, a Reset and an event may each withdraw it, with or
without counting the id up. `ImplementsRemovableMedia` maps the place of the call to
"nothing", "transfer" or "reset" (`Doing`) and what spoils the bus of a transfer,
an event's traffic or a card left halfway, to one flag (`cut`).

## 3. Runs

| Run | Question | Result |
| --- | --- | --- |
| `dxe_wired` | Handle and CSD recorded, SPI-only, two structures, all failures: memory, claims, publication, presence, Stop, refinement of `DriverBinding`, bounded calls | holds |
| `dxe_as_built` | Neither recorded: mode fixed, recursion shallow, nothing published, every call returns | holds |
| `media_swaps` | Cards swapped, callbacks between and inside calls: data of the named medium, geometry, absence noticed, recovery only by callback, refinement of `RemovableMedia` | holds |
| `spi_transfers` | Clean, lossy and failing bus, every kind of card, answers at every relevant delay, start tokens in the answer window and behind it, swaps: reads exact unless a start token was missed, prefix writes, released card, ready card, every call returns and is bounded, refinement of `BlockTransport` | holds |
| `spi_noise` | Noisy bus: transfers addressed in the card's own unit, and reads of whole blocks of one card in order | holds |
| `host_session` | Both controllers, all cards, lost commands and responses, swaps: selected and known card, requested block, freed buffers, every call returns and is bounded | holds |
| `dxe_host_detect` | A card behind a working host or bus is detected (`README.md:2`, `SdCardMedia.c:466`) | violated |
| `dxe_abandoned` | "Clean up the protocols we just installed", "Centralized cleanup logic" (`SdCardDxe.c:355`, `:369`): a published child has its structure | violated |
| `spi_write_lost` | "The data was transferred correctly." (`SpiIo.h:112`), of a multi-block write | violated |
| `spi_shifted` | The same sentence, of a multi-block read on a clean bus | violated |
| `spi_crc` | CMD8 carries the CRC of `templates/specs.json:338`, so a card that checks it is recognized | violated |
| `host_geometry` | "Parses the CSD register and extracts card information." (`HostIo.c:417`) | violated |

`dxe_wired` and `dxe_as_built` set `SpiOnly` because only then has a fallback
something to switch to. Starting with an MMC host, presence is asked over SPI, the
answer is NO_MEDIA and no fallback follows, so a card only ever gets as far as
`dxe_host_detect` shows; starting over SPI, Start and Reset fall back to the host
and on, and the exit must close what the fallback opened. The theorems cover
both values.

Several properties carry a condition.

- `ReadIsExact`, `SingleBlockIsExact`, `WritesStoreAPrefix`: on a clean or lossy
  bus, for a card not still sending from an earlier call (`Orderly`).
  A read of several blocks that succeeds leaves the card sending, since CMD12 is
  sent only after one that failed (`StopRead`, below). On the noisy bus a command may be
  executed at another address, with success: no code could do better without
  CMD59, and `ReadIsIntact` says what is left.
- `ReadIsExact` is about reads that missed no start token. One that did resumes at
  the next and returns the blocks shifted, also on a clean bus when the token comes
  early enough to fall into the answer window, which `spi_shifted` shows and the
  code does nothing against. `SingleBlockIsExact` needs no such condition: there
  is no next token to take for the first.
- `WritesStoreAPrefix` and, of writes, `SingleBlockIsExact` are about where blocks
  were stored, not about what is in them: a damaged block is stored as it arrives
  (`spoiled`), and the write reports success.
- `WriteReleasesCard` leaves out a card that missed a token (`lost`). It is left
  waiting for data and deaf to all but CMD0.
- `NoLeak`, `ClaimsServeAChild` and the refinement of `DriverBinding` leave out
  abandoned children (`dxe_abandoned`).
- On the failing bus only types and termination are claimed: nothing in the code
  keeps bytes that nobody sent from passing for an answer. On the noisy one, beside
  these (which the theorems cover; `spi_noise` checks neither, for the time it
  takes), `AddressedByItsUnit` and `ReadIsIntact`.
- `ReadIsOfNamedMedium` and `AbsenceIsReported` leave out transfers whose bus an
  event used after their checks: an event may then replace the medium under them.
  The former also leaves out cards an event's bring-up left `"halfway"`: it may
  fail between a Reset's bring-up and its publication, after the swapped card
  began to take data, and the Reset then publishes the CSD of the card before.
- `OnlyEventsBringBack` is what "no callback is registered" means for a user: a
  card taken out once, and noticed, stays unusable until the driver is restarted.
- `ReadyCardIsSelected` and the medium in `TransferOpensRequestedBlock` end with
  a power off or a recovery, of which Block I/O is not told (`disturbed`).

### Seen while modelling

Differences met on the way that are not runs of their own:

- a card just powered up does not answer the CMD13 that asks for its presence
  before the chip select is asserted and CMD0 is sent, so its first detection
  fails (`SdCardMedia.c:468`; `Hears`, `Detect`);
- requests that end past the last block reach the transport (`SdCardMedia.c:84`;
  `templates/specs.json:531` asks for EFI_INVALID_PARAMETER);
- a child whose uninstallation failed is not linked to the controller again,
  since OpenProtocol gets a NULL place for the interface (`SdCardDxe.c:512`);
- a start token inside the answer window makes a single-block read time out, and
  the CSD of an initialization with it (`SpiIo.c:276`; of several blocks:
  `spi_shifted`);
- CMD12 is sent only if a read of several blocks failed, so a successful one leaves
  the card sending, and the next command reads data for its answer
  (`SpiIo.c:68`; `templates/specs.json:243` says of CMD18 "Read multiple blocks;
  stop via CMD12.");
- a block damaged on its way to the card is stored and the write succeeds: the
  CRC16 sent with it (`SpiIo.c:417`) is compared by no card before CMD59, which the
  driver never sends (`templates/specs.json:100`);
- a card that missed the start or the stop token of a write is left waiting for
  data, and the driver does not find out (`SpiIo.c:62`, `:420`);
- the CMD8 pattern is found only if the card answers in the last byte of the
  window (`SpiIo.c:127`); answering earlier, a version 2 card is refused. The
  OCR has the same problem, which the CSD read later makes good;
- an error bit of an R1 that `CheckSdErrorResponse` selects is mapped by the low
  byte of the response, where there is none of them, so a refused command of the
  host transport is reported as successful (`HostIo.c:187`; `:177` says
  "EFI_SUCCESS if no errors, appropriate error code otherwise"): the
  initialization and the transfers of `SdCardHost` go on after such a refusal;
- of the host: an ACMD41 that asks for no voltage starts no conforming card; the
  illegal-command bit a version 1 card reports after CMD8 makes the CMD55 that
  follows fail; a controller that goes by `CommandType` never gets a card up;
- writes of several blocks never send CMD12 and leave the card in rcv, where it
  refuses the next transfer (`HostIo.c:714`);
- every failed transfer of host mode ends as NO_MEDIA, since presence is asked
  over a NULL SPI interface (`SdCardMedia.c:132`);
- a lost ACMD6 leaves the card taking the next CMD6 or CMD13 for an application
  command, and `SetBusWidthHost` never tells the controller (`HostIo.c:790`);
- error recovery may bring up another card without a new MediaId, and a large
  block number may then wrap as a byte address (`HostIo.c:841`, `:686`);
- the parser of `HostIo.c` is wrong with and without the CRC byte in the response
  (`Shift` 0 and 8), and multiplies capacities in 32 bits (`HostIo.c:469`).

Bounds. `SdCardDxe`: two structures are enough for what one call can do to
another's: a Start that runs while an earlier child exists, and a child orphaned
by Stop beside a second one. `MaxWaiting = 3` covers host to SPI to host to SPI
inside one call; a deeper stack repeats the same two modes with the same state.
`MediaIds = 3` makes the id wrap. The bounds cut only the environment: a
transport failure that would nest deeper is not taken.

`SdCardSpi`: `Window = 8` is the code's. `BlockBytes = 2`, `Addresses = 8` and
`Capacity = 3` keep byte and block addresses apart and let a transfer run off the
end of the card; `MaxCount = 3` (2 in the violation runs) covers first, middle and
last block; `Retries = 2` lets the ACMD41 loop go round and run out; one swap
(`MaxMedia = 1`) suffices because a transfer that meets a second card never
meets a third differently. Delays 0, 6, 7, 8 are an answer at the window's
start, last but one, last byte and behind it; with `Gaps` of 1 and 8 filler bytes
before the data, a start token falls into the window, or just or well behind it.
`spi_noise` has one round of the ACMD41 loop, since noise ends it at any answer,
and states no liveness, which takes too long with so many outcomes of a step.

`SdCardMedia`: two cards after the first one (`MaxMedia = 2`), so that a card
may come back or be replaced twice; `MaxId = 5` leaves three or four increments
of the MediaId. Calls and events stop when ids run out; the wrap of the 32-bit
MediaId is not modelled here: after 2^32 changes an id names a second medium, and
what `RemovableMedia` says of ids ends. `LastBlock = 1`.

`SdCardHost`: `Retries = 2` and `MaxMedia = 1` as above. The cards have 128, 256
and 5120 blocks and the requests begin at 0, 1 and 70, so that byte and block
addresses differ and a byte address taken for a block is out of range;
`Addresses = 65536` holds every byte address of the requests. Two relative
addresses tell the card in the slot from the one before. One error bit,
`Refusals = {19}`, stands for the errors that `CheckSdErrorResponse` selects.

Fairness. `FairSpec` assumes weak fairness of the driver's own steps alone
(`CallStep`, `DriverStep`): a call in progress has the processor and runs. No
caller, no card, no slot and no environment step is assumed. With it every call
returns (`CallsReturn` of three modules); in `SdCardDxe` for the driver as built.
With the handle recorded this is not claimed: both transports failing forever
recurse without bound.

`CallsAreBounded` says more of the same loops without any fairness: `StepsLeft` is
a measure of what a call still has to do, and each step of the driver decreases it,
whatever the card, the bus or the slot does meanwhile. It bounds a call of the SPI
transport by its retries or its blocks and one of the host transport by its
retries. In `SdCardDxe` the bound depends on the depth of the recursion
(`MaxWaiting`, which the environment may not exceed) and on the number of children:
once an initialization has ended, no suspended activation tries the other mode
again, and Start asks for one more fallback only. As built the depth is one
(`RecursionIsShallow`).

## 4. Proofs

The assumptions are the named ASSUMEs on the constants, which TLC evaluates in
every run, and the premises stated with a theorem.

| Theorem | States |
| --- | --- |
| `SdCardDxe_proofs!TypeCorrect` | `Spec => []TypeOK` |
| `NothingLeaks` | `Spec => []NoLeak` |
| `FailureRestores` | `Spec => FailedStartRestores` (action property) |
| `NoIdleClaims` | `Spec => []ClaimsServeAChild` |
| `OnlyReadyIsPublished` | `Spec => []PublishedIsReady` |
| `DriverBindingRefined` | `Spec => Contract!Spec` |
| `ModeStaysFixed` | `Spec => ModeIsFixed` (action property) |
| `NeverPublishes` | `Spec => []NothingPublishedWithoutCsd` |
| `RecursionIsShallow` | `Spec => []NoRecursionWithoutHandle` |
| `SdCardDxeChildren_proofs!PresentInitialized` | `Spec => []PresentIsInitialized` |
| `StopCompletes` | `Spec => StopIsComplete` (action property) |
| `CallsBounded` | `Spec => CallsAreBounded` (action property) |
| `SdCardMedia_proofs!TypeCorrect` | `Spec => []TypeOK` |
| `GeometryCorrect` | `Spec => []GeometryIsOfNamedMedium` |
| `ReadCorrect` | `Spec => ReadIsOfNamedMedium` (action property) |
| `AbsenceReported`, `AbsenceLasts` | `Spec => AbsenceIsReported`, `Spec => OnlyEventsBringBack` (action properties) |
| `RemovableMediaImplemented` | `Spec => Contract!Spec` |
| `SdCardHost_proofs!TypeCorrect` | `Spec => []TypeOK` |
| `ReadySelected` | `Spec => []ReadyCardIsSelected` |
| `InitializedSelected` | `Spec => InitializedIsSelected` (action property) |
| `OpensRequested` | `AddressesSuffice` implies `Spec => TransferOpensRequestedBlock` |
| `BuffersFreed` | `PoolIsAligned` implies `Spec => []BuffersAreFreed` |
| `CallsBounded` | `Spec => CallsAreBounded` (action property) |
| `SdCardSpi_proofs!TypeCorrect` | `Spec => []TypeOK` |
| `InitializedReady` | `Spec => InitializedIsReady` (action property) |
| `AddressedByUnit` | `AddressesSuffice` implies `Spec => []AddressedByItsUnit` |
| `WriteReleases` | `Spec => WriteReleasesCard` (action property) |
| `WritesPrefix` | `AddressesSuffice` implies `Spec => []WritesStoreAPrefix` |
| `ReadExact` | `AddressesSuffice` implies `Spec => ReadIsExact` |
| `SingleBlockExact` | `AddressesSuffice` implies `Spec => SingleBlockIsExact` |
| `ReadIntact` | `Spec => ReadIsIntact` (action property) |
| `CrcAccepts`, `CrcDetects` | `BlocksPass`, `~ErrorsPass`: of the model's blocks the driver accepts the correct ones only |
| `CallsBounded` | `Spec => CallsAreBounded` (action property) |
| `SdCardSpiTransport_proofs!TransportImplemented` | `Spec => Transport!Spec` |
| `DriverLib_proofs!CrcIsRemainder` | for every generator of at least 8 bits and every string of bytes: `CrcRegister(poly, bits) = Remainder(poly, bits)` |
| `BurstsAreSeen`, `PairsAreSeen`, `OddErrorsAreSeen` | in blocks of any length the CRC16 tells errors within 16 bits in a row, two wrong bits up to 23 apart, and any odd number of them |

Driver binding. The inductive invariant is layered. `Control` ties `pc` to the
caller and to an empty stack outside initialization: without it a return could
resume nothing. `Memory` strengthens `NoLeak` by the places where a block is about
to be allocated and holds none yet (a structure in host mode has no peripheral; no
device path before `StartMedia`), which is what makes a fallback's allocation
safe at any depth. `ClaimInv` says that during Start the claims are those of
`before` and at most the protocol of the *present* mode, which `before` did not
contain; this is why closing by present mode at the exit is right.
`ReadyInv` says that initialization inside Start only continues while
`Attached`, and carries that through returns with SUCCESS up to publication.
The refinement uses all four: a Start in progress is invisible
(`claims <- IF InStart THEN before ELSE opened`), the linking step is the
abstract Start, and a fallback during Reset is a Trade. `NeverPublishes` and
`RecursionIsShallow` add `NoCsd` and `Shallow` for the driver as built.
`PresentInv` strengthens `PresentIsInitialized` by every structure at every step,
with one exception: in host mode a new CSD replaces the one of media still
reported present until the identification decides on it. `LinkInv` and `StopInv`
say which links and children Stop has dealt with while it goes through its list.

Block I/O. `GeometryInv` has the exception `PresentInv` has, for whichever thread
is between bring-up and publication. `CardInv` says that a card brought up is the
one whose CSD was read last (one left halfway by a failure need not be); with
`TransferInv`, that an undisturbed transfer still has the medium its checks saw,
it gives `ReadCorrect`. `IdsInv` counts the increments still to come, so that ids
stay in range, and `EmptyInv` says that nobody gets past bring-up in a slot that
was empty since the call began.

`RemovableMediaImplemented` needs no more than that: each operation is one step of
`RemovableMedia`, for a caller in a transfer or a Reset and for an event. A
transfer that succeeds uses `CardInv` and `TransferInv` for its data, a Reset that
publishes uses `EmptyInv`, and a failed transfer that finds the card still there
knows from it that the slot was not empty throughout.

Host transport. `Progress` says, for every place of the initialization, that the
card is in the state the last command put it in and known as far as the driver
knows it, or was inserted since and is idle; a driver never gets beyond CMD2 with a
controller that goes by type. `Settled` carries the result through calls, losses
and failed initializations while media is present. `TransferOpensRequestedBlock`
needs that no address wraps (`AddressesSuffice`): the driver checks the block
against the published size, but error recovery may have brought up a byte-addressed
card since. `BuffersAreFreed` needs `PoolIsAligned`, the alignment of the pool a
multiple of `IoAlign` (8 and 4 in UEFI): FreePool is given the aligned address,
and only then is it the allocated one. TLC checked the invariants before they were
proved. `TypeOK` needs what the parser makes of any CSD: a field is a natural
number (`FieldType`), and so is every capacity (`HostParsedType`); `HostAssumption`
says that a CSD has 128 bits.

SPI transport. `Bringing` says that a card which hears the driver sends nothing
between CMD0 and CMD9 and has left the idle state once the ACMD41 loop ended:
CMD58 and CMD9 accept the answer of an idle card, so nothing later would notice.
(These two hold on a clean or lossy bus.) `Identified` says, on the noisy bus too,
that a card which still hears the driver while media is present is of the type the
driver addresses it by, whatever it took for the OCR; a card put in since is deaf,
and noise cannot wake it: `AddressedByUnit`. `Waiting` says that a card waiting for
the data of a write, which missed no token, hears the driver and knows whether one
block will come or a stream, from which `WriteReleases` follows whatever ends the
write. `Storing` and `Reading` count: the blocks moved are a prefix of those asked
for, and the card is about to take or send the next, for reads as long as no start
token was missed. They hold only if the argument of a command can carry every
address (`AddressesSuffice`: the driver neither checks the last block nor the
multiplication by the block size). `Sending` is what is left of `Reading` on the noisy
bus: the card sends some block of its own, further on than the last one received
without an error, and a card that hears the driver is still the one of the request;
it gives `ReadIntact`, which needs no premise. `SingleBlockExact`, `ReadExact` and
`ReadIntact` rest on
`CrcDetects`, that the CRC16 of the driver passes no error of the bus, which
follows from the theorems about `DriverLib`.

`TransportImplemented` adds `Fit` to that invariant: a card brought up is not
idle again while the driver counts on it, and only such a card is transferred to.
CMD0 alone makes a card idle, and no bring-up begins without the flag being
cleared first. Each command then maps to one step of the contract: what an
initialization leaves of the card is in `LeftBehind` (`Left`), the CSD that ends
it came from a card beyond the idle state (`ReadCsdSeen`), and a command or a
block that succeeds was heard by a card that takes data (`FitTakesData`).

CRC. The driver adds a byte to the top of its register and then shifts eight times;
the SD specification divides bit by bit. `Differ` relates the two after every bit:
they differ exactly where bits of the current byte are set that only the driver has
added yet, so at the end of a byte they agree. The division is linear
(`RemaindersXored`), hence an error passes only if its own remainder is zero. Going
back from a zero register (`BeforeZero`) the register holds the last bits of the
error itself, so a burst of up to sixteen bits would have to be zero; two bits
further apart are followed back step by step (`PairLeaves`); and a turn keeps the
parity of register and bits together (`ParityTurn`). All of this is induction over
the bits of a block, which `DriverLib_proofs` gets without an induction schema:
`Induction` derives it from the pigeonhole principle for finite sets, `Recursion`
the existence of recursive functions from that, and `UpTo` is the form the proofs
cite. `CrcIsRemainder` holds of the register of `SdCardCalculateCrc7` too, but of
a division by a polynomial of degree eight, not by the one it names (`spi_crc`).

Bounded calls. Each measure is proved from the invariant of its component, as one
value of `StepsLeft` before and one after each operation. For the two transports it
takes only the range of the retries and of the blocks done (`Counting`); for
`SdCardDxe` the control invariant of the recursion, and that Stop's list is finite
(`IsFiniteSet(Inst)`).

Only model-checked: `CallsReturn` of the three modules. What `CallsBounded` leaves
of it is that a call in progress goes on, which is the fairness assumed; to conclude
from both needs ENABLED, which is out of the prover's reach. What the CSD parsers
compute, beyond their types, is evaluated over the CSDs of the runs.

## 5. Not modelled

- The callbacks in host mode. They ask for presence over SPI and can only find no
  card, as the calls do (`TransferFinish`).
- `ReadOnly`, which nothing sets; empty requests.
- `SetBusSpeedHost` and the two low power states, which only forward a number;
  the delays of the initialization sequences.
- The clock divisor of `DriverLib.c`, which nothing calls.
- In SPI mode, the response helpers, and the power and partition commands nothing
  calls.
- `SdCardBlockIo.c`: its functions are never installed. `SdCardHelp.c`: text, and
  not part of the image.

## 6. Plan

What is left, in order of worth:

1. `SdCardHost` as a second implementation of `BlockTransport`, once presence is
   asked over the transport in use and a transfer carries data.
2. Callbacks over `SdCardSpi` itself, command by command, once something
   registers them.
3. Host-mode data transfers, once the packet carries a buffer.
