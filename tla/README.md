# A TLA+ model of the J1939 rear-light ECU

The program under `src/` is the controller of the rear lights of a truck. It
reads J1939 frames from a CAN bus, drives four lamps through PWM pins, claims a
source address on the bus, reports its state, and keeps an encrypted log of
every frame it receives. A harness next to it runs two builds of the program
(DES and AES log encryption) under KLEE and compares their output.

This directory holds TLA+ modules that model the program, TLC configurations
that check them on small instances, and proofs, checked by TLAPS, that hold for
every value of the constants. Paths below are relative to `src/`.

## 1. Inventory

| Component | Code | State | Operations | Modules |
|---|---|---|---|---|
| Rear lights | `src/bumper.c`, the routines of `src/main.c` that feed and display it | `struct Bumper` | a brake frame, a turn-signal frame, `turn_signal_routine`, `brake_routine`, `set_duty` | `Bumper`, `Burst` |
| Address search | `choose_new_sa` in `src/main.c` | `addr_pool`, `conf.current_sa` | one recursive call | `ChooseNewSa`, `AddressPool` |
| Address claiming | `main`, `rx_claim_routine`, `rx_request_routine`, `schedule_timer`, `sighandler` in `src/main.c` | `conf`, `addr_pool`, the interval timer | boot, a claim, a request, SIGALRM, the state machine of an iteration | `AddressClaim` |
| Encrypted log | `src/logging.c` | `mblock`, `current_frame_count`, `KEY`, `IV`, the log file | `logging_setup`, `logging_handler`, `terminate_logging_gracefully` | `Logging` |
| CRC32 | `crc32`, `crc32_for_byte` in `src/logging.c` | the table, `mblock.crc32` | one pass over the block it writes to | `Checksum` |
| Main loop | `main`, `init_can`, `install_signal` in `src/main.c` | `cf`, `conf.sig_term`, the loop counter | bind the socket, an iteration, the end | `MainLoop` |
| J1939 identifiers | `parse_J1939` in `src/main.c`, the masks of `inc/local_defs.h` | - | pure | `J1939` |
| ECUs on one bus | several copies of the program | a receive queue each | send, receive | `ClaimBus` |
| OpenSSL envelope | `src/EVP_*.c` | - | `encrypt`; failure aborts | a record of `Logging`; `Encrypted` in `SymCmp` |
| PWM pins | `src/gpio.c` | files in sysfs | `set_duty`, `set_period`, `set_power` | `duty` in `Bumper` |
| Command line | `main` in `src/main.c` | - | system calls | not modelled |
| Stub libraries | `glue.c` | `seed`, `output`, `g_iteration_number` | the stubs of OpenSSL and libc | `StubCiphers`, `SymCmp` |
| Comparison harness | `symcmp/superglue.c` | two output buffers | run both builds, compare | `SymCmp` |
| Renaming pass | `symcmp/rename_symbols_pass` | - | build tool | not modelled |
| Unit tests | `src/unit_testing/tests.c` | - | read for what they promise | not modelled |

**How they interact.** One thread runs everything. An iteration of the loop of
`main` (lines 94-177) waits at most 50 microseconds in `select`; if a frame is
there it is first passed to the log and then to one of four receive routines, by
its PGN. After that `turn_signal_routine` and `brake_routine` run, the LEDs are
copied to the pins, and the address state machine moves or a status frame goes
out. Only signals interrupt, between any two steps: `SIGALRM` sets
`conf.sig_alrm`, SIGTERM and SIGINT set `conf.sig_term`, which nothing reads.
The components share nothing but the control flow, the received frame and
`conf`; the lights and the address claim touch disjoint state. Each has a module
of its own with the other's frames as "nothing for me", `MainLoop` joins them,
and `RunsComponents` says that this split is sound. Several ECUs interact by
their claims alone; `ClaimBus` puts them on one bus.

**What is hard here.** Four pieces of code write the same lamp fields in one
iteration, guarded by locks that other iterations set and clear. Timers are
polled, so an expiry is seen late. Flags that belong together (`flash_lock`,
`has_flashed`, `num_flashes`) are written in different iterations. Claims arrive
in any order and any number, before, while and after the address they concern
becomes ours; the pool runs out; the timer signal races with claims. The log is
written in several calls, each of which may fail or be the last thing the
process does. All iterations share one frame buffer: a short read leaves in it
what the frame or the status report before put there. Two ECUs of this kind have
the same NAME and claim under NAME 0, so each gives way to the other. The
complete list, with the line where each hazard bites and the properties that
cover it, is in `PROJECT.json` under "hazards".

## 2. The modules

### Bumper

`bumper` is `struct Bumper` (`need_to_signal` is never read and left out).
A pass of the loop visits the control points `rx`, `turn`, `brake`, `gpio`:

| Action | Code |
|---|---|
| `RxBrake`, `RxSignal`, `RxNothing` | `rx_brake_routine`, `rx_signal_routine`; a timeout of `select` or a frame for others |
| `RunTurnSignal` | `turn_signal_routine` |
| `RunBrake` | `brake_routine`: `brake_flash` if a burst is on, then `brake` twice |
| `SetDuty` | `main.c` 133-140 |
| `Exit` | the end of the loop (`main.c:94`), the `return 1` after a failed read (106-109) and `err(1)` after a failed write |
| `Tick` | `clock()` moves on, at any control point, while the program runs |

Timers hold the time since their last reset, saturated just past the limit,
because the code only asks whether a difference exceeds the limit. All four
values of the two-bit brake switch and every class of the four-bit turn signal
occur, among the latter the reserved ones.

Correctness: the lamps show the brake state wherever nothing else owns them
(`LampsShowBrakes`), also in the very iteration in which a burst or a turn
signal ends; pairs of lamps stay in step (`LampsInStep`); 1111b freezes what a
turn signal owns (`NotAvailableFreezes`); bursts end, brakes show, signals blink
and release (`BurstEnds`, `BrakesShow`, `LeftBlinks`, `TurnSignalReleases`), or
the program ends first. The loop is bounded by `NR_ITERATIONS`, a number the
lights do not see, and has other exits: `Exit` may happen at the head of any
iteration, and the four properties say that no run, however long, goes on without
what they promise.

`Burst` is the abstract emergency brake display: one burst for one application
of the brakes, four toggles of the inner lamps and a fifth that leaves them lit,
cut short only by a release. It has no timers, turn signals, control points or
second call of `brake`. `ImplementsBurst` maps `struct Bumper` to it: the phase of
a burst is read off `flash_lock` and `has_flashed`, and `num_flashes` counts only
while a burst is on, for `rx_brake_routine` does not clear it.

### AddressPool and ChooseNewSa

The pool is the set of slots that hold `F_USE`. `ChooseNewSa` follows the
recursion of `choose_new_sa`, one action per call: `Take`, `Advance` with the
wrap at `J1939_IDLE_ADDR`, `GiveUp` past 0xFF calls. `ChooseNewSA` in
`AddressPool` is the reference: the nearest available slot ahead, going around,
and no change when there is none. The search is shown to compute the reference,
and `AddressClaim` uses the reference.

### AddressClaim

`conf` has the address, the state, the alarm flag and what matters of
`claim_msg`: its source address, whether the extended-frame flag is set, and
the NAME in its data. `tx` is the frame the last step wrote. `contested` and
`announced` are ghosts that remember the claims seen and the addresses announced.

| Action | Code |
|---|---|
| `Boot` | `main.c` 58-81, with each call that may end the program |
| `LoseAddress`, `DefendAddress`, `OtherClaim` | the three branches of `rx_claim_routine` |
| `RxRequest` | `rx_request_routine` |
| `RxOther`, `Exit` | no frame for this component; a failed read or the end of the loop |
| `GoOperational`, `ReportStatus`, `NoReport` | `main.c` 150-176 |
| `Alarm` | `sighandler` on SIGALRM |

A `write` that fails ends the program (`err(1)`), and the model has that
outcome at every write. The bus may claim any address under a NAME smaller
than, equal to or greater than ours, and ask for any destination, at any time.

Correctness: `PoolExact` (the pool is what our address and the claims seen
leave of the dynamic range), `SquatOnlyWhenExhausted`, `ClaimMsgFresh`,
`StatusFromAnnounced`, `NeverMovesToContested`, `NeverDefunct`, and the liveness
properties `BecomesOperational` and `Settles`. The timer of the first claim is the
only one: a claim that takes the address while it runs does not restart it, so the 250 ms
may have begun under an address already lost (compare the doc of `schedule_timer`,
`main.c:394`).
`LossStartsOver`, after the comment of `rx_claim_routine`, fails: an operational
ECU stays in operation when it moves to another address.

### J1939 and MainLoop

`J1939` has a `struct can_frame` as its 16 bytes, `parse_J1939` as arithmetic on
the identifier, and the fields the receive routines cut out of the data. The
masks leave the page bits in the PGN; the three flags are gone before.

`MainLoop` is `main` from the opened log to its end. `cf` is the one buffer that
`read` fills (with any of the lengths in `ReadLengths`), `logging_handler` is
given, the dispatch parses and the status report overwrites. `log` is the
sequence of frames logged.

| Action | Code (`src/main.c`) |
|---|---|
| `InitCan`, `Killed` | `init_can` with its retries; a signal before the handlers are installed |
| `Boot` | the handlers, the initial claim and `schedule_timer` |
| `SelectNothing`, `Read`, `ReadFails` | `select`, `read`, `logging_handler`, the flags masked out |
| `RxBrake`, `RxSignal`, `RxClaim`, `RxRequest`, `RxUnknown` | the dispatch on the PGN with each routine |
| `RunTurnSignal`, `RunBrake`, `SetDuty` | 130-140, through the operators of `Bumper` |
| `Report` | the state machine, the status report built in `cf`, the loop counter |
| `Finish` | `terminate_logging_gracefully`, the end |
| `Alarm`, `Terminate`, `Tick` | `sighandler` and the clock, between any two steps |

Correctness: between two frames the brakes, the turn signal and the address pool
are what the frames in the log say (`ActsFollowLog`), read byte by byte by
operators that share nothing with `parse_J1939`; `main` does nothing that `Bumper`
or `AddressClaim` does not allow (`RunsComponents`, the `Spec` of both: their
safety, without their fairness); and the
program runs through all its iterations and ends by closing the log
(`EndsClosed`). A SIGTERM or SIGINT neither prevents nor hastens that: `sighandler`
sets `sig_term`, which nothing reads, although its comments speak of closing the
program gracefully (a finding).

### ClaimBus

The claim steps of several ECUs with a queue each, in the order of the bus. A
frame sent reaches every other ECU whose socket is bound. All ECUs have the
constant NAME of `main` and send NAME 0. Other nodes claim or request what they
like, `MAX_FOREIGN` times.

Two ECUs may well hold one address; `SharedAddressIsNoticed` says that once both
have claimed it, a claim for it is still in the socket of one of them.
`EcusClaimAddresses` shows each ECU to implement `AddressClaim`, and `GoesQuiet`
that they stop answering each other, unless one has no address left.

### Logging

A frame is its number in order of arrival; random bytes are numbers never drawn
before; the file is a sequence of records: the key, then an iv, then blocks and
ivs in turn. `durable` says how many records have left the buffers of stdio.
Control points separate every call between which the process may die:

| Action | Code |
|---|---|
| `SetupKey`, `SetupIV` | `logging_setup`, `initialize_write` |
| `LogFrame` | `logging_handler` 131-137 |
| `WriteFullBlock`, `FullBlockIV`, `Refresh` | the rest of it: checksum and `write_encrypted`, the next iv, `fflush` and `reset_mblock` |
| `WriteRemainder`, `NoRemainder`, `LastIV`, `Close` | `terminate_logging_gracefully` |
| `ErrorExit` | `return 1` after a failed read, `err(1)`: stdio is flushed, `mblock` is not |
| `Crash` | a signal, `handleErrors`, a null `wfd` or buffer: unflushed records are gone |
| `Spill` | stdio writes its buffer when it likes |

`RAND_bytes` may answer -1 (which the code takes for success), `fwrite`,
`fflush` and `fclose` may fail (which it reports and ignores); the ghost
`failed` remembers it. `rx_counts` wraps at `RX_MOD`.

Correctness: every undamaged block can be decrypted with what precedes it in the
file (`Decryptable`), the frames are in order and none is stored twice
(`FramesInOrder`), a reader can tell how many frames of the last block are real
(`RxCountTellsFrames`), no frame gets lost between arrival and file
(`NothingLost`), a crash costs at most one block (`BoundedLoss`), no iv is used
twice (`FreshIVs`), a graceful end leaves a complete file
(`CompleteAfterClose`).

### Checksum

`crc32` over the bytes of `mblock`, one step of its loop at a time, a word being
the set of its bits that are 1. The loop writes its running value to
`mblock.crc32` and, at the four bytes of that field, reads it. A second copy of
the loop runs over a block in which, at any place outside the field, one bit may
flip.

Up to the field the value is the standard CRC-32 of what precedes it, by a
register that takes one bit of the message at a time (`MatchesReference`); the
start from 0 and the missing complement at the end make up for a complemented
table. At the field the register cancels its own bytes, and what it hands on has
24 bits left of its 32: the stored number is not the CRC-32 of the block, with or
without zeros in the field. It still tells every single flipped bit
(`DetectsDamage`).

### StubCiphers and SymCmp

`StubCiphers` has the generator behind `RAND_bytes` and the two fake ciphers of
`glue.c`. A byte is a function from bits to BOOLEAN, so that rotation and
exclusive-or are what the C operators do to a byte.

`SymCmp` runs the program twice on the same symbolic input, as `superglue.c`
does, with the statics of `glue.c` and `logging.c` once per build (what the
renaming pass is for), and then walks both logs.

| Action | Code |
|---|---|
| `SetUp` | `logging_setup` over the stubs |
| `Idle`, `Iterate` | an iteration of `main`: `select`, `read`, `logging_handler` |
| `Finish` | `terminate_logging_gracefully` |
| `CheckKey`, `CheckIV`, `CheckBlock`, `CheckNextIV`, `EndOfLog` | the steps of the walk, each with its `klee_assert`s |

Sizes and positions are those of the source, in bytes. Of each field of an
`MBlock` that is not constant zero one byte is kept, the checksum and the
counters left out; the stubs never fail, so the log has none of the faults of
`Logging` here. A failed assertion, of the walk or of the `fwrite` stub, leads
to `aborted`, and so does a length read past the end of the array.

Correctness: no assertion fails whatever the input (`AssertionsHold`), the
verdict covers every frame that was read and the text it belongs to
(`ChecksEveryFrame`), the walk ends (`Completes`). With a patched build that
still used DES `AssertionsHold` fails: the comparison detects what it is for.

## 3. The runs

Each `MC*` module instantiates its component; each `.cfg` is one run.
Definitions marked `mutant` are the model with a plausible bug put in; each
stands next to the definition it would replace, and shows that a property can fail.

| Run | Instance | Shows |
|---|---|---|
| `bumper`: `MCBumper.cfg` | time unit `FLASH_TIME` = 1, `SIGNAL_TIME` = 2, the 125 000 : 250 000 ratio of `bumper.h`; speeds 0, 1, 65535; signals 0, 1, 2, 3, 14, 15; 49 791 states | the safety and liveness of `Bumper`, and that it implements `Burst` |
| `bumper_comment`: `MCBumperComment.cfg` | the same | a burst starts with brakes already on, against the comment at `main.c:224` |
| `choose_new_sa`: `MCChooseNewSa.cfg` | 8 slots, 5 of them dynamic, every start and pool; 418 states | the recursion computes `ChooseNewSA` and returns |
| `claim`: `MCAddressClaim.cfg` | dynamic range 2..5 of 0..8, our NAME 1 among 0..2; 819 states | all safety and liveness properties of `AddressClaim` |
| `claim_frame`: `MCAddressClaimFrame.cfg` | dynamic range 2..4 | the first claim carries address 0 and no claim the NAME (`main.c:77`, `main.c:64`) |
| `claim_loss`: `MCAddressClaimLoss.cfg` | dynamic range 2..4 | an operational ECU that loses its address goes on in operation under the next one at once (`main.c:243-245`) |
| `log`: `MCLogging.cfg` | blocks of 2 frames as in `inc/conf.h`, 5 frames, counter wrap at 3; 307 342 states | all properties of `Logging` |
| `log_exit`: `MCLoggingExit.cfg` | blocks of 2 frames | a failed read leaves frames out of the file (`logging.c:156`) |
| `symcmp`: `MCSymCmp.cfg` | all sizes of the source, 4 iterations with every pattern of ready ones, frames of all zeros, all ones or neither, an array with room for exactly two blocks; 23 976 states | all properties of `SymCmp` |
| `mainloop`: `MCMainLoop.cfg` | 3 iterations, 6 frames (brakes, another page of their PGN, a turn signal with a flag set, a winning and a losing claim, a request), reads of 11 and of 16 bytes, two contents of the stack, addresses 127 and 128; 586 104 states | all properties of `MainLoop` |
| `bus`: `MCClaimBus.cfg` | two ECUs, three dynamic addresses, one frame of another node; 95 167 states | all properties of `ClaimBus` |
| `checksum`: `MCChecksum.cfg` | the 112 bytes of `struct MBlock` with the field at 104, an empty block and a varied one, each of 864 bits flipped; 101 058 states | both properties of `Checksum`; its `ASSUME` is the certificate of section 4 |

The four `violation` runs (`bumper_comment`, `claim_frame`, `claim_loss`,
`log_exit`) each state what comments say of the program and end in the
counterexample that `PROJECT.json` describes under "findings". Two more findings are
read off properties that hold while a comment says the contrary: `NeverDefunct`
(no pool, not even an exhausted one, makes the ECU give up its address) and
`EndsClosed` (a kill signal does not end the loop).

**Bounds.** The behaviour of the lights is finite as it stands: only the inputs
are sampled, one for each class the code distinguishes, and time is measured in
units. The proofs cover every timer limit, so every finer unit too. The claim
model is finite for a given range; four dynamic addresses let the pool run out
in the middle of other claims, and addresses below and above the range are
there. `MAX_FRAMES` is the only bound on the length of a behaviour: five frames
are two full blocks, the second started with a wrapped counter, and a remainder.
In `SymCmp` four iterations give every way to end in a full, a partial or no
block; `OUTPUT_SIZE` is the least the assumption of the module allows, so that
an off-by-one in the room for the logs shows.
In `MainLoop` three iterations let a frame, a report over it and a cut read of
the next follow each other. Both timer limits are 0, so that a timer has either
just been reset or run out; `Bumper` has the timing. A read of 11 bytes ends in
the middle of the speed; the proof of `ActsFollowLog` has every length. Two dynamic
addresses are enough to lose one and then the last. In `ClaimBus` the ECUs
themselves make any number of claims: with three addresses each can walk through
all of them, and one foreign frame is enough to start a walk, at any point. Two
ECUs are the least that can share an address; the proof has any number.
The layout of `Checksum` is the real one.
`CHECK_DEADLOCK FALSE` is set where the program ends.

**Fairness.** `main` is a single thread that never blocks for longer than the
`select` timeout, so each control point is weakly fair. In `Bumper` that one
thread (`Main`) is weakly fair, with `Exit` among its steps, and so is the clock
until then, because `clock()` counts processor time and every iteration uses
some. `SymCmp` is one sequential program. In `AddressClaim` an armed interval
timer expires. `MainLoop` assumes only that `main` goes on; whether the socket
can ever be bound is left open. In `ClaimBus` a started ECU boots and reports
(weakly fair) and, since `select` returns at once while a frame is waiting,
takes the frames there are (strongly fair: a frame for other components may come
between). Nothing is assumed of other nodes. Liveness properties that could be
cut short by the end of the program allow for it, those of the lights included.

## 4. The proofs

| Module | Theorems |
|---|---|
| `BumperProofs` | `Invariance`, `TypeCorrect`, `LampsTellTheTruth`, `PairsAgree`, `Frozen`: the safety of `Bumper`; `BurstNeedsBrakes`, `FreshBursts`, `SingleBursts`, `FlashesAreSeen`; `Refinement`: `Bumper` implements `Burst` |
| `ChooseNewSaProofs` | `SearchInvariant`, `SearchIsCorrect`: the recursion returns what `ChooseNewSA` says; `ChooseNewSAResult`: that is the available address nearest ahead, every slot on the way to it being in use; the lemmas about distances around the pool |
| `AddressClaimProofs` | `Invariance`, `TypeCorrect`, `PoolIsExact`, `SquatsOnlyWhenExhausted`, `ClaimMsgIsFresh`, `StatusIsAnnounced`, `DefunctIsUnreachable`, `MovesToFree` |
| `LoggingProofs` | `Invariance`, `TypeCorrect`, `LogIsDecryptable`, `LogIsInOrder`, `RxCountsTell`, `IVsAreFresh`, `NoFrameLost`, `LossIsBounded`, `ClosedIsComplete` |
| `ChecksumProofs` | `Invariance`, `TypeCorrect`, `ComputesCRC32`: `MatchesReference`; `DamageIsLinear`, `OnlyTheFieldForgets`, `DamageIsDetected`: `DetectsDamage` |
| `MainLoopProofs` | `Refinement`: `MainLoop` implements `Bumper` and `AddressClaim`; `TypeCorrect`; `LogIsTheProgram`: `ActsFollowLog`; `LampsTellTheLog`: the lamps and the log, end to end |
| `ClaimBusProofs` | `SharingIsNoticed`; `EcusImplementClaims`: every ECU on the bus implements `AddressClaim` |
| `SymCmpProofs` | `DecryptInverts`, `CiphersDiffer`: what `CheckBlock` relies on, for every text and key; `TypeCorrect`, `AlwaysAssertionsHold`, `AlwaysChecksEveryFrame`: the safety of `SymCmp` |

Assumptions are the named `ASSUME`s of the modules: ranges are natural numbers
in the order of the source, a block holds at least one frame and fewer than the
counter can tell apart, a NAME is not the smallest.

*Lights.* `LampsShowBrakes` is not inductive: that a pin agrees with the brakes
at `rx` follows from what `brake` did to a struct whose locks and counts are
consistent. `IInv` therefore says what holds of the struct at every control
point (`BumperInv`), what `brake_routine` establishes (`Settled`) and that the
pins are a copy. The action properties follow from it, one lemma per
routine. For `Refinement` each routine is a step of `Burst` or a stutter, although
`brake_routine` could be up to three: while a burst is on neither call of `brake`
touches the inner lamps, and in the pass that ends it they are lit already.

*Search.* `Passed` says that every slot behind the search is in use and how
far it has come; after one round this means that the pool is empty, which is
what makes the limit of 0xFF calls harmless.

*Claims.* `PoolExact` and `SquatOnlyWhenExhausted` support each other: the
search takes a slot from the pool, and the pool holds no contested address.
`AnnouncedInv` adds that every address after the first has been announced.

*Main loop.* `LoopInv` types the buffer, with the bytes of the speed among those a
frame or a report can have put there, and ties the length of the log to the
iteration. Under it every action of `main` is an action of each component or
leaves that component's variables alone, so the invariants of both components
are invariants of `main` and serve its proofs. `ActInv` extends `ActsFollowLog`
to the middle of an iteration: between `read` and the dispatch the log has one
frame more than has been acted upon, and that frame is `cf` with its flags.
`FrameMeaning` is the arithmetic by which `parse_J1939` and the byte-wise reading
of the log agree. `LampsTellTheLog` then joins `LampsShowBrakes` with
`ActsFollowLog`.

*Bus.* `SharedAddressIsNoticed` is inductive together with the types and with
`Unclaimed` (an ECU that has not booted has not claimed). An ECU that changes its
address or defends it tells every listener at once (`Told`); any other step keeps
its address, and every claim for it in its queue (`Keeps`), since a claim for the
address in use is never read without an answer. For a pair of ECUs one of the
two cases applies to the one that moved, and the other's queue only grew.
The refinement has one lemma per action; the frame at the head of the queue is
the witness for what the environment of `AddressClaim` chooses.

*Log.* `BufferInv` says which frames `mblock` holds, `ParamsInv` which key and
iv the next block will find before it, `PlaceInv` where in the order of frames
it goes, `SavedInv` how far the file and its durable part are, `IVInv` that ivs
grow, `RxInv` what `rx_counts` is in `mblock` and in the last block of the file.
Each conjunct is preserved on the strength of the others; a lemma reduces
the effect of any step on the file to three kinds. `RxCountTellsFrames` compares
remainders: the counter of a block and of the one before differ by the frames of
the block, modulo `RX_MOD`, and a block has fewer frames than that
(`RxCountMoved`, from the uniqueness of quotient and remainder).

*Checksum.* The loops of eight shifts are recursive functions over 0..8; the
proof exhibits them once (`EightSteps`) and compares two of them by induction over
the eight indices. `UpdatedIsFed` is the heart: one step of `crc32` is one step of
the CRC-32 register between two complements, for any value and byte. So up to
the field the value is the complement of the register. The register is linear,
so the difference between the checksums of a block and of its damaged copy is
fed like a register itself (`DifferenceFed`), with nothing for a byte outside the
field and with its own low bits in the field, and the block drops out
(`DamageIsLinear`). Outside the field a difference never vanishes
(`FedNonzero`), for the highest bit of the polynomial is set. Whether it survives
the field depends on where the field is: there are layouts for which it does not.
`DamageIsDetected` therefore has a premise, `Certifies(D)`: the differences a flip
leads to within `FIELD` bytes are in `D`, and each crosses the field. It mentions
no block. `MCCertified` is that premise for the layout of `struct MBlock`, 832
differences which TLC evaluates one by one, so that the theorem and the run
together establish `DetectsDamage` for every content of the block.

*Ciphers.* Rotations by the same amount in both directions cancel, and so do two
exclusive-ors with the same key byte; a byte that rotating by one and by two
bits makes the same has all its bits equal, and `generation` has one that has not.

*Comparison.* A build is a function of the input it has been through. The frames
that were ready are counted by rank; quotient and remainder of a rank are the
block and the slot of its frame, so the log after m blocks can be written down
(`IsLog`), the same for both builds but for the cipher. `BuildInv` says that the
running build is on its way to that log, with room in the array for the rest;
`CompareInv` says that the walk over both logs stands at the same record and has
collected the frames before it. Each assertion then compares two records that
are known: lengths by their shape, ciphertexts by `CiphersDiffer`, plaintexts by
`DecryptInverts`.

Only model-checked: liveness, which needs fairness and is beyond the prover
(`BurstEnds`, `BrakesShow`, `LeftBlinks`, `TurnSignalReleases`, `Terminates`,
`BecomesOperational`, `Settles`, `Completes`, `EndsClosed`, `GoesQuiet`), and the
premise of `DamageIsDetected`, a computation. Every safety property a passing run
checks is a theorem.

## 5. What is left out

- The set-up of the pins in sysfs, `getopt`, `ioctl` and `setsockopt`: system calls
  without state of the program's own. `gpio.c` ignores the results of its
  writes; the model has the duty cycle the program last asked for.
- The padding of the real ciphers against `EXTRA_ENC_BUFF` (`logging.c:109`): a
  relation between one fixed size and the OpenSSL library. `decrypt` of the two
  envelope files is called by a demonstration function only.
- `LOGSELF` = 1 (`inc/conf.h:9`), a build this source does not make: the socket
  would return our own NAME 0 claims, which take the address from us.
- The last eight bytes of the plaintext buffers `superglue.c` compares, which
  nothing initializes, and the stubs of `glue.c` that return a constant.
- The renaming pass (build tooling) and the unit tests, read for what they promise.

What a further step could add: an abstract log that `Logging` implements (a
growing prefix of the frames received), and the composition of `MainLoop` with
`Logging` in place of the sequence `log`.
