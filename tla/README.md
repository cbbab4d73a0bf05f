# HNMos Kernel 01 in TLA+

Models, model-checking runs and proofs for the kernel under `src/kernel01` and
the host-side AI bridge `src/tools/ai/openai_bridge.py`. Paths below are relative
to `src/kernel01/kernel` unless they start with `src/`.

HNMos is a 32-bit x86 kernel with a framebuffer user interface. One loop
(`main.c:108-124`) does everything; three interrupt handlers (keyboard, mouse,
COM2) put data into buffers that the loop drains. An AI Studio sends prompts
over COM2 to a process on the host and stores the answers in a RAM file system.

## 1. Inventory

| Component | State | Operations | Interacts with | Hard behaviour | What makes it correct |
|---|---|---|---|---|---|
| System sync layer (`sync/system_sync.c`, `sync_asm.s`) | last snapshot, lock word, ready flag, EFLAGS.IF of the processor | init, cpu/ram fence, gpu fence, full fence, capture, checkpoint, is_ready | router, terminal, AI screens (calls) | processors interleave on the lock; the interrupt flag is saved and restored | exclusion, interrupts off while the lock is wanted or held, a copy is one epoch, the caller's flag comes back, the lock is released |
| UI event queue (`interface/events.c`) | ring, head, tail, sequence, dropped, recent | push, poll, pending_count, recent | pushed by interrupt handlers, polled by the dispatcher | ring and u32 wrap-around, overflow | a bounded FIFO; stamps consecutive |
| Keyboard driver (`../drivers/keyboard.c`) | shift flag | IRQ1 handler | pushes events | two events per key into a queue that may fill | KEY_CHAR follows its KEY_DOWN |
| Mouse driver (`../drivers/mouse.c`) | packet bytes, position, buttons, dirty, ready | IRQ12 handler, poll | pushes events, moves the cursor from the loop | packets split over interrupts; position written by the handler and read by the loop | events and driver agree on the buttons; the cursor is where the mouse is |
| Cursor (`graphics/cursor.c`) | initialised, visible, place, saved pixels | init, hide, show_current, move, invalidate | framebuffer shared with every screen | the saved pixels get stale when something draws in between | no arrow left behind, background restored |
| Main loop, dispatcher (`main.c`, `interface/input_dispatcher.c`) | none of its own | one pass: cli, hide, dispatch, mouse poll, AI poll, show, sti;hlt | everything | an interrupt just before `hlt` | never sleeps on work; queued events are dispatched |
| Serial transport (`ai/ai_serial_transport.c`) | receive ring, line buffer, drop counter | init, send, IRQ capture, poll | UART, serial provider | ring overflow inside a frame, partial lines, stale bytes in the line buffer | only a frame for the asked id is an answer |
| AI bridge, providers, task (`ai/ai_bridge.c`, `ai_serial_provider.c`, `ai_stub_provider.c`, `ai_task.c`) | one task slot, next id, last provider | submit, poll, cancel, request_* | transport; AI Studio and terminal (calls) | cancels race with answers, one slot for all requesters | a finished request has its own answer and stays finished; an answered request finishes |
| Host bridge (`src/tools/ai/openai_bridge.py`) | bytes pending, session key | one answer per frame | COM2 socket | errors before the id is known | every request is answered under its id |
| AI Studio screen (`interface/screens/ai_studio_screen.c`) | prompt, capture mode, pressed and hovered button, generation, saved flag | event handler, generate, review, build, sync of the provider's result | AI bridge, session, file system | an answer between two events; a slot that another requester has taken | a draft is saved once, complete, for the request that made it |
| Credential session (`ai/ai_session.c`) | mode, buffer, length | begin, capture, backspace, submit, cancel | AI Studio, transport | every exit must wipe | the buffer holds no key outside key capture |
| Workspace policy (`ai/ai_workspace_policy.c`) | none | decide, decide_path | AI Studio, terminal | path prefixes | decisions as documented |
| RAM file system (`fs/vfs.c`, `fs/ramfs.c`) | nodes, draft buffer | list, read, write draft | terminal, AI Studio | bounded copies | a read returns what was written; a failed write changes nothing |
| Page allocator (`memory/pmm.c`) | bitmap, counters | init, alloc, free | heap | u32 rounding at region ends; the memory map's own place, reserved regions over available ones; pages given back by somebody else | what is handed out is available memory off the kernel; counters equal the bitmap; no page given twice or lost |
| Heap (`memory/heap.c`) | current page, offset, counters | kmalloc, kfree | page allocator | u32 rounding of sizes, up to those that wrap | blocks disjoint, inside their page |
| Tasks, scheduler (`task/*.c`) | task table, current, runnable count | create, init, yield | main loop | wrap of the round robin | no task but the current one RUNNING, exactly that after a yield; the turn of a ready task comes within `TaskMax` yields |
| Router, launcher (`interface/router.c`, `launcher.c`) | current and previous screen, pressed and hovered item | set, back, dispatch, shortcuts | screens | a lost button-up, screen changes between down and up | activation needs down and up on the same item |
| Terminal (`../console/terminal.c`) | line, cursor, screen text | key handling, commands | file system, AI bridge, sync layer | line buffer limit | line bounded; commands see whole lines |
| AI context, profile, provider table, assembly record, machine state | constants, a display record | build, format | AI bridge, screens | — | — |
| Boot, interrupt set-up, framebuffer, fonts, widgets, log, panic, scripts | descriptor tables, pixels | set-up and output | — | — | — |

`PROJECT.json` lists the same components with what is modelled of each, and the
hazards of the code, each at its line.

### How the parts interact

* Interrupt handlers → event queue → dispatcher → router → screen. Interrupts
  are enabled only between `sti; hlt` and the `cli` at the top of the loop, so
  handlers and loop exclude each other in time; what is concurrent is the
  number and order of interrupts between two passes.
* Screens draw on the framebuffer that the cursor saves from and restores to.
* AI Studio/terminal → AI bridge → provider → COM2 → host, and back through IRQ3
  → ring → poll in the loop. The task slot is the only shared state.
* The sync layer is called from the loop only; its lock is written for several
  processors and is modelled with several.

## 2. Modules

| Module | Models | State ↔ code |
|---|---|---|
| `SystemSync` | `sync/system_sync.c` over `sync_asm.s`, one access to a shared word per action | `snapshot`, `stateLock`, `ready`: the statics; `interruptFlag`: EFLAGS.IF per processor; `irqFlags`: the local of the running call; `op`, `pc`: where a processor is; `copy`: the caller's struct |
| `AtomicObject` | abstract: a record whose operations take effect all at once between call and return, as `docs/SYSTEM_SYNC.md` promises of the snapshot | `record`; `phase`, `call`, `result` of each caller |
| `EventFifo` | abstract: what `events.c` promises, a bounded FIFO with a drop counter | `pending`, `dropped` |
| `EventQueue` | the ring of `interface/events.c`, each call one action (callers have interrupts off) | `slots`, `head`, `tail`, `sequence`, `dropped`, `recent`: the statics |
| `InputDrivers` | IRQ1 and IRQ12 handlers over `EventFifo` | `shiftPressed`, `packet`, `position`, `buttons`, `mouseReady`, `dirty`: the statics; `raising`: events the running handler has still to push |
| `CursorDisplay` | `graphics/cursor.c` as operators from display to display | `cells` framebuffer, `visible`, `at`, `saved`, `initialized`: the statics |
| `MainLoop` | `main.c:97-124` with `InputDrivers`, `CursorDisplay` and the three interrupts | `pc`: the statement of the loop; `screen`, `aiRunning`, `aiBytes`: what the loop's guards read |
| `SerialTransport` | ring, line buffer, capture and parser of `ai/ai_serial_transport.c` | `rx`, `rxDropped`, `line`, `lineLength`: the statics; `wire`: what the UART has not delivered |
| `AiBridge` | task slot, serial and stub provider, poll loop, host, over `SerialTransport` | `task`, `nextId`, `provider`: the statics; `polling`: inside `hnm_ai_serial_transport_poll`; `outstanding`: frames in the host's input |
| `AiRequest` | abstract: the task slot as the screens see it | `request`: the task without its text, `nextId` |
| `CredentialSession` | `ai/ai_session.c` as operators | `sessionState`, `secretIndex`: the statics; `keyPlaces`: the bytes of the buffer that are not NUL |
| `Workspace` | `ai/ai_workspace_policy.c` and the one write of `fs/vfs.c`, `fs/ramfs.c` | `draft`: whose answer `/workspace/main.hn` holds, and how much of it |
| `AiStudio` | `interface/screens/ai_studio_screen.c`: every handler and the render, over the three above | `promptLength`, `capturingPrompt`, `savedTask`, `studioPressed`: the statics |
| `Console` | `graphics/console_graphics.c` as the terminal uses it: wrap, scroll, backspace | `console`: the cursor, and which cells show the line being typed |
| `Desktop` | `interface/router.c`, `launcher.c`, `../console/terminal.c` with `AiStudio` and `Console`: one action per event and the poll of `main.c:115-119` | `screen`, `launcherPressed`, `lineLength`: the statics; `halted`: `hnm_kernel_halt` or a reboot |
| `PageAllocator` | `memory/pmm.c`: from the boot loader's report (`machine`: regions, and where the map and its structure lie) to free pages, the circular search, and give-backs of any pointer | `free`: the clear bits of the bitmap; `freePages`, `usedPages`, `nextSearch`: the statics |
| `Heap` | `memory/heap.c` over `PageAllocator` | `heapPage`, `heapOffset`, `heapStats`: the statics |
| `Scheduler` | `task/task.c`, `task/scheduler.c` | `state`, `yields`: the registry; `current`, `yieldTotal`: the statics |
| `<M>Proofs` | the theorems about `M` | |
| `MC<M>` | the instances that TLC checks; `Scheduler` has proofs and no run | |

Composition:

* `SystemSync` implements `AtomicObject` (`ImplementsAtomicObject`). The record is
  the snapshot as the holder of the lock will leave it (`Whole`), so an operation
  takes effect at the `xchg` that gives it the lock.
* `MainLoop` EXTENDS `InputDrivers`, which INSTANCEs `EventFifo` (the ring is
  replaced by what it provably implements), and INSTANCEs `CursorDisplay`. Of the
  screens it sees that they may redraw anything and change screen, of the bridge
  whether a request runs and whether bytes wait.
* `Desktop` EXTENDS `AiStudio` (hence `AiRequest`, `CredentialSession`,
  `Workspace`) and `Console`. Of the input path it assumes what `MainLoop` shows:
  events arrive one at a time, in order, and some may have been dropped, so any
  event may follow any other. Of the bridge it uses the abstract `AiRequest`.
* `AiBridge` EXTENDS `SerialTransport` and implements `AiRequest`
  (`ImplementsRequest`): what is shown of the screens over the abstract slot holds
  over the real link. `SubmitHnlang` is guarded by "no request is RUNNING", which
  is what `PromptIsAlone` of `Desktop` shows about its only caller.
* `Heap` EXTENDS `PageAllocator`: both hand out pages of one bitmap.

Variables commented *history* (`callerFlag`, `handled`, `seen`, `edgeLost`, `sent`,
`held`, `astray`, `blocks`, `roomless`, `downOn`, and `drawn` in the display) record
the past for the properties. No guard reads them but that of `GiveBack`: the caller
that gives back its own page is the one that holds it. `GiveBackStray` passes any
pointer to `hnm_pmm_free_page`, as nothing in the code keeps a caller from it.

Operators named for a slip (`XchgUntested`, `StudioUpPressed`, ...) stand before
the definition they vary. No specification uses them: each is a small mistake
that the code could have had, and `PROJECT.json` "mutants" says which property
fails with it.

### Abstractions

* `SystemSync`: fences proper (cpuid, locked add) change no modelled state; page
  counts, heap bytes, framebuffer geometry and the state flags are one bit,
  "holds readings" — they are written together under the lock.
* `InputDrivers`: an event keeps its type, its key or button and whether Shift
  changed its character; the coordinates in it are left out. The packet
  arithmetic (sign extension, inverted y, clamping, overflow bits) is kept. The
  PS/2 handshake of `hnm_mouse_init` may succeed or fail.
* `CursorDisplay`: a cell stands for the 12x16 area of one cursor position, and
  positions do not overlap partially. A redraw writes any set of cells.
* `MainLoop`: the event handler of a screen may redraw anything, change screen,
  start or end a request, or halt (launcher only, never on a mere move).
  Interrupt gates clear IF, so a handler is not interrupted.
* `SerialTransport`: the ten characters of the frame prefix and the eight of
  the id are one character each; the texts are pairs of hexadecimal digits that
  know which answer they belong to and their place in it. The host sends no
  carriage return, so the branch that skips it never runs. QEMU's UART holds
  the host back, so characters are lost in the ring and not in the UART.
* `AiBridge`: the way from kernel to host is reliable; key frames and HTTPS are
  represented by their outcome, an answer that is a success or an error. A
  request cancelled by the user is still answered. The assembly record built
  at submission only feeds the display.
* `Workspace`: in a path one character stands for the letters of "workspace",
  "main" and "hn" each; separators and dots are kept. Every write goes to
  `/workspace/main.hn`, which the policy lets pass.
* `AiStudio`: texts of keys, prompts and answers are their lengths; what only
  colours or labels something (hover, the activity line) is left out. The serial
  transport is ready from boot on, so that sending a key does not fail. The
  framebuffer is large enough for the AI Studio to be drawn.
* `Console`, `Desktop`: a cell shows a character of the typed line or something
  else. The text of a command is left out: a line that is not empty may be any
  command, and what a command prints counts by its rows. Only the left button
  is read by any screen. F1 redraws the screen with its help, which holds no
  state. On the screens other than the terminal the console is not looked at.
* `PageAllocator`, `Heap`: the readings in KiB and `failed_allocations`, shown
  only, are left out. 64-bit bases and lengths are split into u32 words as in the
  code, and all u32 arithmetic wraps at `Word`. Of the memory map the entries, its
  address and its length are kept; how an entry is laid out is not. A request may
  have any u32 size. `astray` notes the pages that became free by the call of
  somebody else than their owner, `roomless` counts the requests of the last sizes
  below 2^32: rounded up they wrap to zero and are granted without room, although
  `docs/MEMORY.md:118` allows no more than a page. No caller asks for such a size.
* `Scheduler`: task contexts are initialised by the code and never switched, so a
  task is its state and its counter. Today's kernel registers two tasks and only
  yields; adding tasks and setting their states is the interface the files offer.

## 3. Runs

| Run | Question | Bounds |
|---|---|---|
| `sync` | All operations on two processors, a shared access at a time: exclusion, interrupts masked, flags restored; each operation is one step on the record; someone who waits gets the lock | 2 processors (a lock whose code is symmetric fails with two if at all; the proofs cover any number), counters mod 2 |
| `event_queue` | The ring implements the FIFO; stamps are consecutive | 4 slots, 2 events, stamps mod 5: ring and counter wrap out of step |
| `loop` | Nothing is left behind at `hlt`; button events add up; KEY_CHAR follows KEY_DOWN; queued events are dispatched, reply bytes read | two usable places in the queue, so that a key's two events may meet a full queue or fill it; keys `a` and Shift; mouse bytes 8 and 9, each of which can start a packet, move, press and release; a framebuffer of one cell, since no property of this run is about it |
| `loop_cursor` | At most one arrow; the cursor at the mouse; hiding restores what was drawn, outside the AI Studio; button events add up, over packets with an overflow bit too | 2 cells, one of them the status cell; 2 usable places in the queue; mouse bytes 8, 9, 73 (x overflow) and 255 (both overflows), each of which can start a packet or move; a key |
| `loop_studio` | The last of these with the AI Studio: **violated** | as `loop_cursor` |
| `bridge` | A finished request has its own answer, exactly when nothing was dropped; an answered one finishes unless something was dropped; the slot is an `AiRequest` | 4 requests; ring 23 and line 13 places for frames of 8 and 10 |
| `bridge_blank` | An answered request finishes, with a prompt of spaces: **violated** | 1 request |
| `bridge_late` | An answered request finishes, with three requests: **violated** | 3 requests |
| `desktop` | Any keys and clicks over all screens, with answers that arrive on any of them: keys wiped, prompts alone, answers in the draft whole, half clicks and typed text do nothing, the terminal shows the line it will execute, writes stay in `/workspace` | 3 requests; keys of at most 2, prompts of at most 1, lines of at most 2 characters; a console of 3x2 with a prompt of one character, so that a line wraps, scrolls and is taken back over the edge; all paths of up to four characters, and those in `/workspace/` of up to five more |
| `desktop_draft` | No answer is lost before it is in the file: **violated** | as `desktop` |
| `memory` | What is handed out is available memory off the kernel and the boot structure, and all that `docs/MEMORY.md` asks for if the boot loader is tidy; counters; one owner; blocks apart; no page lost; one refused only when none is free | 8 pages of 8 bytes in a `Word` of 128; nine machines: no report, no map, unaligned, overlapping, huge, high and reserved regions, the map and the boot structure inside and outside available memory; 3 granted requests, of sizes zero, unaligned, a page, more than a page and one that wraps; stray pointers to a reserved page, into a page, to one that can be anybody's and beyond the memory |
| `memory_map` | No page with the memory map or a reserved region on it is handed out: **violated** | as `memory`, one machine |

The sizes of ring and line keep the code's proportions. Its ring has 4096
places, its line 2304, its longest frame is 1822 characters: ring and line hold
2.25 and 1.26 frames. With 8 characters a frame, 19 and 11 places hold 2.25 and
1.25 frames; with 10, 23 and 13 hold 2.2 and 1.2. So, as in the code, two late
answers fit in the ring and a third is cut. `MaxTasks` bounds the requests of a
behaviour: three are enough for two late answers and one that is awaited, and
for the reuse of a line buffer that earlier lines have filled; the fourth is
needed for a line too long for the buffer: two frames of 8 leave 6 places in the
ring, and the frame that is cut there is read together with the next one. Task
ids are u32 and do not repeat within a behaviour.

Deadlock is checked for `sync`, `event_queue` and the two `memory` runs. The loop
and the desktop end when the kernel is halted, and the bridge comes to rest when
`MaxTasks` requests have been made, so those runs state `CHECK_DEADLOCK FALSE`.

### What the violated runs show

1. `loop_studio` (`main.c:117`). An answer is rendered after `hnm_mouse_poll`
   has shown the cursor, without hiding it. The render paints over the arrow,
   and the next `hnm_cursor_hide` writes back pixels saved before the render:
   a patch of the old screen remains where the cursor was, until the next
   redraw. `docs/MOUSE_CURSOR.md:61-62` describes the saved pixels as what the
   old cursor area is restored to. With the AI Studio off screen the property
   holds (`loop_cursor`), and no arrow stays behind in either case (proved).
2. `bridge_blank` (`openai_bridge.py:162`). The host refuses a prompt of spaces
   before it has read the request id, so the error frame names request 0 and
   the request stays RUNNING until the user cancels it.
3. `bridge_late` (`ai_serial_provider.c:28`). Nobody drains the ring unless a
   request is RUNNING, so late answers of cancelled requests stay there; two of
   full length leave no room for the answer to the third request, which stays
   RUNNING. Its answer is lost, never confused: `DoneIsOwnAnswer` is proved.
4. `desktop_draft` (`ai_bridge.c:43`). An answer that finishes while another
   screen is shown stays in the one task slot until the AI Studio is rendered
   again; an `ai` command in the terminal before that takes the slot, and the
   answer never reaches `/workspace/main.hn`, although
   `docs/HNLANG_AI_STUDIO.md:56` says that it is written when it arrives. An
   answer that is saved is saved whole (`AnswerInDraft`).
5. `memory_map` (`pmm.c:261`, `pmm.c:226`). `docs/MEMORY.md:68-74` says that whatever
   the map reports, the area of the map itself must not count as usable; its line
   85 that reserved ranges are marked used again. The code keeps the kernel, low
   memory and one page from the boot structure, nothing at `mmap_addr`, and only
   counts the regions that are not available. A map that lies in memory reported
   as available, or a reserved region over an available one, leaves free pages
   that should not be, right after boot. What the code does guarantee is
   `HandedOutIsAvailable`; `Tidy` names the two things it leaves to the boot loader
   — the map in low memory or behind the boot structure, regions disjoint — and
   with them every page handed out is what the document calls usable.

## 4. Fairness

* `SystemSync`: `WF(Advance(c))` — a processor inside an operation keeps
  executing. Nothing obliges a processor to call an operation. `xchg` favours
  no one, so `LockTaken` promises the lock to some waiter, not to each.
* `MainLoop`: `WF(LoopStep)`, `WF(HandlerPush)` — code runs. `SF(Cli)` — after
  an interrupt the loop goes on even if interrupts keep coming: a device is
  slower than the instructions from `hlt` to `cli`. No fairness on interrupts.
* `AiBridge`: `WF(HostAnswer)` — `call_openai` has a timeout and `handle_frame`
  turns every exception into a frame. `SF(SerialIrq)` — the UART holds IRQ3 up
  while it has data, and every pass of the loop opens a window for it.
  `WF(PollStep)` — each pass polls. None on the user's actions.

`Desktop` and `Heap` state no liveness: what happens there is the user's or the
caller's choice, one whole handler at a time. Nor does `Scheduler`: the loop yields
once a pass and then sleeps in `sti; hlt`, no timer wakes it, and a kernel without
input never yields again. What its round robin promises is counted in yields.

## 5. Proofs

Checked by TLAPS for all values of the constants, under the named assumptions
of the modules: sizes are positive, capacities exceed what the code stores into
them at once, and what is said of the environment below.

**`SystemSyncProofs`** (`SyncAssumption`). The inductive invariant `IInv` strengthens
the properties with

* `LockHeld`: a free lock means that nobody is inside — without it `Xchg` could
  admit a second processor;
* `FlagsKept`: from `cli` on, IF is off and the saved flags are the caller's;
* `FencesPaired`: the two counters of a fence pair differ only while a
  processor stands between the increments, by one, modulo the width;
* `CopyInProgress`: the words copied so far equal the record, which holds
  since only the holder of the lock changes the record.

One lemma per action shows, conjunct by conjunct, that it preserves `IInv`;
`TypeCorrect`, `LockIsExclusive`, `WaitersAreMasked`, `CopiesAreOneEpoch` and
`CallersFlagIsRestored` follow.

`SyncIsAtomic`: the module implements `AtomicObject`, for any number of processors
and any interleaving of their accesses. `Whole` is what `Completed` makes of the
snapshot with the part of the operation that is still to come. The `WholeAt...`
lemmas give it for each `pc`, and `BodyStep` shows that a step under the lock takes one
part off what is to come and puts it into the snapshot, so that `Whole` stays and
the step stutters. The `xchg` that takes the lock applies `After` as a whole, and the
release changes nothing. Besides `IInv` this needs `OpFits`: an operation and the `pc`
of its processor fit together.

**`EventQueueProofs`** (`QueueAssumption`). `TypeCorrect` is the invariant; on it rest
`NextSlot` and `SlotOf` (remainders within two rounds of the ring),
`PendingBounds` (full and empty in terms of the number queued), `PushAppends`
and `PollTakesHead`. `RingImplementsFifo` maps the ring to the sequence of its
queued events: each push is a `Push` of `EventFifo` and each poll a `Poll`.
`StampsHaveNoGap` needs that every queued slot holds a stamp at all
(`StampsTyped`) and that the remainder of a successor is the successor of the
remainder (`ModSucc`). `RecentNeverStale`: what `hnm_ui_event_recent` gives is the
newest queued event as long as one is queued (no run checks it).

**`MainLoopProofs`** (`DriverAssumption`, `LoopAssumption`: a framebuffer of at least
one cell, devices that send bytes, screens of the two kinds).

* `WorkDone` says what each stage of a pass has left done: nothing queued from
  the mouse poll on, no movement undrawn from the AI poll on, no reply unread
  from the last stage on, and no handler active outside the window between
  `sti` and `cli`. `LoopSleepsDrained` follows.
* `Intact` is what every call of `cursor.c` needs and keeps: the saved pixels
  of a shown cursor are not an arrow, and no other cell holds one. `HideKeeps`,
  `PaintKeeps`, `ShowKeeps` and `MoveKeeps` state it for each operation; with
  the packet arithmetic (`MovedInside`) they give `CursorKept`, and that
  `ArrowIsUnique` and `CursorIsAtMouse`.
* `BackgroundIsRestored` assumes that the AI Studio is not among the screens —
  the run `loop_studio` shows that it is needed. Its invariant, `DrawnHidden`,
  says that the cursor is hidden while events are dispatched.
* `QueueTyped` and `LoopTyped` bound the queue and what a handler may still push;
  with `CursorKept` they give `TypeCorrect`.
* `Paired`: a queued KEY_CHAR stands behind its KEY_DOWN, or that was the last
  event handled; one that is still to be pushed has its KEY_DOWN at the end of
  the queue, or finds the queue as full as that found it. The second half is
  what makes a drop harmless: no poll comes between the two pushes.
  `CharsFollowKeys` follows.
* `Sums`: what the screens have seen, then the queue, then what the handler has
  still to push turn each button into the state that the driver has. `Turns`
  composes over concatenation (`TurnsCompose`, `TurnsSplit`) and a packet turns
  the old buttons into the new ones (`PacketTurns`), so a push, a poll and a packet
  only shift the boundary. `ButtonsAgree` follows.

**`AiBridgeProofs`** (`TransportAssumption`, `BridgeAssumption`: a line holds at least
a frame's head; answers have an even number of digits).

* `LinkInv`, `LineInv`, `SlotInv` and `HostInv` are inductive together: the host
  never sends NUL, the line buffer always ends in NUL so that every line's text
  ends within it (`LineTextFits`), and only a RUNNING request is polled.
  `TypeCorrect` follows, and `SlotIsKept`: every step is a step of `AiRequest` or
  a stutter.
* `OwnAnswer` follows a *stream*: the unfinished line, the ring and the wire, one
  after the other. Only the host adds to it, whole frames at its end; all that
  the kernel does — capture with drops, moving a character to the line, ending
  or clearing a line — takes characters out (`Thins`: an increasing map into the
  old stream). `Owned` says that behind the id of the request in the slot there
  are only characters of its own answer, in order: the host answers in order,
  and the slot has the newest request (`Waiting`), whose id occurs in no earlier
  frame (`Known`). Thinning preserves this, whatever is lost. An answer with a
  status is whole up to its text (`AnswerIsWhole`): bytes that an older line left
  in the buffer lie behind a NUL.
* `AnswersAreExact` parses the same stream into frames. While the ring has dropped
  nothing, the kernel takes characters from the front only (`Shifts`), so a prefix
  in the stream starts a whole frame, and a frame that names the request in the
  slot carries the answer noted for it (`Whole`). A line that passes
  `hnm_ai_serial_parse_response` starts with a prefix; as only the end of a frame is
  a newline (`FrameMarks`), the line is that frame, and its text and status are the
  ones sent.
* `AnswersAreNotLost` is the safety half of `UndroppedAnswerCompletes` (no run checks
  it): while the ring has dropped nothing, the host has still to answer the RUNNING
  request, or the whole frame of its answer lies in the stream. It assumes that
  frames fit in the line buffer (in the code 1822 of 2304 characters), as otherwise
  the line is cleared in the middle of a frame, and that no prompt is blank, as
  `bridge_blank` shows. The stream is then frame after frame from the start
  of the line on (`Lined`), so the line buffer never overflows (`LineFits`), and the
  line of the awaited frame passes the parser (`OwnLineAnswers`): the one step that
  takes this frame out of the stream is the one that ends the request.

**`ConsoleProofs`, `DesktopProofs`** (`RequestAssumption`, `SessionAssumption`,
`WorkspaceAssumption`, `StudioAssumption`, `ConsoleAssumption`, `DesktopAssumption`: an
answer fits in the file, a prompt and a line fit on the screen).

* `IInv` has one part per concern of the studio, each over its own variables:
  `KeyInv` (memory holds the characters typed of a key being typed, and nothing
  else), `RequestInv`, `PromptInv` (no prompt with a key or a running request) and
  `DraftInv` (what is recorded as saved is in the file whole). `ScreenInv` ties
  them to the screen: entries are closed on every other screen, and on the AI
  Studio nothing is unsaved. `NoKeyStays`, `PromptAlone` and `AnswersReachDraft`
  follow.
* `PressInv`: a pressed item is on the screen that is shown and is what the last
  button-down was on; `ClicksAreWhole` follows. `TypingIsSafe` needs only `IInv`.
* `PolicyIsSound`: a path that the policy lets be written leads to a `.hn` file
  inside `/workspace`, whatever its length and its characters. `Along` walks over the
  characters of a path. That this recursive function exists is shown by extending it
  one character at a time (`WalkExists`), and what it keeps (`AlongIsAt`) by looking
  at the first place that would not keep it (`Least`); `PlaceOfName` reads off where
  the walk ends. `SavesStayInWorkspace` follows.
* `LineOf`: the cells of the line are those between the end of the prompt, which
  stands in some row, and the cursor. Echo, backspace and scroll keep it
  (`EchoKeepsLine`, `EraseKeepsLine`); the assumption that prompt and line fit
  keeps the prompt from scrolling away. `TypedLineIsShown` follows, and
  `TypeCorrect`.

**`HeapProofs`** (`SizesAssumption`: sizes of memory are multiples of a page and
tracked memory ends a page below 4 GiB; `MachinesAssumption`: no available region
starts in the last page below 4 GiB, and neither does the boot structure — the code
does not guard these; `HeapAssumption`: requests and pointers are u32 values).

* `BootFreeIsUsable`: pages that initialisation leaves free lie whole in one
  available region, outside low memory, the kernel and the boot structure, through
  all u32 rounding; with a tidy boot loader they also spare the map and the reserved
  regions. It is a fact about operators, not about steps. `HandsOutAvailable` follows.
* `PoolInv` (counters and bitmap), `OwnInv` (free pages, callers' pages and the
  heap's are parts of the boot pages, disjoint but for the pages in `astray`) and
  `BlockInv` (no block of a page that is not astray lies behind the heap's offset in
  it; such blocks are disjoint). From these `CountersRight`, `PagesHaveOneOwner`,
  `BlocksKeepApart`, `TypeCorrect`, and with `SearchFinds` (the circular search comes
  to every page) `RefusesLate`. A page that its owner did not give back may get a
  second owner; the theorems say that nothing else is disturbed by it. A request
  that wraps changes no offset (`RoomlessKeepsBlocks`), so it costs no block its room.
* `PagesAreAccountedFor`: every page that initialisation left free is still free, a
  caller's or the heap's. `NoPageIsLost` is inductive on top of the three, with
  `CurrentIsUsed`: once the heap's offset in its page is not zero, a block lies on it.

**`SchedulerProofs`** (no assumptions: the size of the registry and the width of the
counters are the code's, and `Limits` is all that is used of them). `Scheduler` is
proved for the code's own bounds and not model-checked. The types and `OneRunning` are
inductive together. `OneTaskRuns`: no task but the current one is RUNNING, ever, and
after a yield the current one is. Between yields it need not be, as other code may
have blocked it. `SearchMissesNoTask` shows that the round robin, wherever it starts,
finds a ready task if there is one.

`TurnComes` bounds the wait in yields, without fairness. The rank of a task
lies in `1 .. TaskMax`: its distance from the current task in the search, and the
tasks that may still be added in between. While the task stays ready its rank never
grows, whatever is added, blocked and woken, and every yield lowers it
(`YieldComesCloser`, `AddTaskKeepsRank`): it runs at the latest in the `TaskMax`-th yield.

Every invariant, action property and refinement of the passing runs is stated by
one of these theorems. Only model-checked is liveness (`LockTaken`,
`EventsDispatched`, `ReplyRead`, `UndroppedAnswerCompletes`): it
needs fairness and ENABLED, which are outside this prover's reach.

## 6. Not modelled

* Boot and interrupt set-up: descriptor tables and port writes. Their effect,
  gates with interrupts off, is assumed by `MainLoop`.
* Pixel output, fonts, widgets, theme and demo, and what the System and Memory
  screens draw: output without state of its own.
* The AI profile and context (constant texts), the assembly and machine records
  (built for display), the provider table.
* Listing and reading in the RAM file system: a constant table but for the one
  draft.
* Logging, the panic screen, the build, image and test scripts.
* The way from kernel to host (a byte that the UART does not accept, the key
  frame) and the activity text of the studio: they are listed as hazards without a
  property, each with its reason.
* How soon a mouse stream that has lost a byte is in step again. `MainLoop` takes
  any byte at any time, so its properties hold of shifted streams too.
* What the user may see on the terminal apart from the line being typed.

## 7. Plan

Done: the modules and proofs above. Left, in order of use:

1. The kernel-to-host direction of `ai_serial_transport.c` with dropped
   characters, and the host's own framing of its input.
2. `MainLoop` over `Desktop` instead of over arbitrary screens, on a small instance.
3. A rank for the answer that `AnswersAreNotLost` keeps on its way — the characters in
   front of its frame in what the kernel has to read — that every read lowers, as
   `TurnComes` does for the tasks.
