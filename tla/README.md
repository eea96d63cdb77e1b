# LanSend: specifications and proofs

LanSend sends files between the devices of a local network. A C++ backend
(`src/core`, `src/ipc`) talks HTTPS to its peers and JSON over two pipes to an
Electron frontend (`gui`). This directory holds TLA+ models of the backend and
of the frontend, the TLC configurations that check them, and theorems that TLAPS
checks.

Paths below are relative to the repository. `receive_controller.cc` is
`src/core/network/server/controller/receive_controller.cc`, and so on.

## 1. The system

`CMakeLists.txt` builds one program, `lansend-backend`: `core` and `ipc`. The
command line and `network_manager.cc` are commented out; `ARCHITECTURE.md` and
`PLAN.md` describe an older design. `ipc/main.cc` runs **one io_context on one
thread**, so a handler or coroutine is atomic from one `co_await` to the next.
All concurrency is between suspended coroutines, between devices, with the
user, and with the end of the process.

| Component | State | Operations | Talks to |
|---|---|---|---|
| Receive controller (`receive_controller.cc`) | one session: status, id, files with their chunks, counter, sender; `.part` files | request-send, send-chunk, verify-integrity, cancel-send, loss of the sender, poll for the user | called by the server; polls the event stream; posts feedbacks; disk |
| HTTPS server (`http_server.cc`) | one coroutine per connection | read a request, route it, write the answer; notice a loss | calls the controllers |
| Common controller | none | ping, connect with a pin code | feedbacks |
| Send session (`send_session.cc`) | status, session id, tokens, files to send | `Start` (one coroutine), `Cancel` (another) | the receiver over one connection; feedbacks |
| Send session manager, client service, client | sessions by id; one connection | send, cancel, ping, connect | send sessions |
| Event stream (`ipc_event_stream.cc`) | queue of operations, slot for the user's answer, cancel flag, queue of feedbacks | post, poll | everything |
| Pipe service (`ipc_service.cc`) | two pipes, a mutex, a flag | greeting, read loop, event loop | event stream, frontend |
| Backend service (`ipc_backend_service.cc`) | a flag | take operations, dispatch | all of the above |
| Discovery (`discovery_manager.cc`) | devices with their last sighting | broadcast, listen, clean up | feedbacks |
| Certificates (`certificate_manager.cc`) | key pair, certificate, fingerprint, trusted set; five files | load or generate, verify | disk; TLS |
| Configuration (`config.cc`) | the settings, in memory and in `config.toml` | load, save | changed by the backend service |
| Hashing, encryption, system | none | compute | |
| Frontend, main process (`main.js`) | backend process, pipe sockets, flags, reported status | start and stop the backend, write operations, pass feedbacks on | pipes, renderer |
| Frontend, renderer (`app.js`) | status, devices, transfers, settings | show feedbacks, send operations | main process |

What is hard in it:

* **Suspended coroutines over shared state.** `onRequestSend` polls for its user
  while other handlers use the same session fields; `Start` and `cancelSend`
  share a status and a connection, on which one may write between two TLS records of
  the other's request; three coroutines write to one pipe.
* **Foreign, late and repeated requests.** Every handler works on the one session
  there is; most of them reset it in their catch block. Chunk indexes are not compared
  with the number of chunks, and a list of files may be empty.
* **Bytes.** Pipes cut messages anywhere, and a refused message leaves its text behind.
* **Names.** Received files share one directory with files of the same names.
* **Loss.** Connections break with requests and answers in flight, and the server
  learns of it only by reading or writing. Datagrams are lost.
* **Events in any order.** The frontend's main process hears of the backend by its
  exit, by two pipes that open and close, by its greeting, and of the page by a
  message; each event updates other flags, and only changes are passed on.
* **Crash.** Key, certificate and trust are files written one after the other, and
  no stream says whether it could be read or written.
* **Deadlines.** Retry after 1 s, wait for the user 30 s, connection 30 s,
  broadcasts each 3 s, cleanup each 5 s, device timeout 10 s.

What makes each component correct is the subject of section 3; `hazards` in
`PROJECT.json` lists the places in the code, with the property that covers each.

## 2. Modules

    LanSend                 parameters both ends of a transfer share
    ReceiveSession          what a receiver promises (abstract)
    ReceiveController       the receiving side, any senders
      ReceiveController_proof
    FinalNames              the same with the directory it saves into
      FinalNames_proof
    SendSession             the sending side, any receiver
    FileTransfer            what the users at both ends are promised (abstract)
    Transfer                both ends, with the server's connections between them
      Transfer_proof        (both ends, and the sender with any receiver)
    PipeFraming             the bytes on the two pipes
      PipeFraming_proof
    IpcService              pipes, event stream, operation loop, settings
      IpcService_proof
    Frontend                main process and renderer, any backend
      Frontend_proof
    Discovery               discovery of devices
      Discovery_proof
    CertificateStore        identity and trust on disk
      CertificateStore_proof
    MC*                     instances for TLC

Operators whose names end in a suffix (`resetToIdle_KeepsCount`) are mutants:
variants of the definition after them with a plausible bug, used to show that
each property can fail. `Spec` formulas never use them.

### ReceiveController

State is that of the class (`receive_controller.h:81-87`), of the two slots of
the event stream it polls, and of the disk: `parts` (files with a `.part` file),
`contents` (chunks that are in place), `saved` (renamed to the final path). History
variables (`requests`, `answered`, `accepted`, `outcome`) are read by no guard
of the code; they number requests, so that a session id is the number of the
request that opened it, and 0 is the empty string.

There is one action per handler, with every path through it, the answers 400 and the
catch blocks included; the response is a
parameter (`resp`), so that `Transfer` can put it on a connection. `WaitPoll` is
the one place where a handler is suspended: the poll that ends the wait together
with the rest of `onRequestSend`. `resetToIdle` includes `doCleanup`, which
removes one `.part` file of the session, whichever the unordered map yields
first. `FailSession` is the catch block: any exception, the one for a wrong
session id included, resets the session in progress. Whether a wait condition is set is the
variable `wait_condition`, which every action leaves alone.

Requests are anybody's: any list of files, none included, any session id there is or
was, a right or a wrong token, and any index of `Index`, which reaches past the chunks
of a file. `onSendChunk` writes at `index * chunk_size` in 64 bits (`Place`) without
looking at the number of chunks, so an index out of range is recorded, lengthens the
file or, when the offset wraps, overwrites a chunk, and creates the `.part` file of a
saved file anew. Data of a chunk that are not the ones for their place (`"other"`)
spoil it. What is abstracted: data have the length of their chunk; a file's checksum
matches when exactly its chunks are in place; the number of chunks that a request
declares, and with it the checksum, is a property of the file (`TotalChunks`); file
ids, tokens and session ids are fresh (`uuid`). A request that `throws` stands for
drawing those, the one call in the accepting path of `onRequestSend` that can fail
besides memory.

### FinalNames

`FinalNames` puts the save directory under `ReceiveController`: a step that saves a
file also renames it there (`Directory`). A name is a base and the numbers in
parentheses after it, so `a (1).txt` is `<<1>>` after `a.txt`. `Try` is the loop of
`onVerifyIntegrity`: it counts from the number that the name ends with, in an int that
wraps; `stoi` throws on a number that does not fit, which ends the session like any
other failure of the handler.

### SendSession, FileTransfer, Transfer

An action of `SendSession` handles one answer and begins the next request. The
connection is two sequences of messages and a queue of readers: both coroutines
start reads on one stream, and pending reads are served in the order they were
started. `SendRequest` suspends in its write and in its read (`http_client.h:68, 72`).
The stream writes one TLS record at a time, so a request of one record and the start
of its read come in the order of the records, and are one step (`Issue`). A request of
several (`Long`: the chunks of `LongChunks`, and the lists of files of `LongRequests`)
is begun (`Begin`), and its last record is a step of its own (`WriteEnds`). In
between, a cancel puts its record among those of the request (`writing`) and starts its
read first; the request is then `torn`: the server takes the record of the cancel for data,
refuses what it read (`TornCodes`), takes the rest of the bytes for the next request,
which it cannot parse (`astray`), and closes the connection. The one answer goes to
`cancelSend`. The answer is taken not to come before the last record is written, and
what is said of a list of files that takes several records matters only when a cancel
may come before the session id is known.

A connection is `up`, `astray`, closed by the server (`half`), broken or closed by the
client (`down`), and known to be so by the server (`gone`). `Break` loses any of what
was in flight in each direction.

`Transfer` extends both and adds `Serve`, one turn of `handleConnection`'s loop,
and `ServerNoticesLoss`, its catch block, for a connection that is lost or whose bytes
are no request. An answer to a connection that is down
may still seem to be written.

`FileTransfer` has no messages: a sender's files are opened, saved one by one and
shown as sent, and the sender reaches a verdict that agrees with what became of its
session. `Transfer` implements it with `fate` read from the history of the receiver's
sessions, `shown` from the feedbacks of the sender, and `verdict` from the session
status once `Start` has returned (`ImplementsTransfer`). Only a sender that failed may
not know how far it came. `FileIdsAreUnique` says what `prepareFiles` does when it
draws a `uuid` per file.

The receiver in `Transfer` accepts every request (`TInit` has no wait condition).
The backend always sets a wait condition, and then every request ends declined
(see section 5), so nothing beyond request-send ever runs.
The code behind it is the program's purpose, and it is modelled as it would run
without that condition, a configuration the controller supports
(`receive_controller.cc:590-593`).

### PipeFraming

Literal bytes, and lengths of four of them, the most significant first. One pipe at
a time: the frontend writes a whole frame, and the backend reads exactly the bytes it
expects; or the backend writes length and text apart, and the frontend takes any
number of bytes and finds the frames in its buffer. Its `while` loop is a recursive
function: `Turn` is one pass of the body, `Turns` any number of them, and `Frames`
enough to leave no frame. A text that is too long is refused by its length alone, and its bytes are read as lengths next. That ends with
the next message if its size is a multiple of the size of a length; otherwise
the backend is out of step for good, and the property promises nothing more.

### IpcService

Here a message is one item, and a frame is its two parts. There is one action per turn
of each coroutine. `SendMessage` takes the mutex and suspends
in the first write; `std::mutex::lock` on a taken mutex sets `process` to
`"stuck"`. Messages of the frontend are told apart by what `handle_message` does
with them. An unknown operation name is read as `SendFiles`, the first entry of
the enum's table. `sendToBackend` is the write of `main.js`, which repeats a
message on `drain` when the write reported a full buffer.

The settings are the number of the message that changed them last. `exitApp` stops
loop and io_context (`"saving"`), and `SaveConfig` is the last statement of
`main`; a file that cannot be opened ends it as `"unsaved"`.

### Frontend

One action per event of the main process (connection and close of each pipe, exit
of the process or failure to start it, a message, `renderer-mounted-ready`,
quit) and of the renderer (mounted, a message, reload). `to_main` and
`to_renderer` are the messages on their way; those that reach a page before it is
mounted are handled by nobody. A flag that several of the code's functions set in
one turn is set once: `updateAndReport` and `updatePipeConnectionStatus` read the
primed flags, as the code reads them after the assignments. What the page will show,
and list, once it has handled the messages on their way is read off the last message
that says so (`SoAfter`). The backend is the other end: it connects its pipes in the order of its constructor, greets, reports
devices, and dies at any time. Socket `error` events are always followed by
`close`, which does the same.

### Discovery

Time passes in seconds and never beyond a timer that is due. Clocks are relative,
so the state is finite without a bound on time. `last_seen` uses the wall clock,
taken to run like the timers. A peer is there (`online`) and broadcasts
(`broadcasting`); a send that fails ends its broadcaster for good (`BroadcastFails`),
because the catch is behind the loop. `mute` counts the seconds since it had one.

### CertificateStore

A key pair is the number of the generation that made it, and a file of the
identity holds a generation, nothing (`Empty`, between open and close), or does
not exist. `Crash` comes between any two steps. Every read and every write may fail, which
the code does not look at, and so may the generation of a key pair, whose result the
constructor ignores; `identity_fault` and `trust_fault` record that it happened, and the
properties are stated for runs without them. A file that cannot be read is taken to
yield nothing, not a part of it.

## 3. Runs

Every passing run explores its instance completely.

| Run | Question | Properties |
|---|---|---|
| `MCReceiveSessions` | Can any senders confuse a receiver that accepts or asks its user, can a file be replaced in its directory, and does the receiver become free again? | `SavedOnce`, `OpenSessionHasWork`, `BusyHasCause`, `SavedHasItsName`, `DiskTouchedOnlyBySession`, `ImplementsPromise`, `NothingIsOverwritten`, `BusyEnds`, `IInv` |
| `MCSendSession` | Can the two coroutines of a session confuse each other, whatever the receiver answers? | `AnswersReachTheirReader`, `CancelDecides`, `SendTypeOK` |
| `MCTransfer` | Do both ends agree, and do they keep what the users are promised? | `ImplementsTransfer`, `VerdictsAgree`, `NoPartOutlivesItsSession`, `OthersCannotEndIt` |
| `MCTransferLive` | Does every sender finish whose receiver is there, and is the receiver freed? | `EverySenderFinishes`, `ReceiverIsFreed` |
| `MCPipeFraming` | Do the handlers get the messages that were written, however the bytes are cut? | `ReadAsWritten`, `MessagesArrive` |
| `MCIpcService` | What reaches the frontend, and do the loops end? | `MessagesAreFramed`, `FeedbacksInOrder`, `OperationsTakeEffect`, `LoopsEndWithPipe`, `FeedbackIsDelivered`, `ExitEnds`, `IpcTypeOK` |
| `MCFrontend` | Does the frontend show the truth about the backend and, while there is one, its devices? | `StatusIsShown`, `NoGhostDevices`, `BackendLossIsShown`, `ConnectionIsShown`, `FrontendTypeOK` |
| `MCDiscovery` | Is the list of devices current? | `GoneIsDropped`, `ShownIsListed`, `PresentIsKept`, `DInv` |
| `MCCertificateStore` | Does the identity survive a kill at any point? | `IdentityIsOne`, `IdentityIsStable`, `TrustSurvives`, `StoreInv` |

Three runs end in a counterexample, each against a sentence of the source:

| Run | What the code does |
|---|---|
| `FindingUserDecides` | The user agrees to the only request there is, and it is declined: `waitForUserConfirmation` returns a result that it never assigned (`receive_controller.cc:603`). |
| `FindingReceiverIsFreed` | A cancel sent before the session id is known carries the empty id and no keep-alive: the receiver answers 500, closes without telling the controller, and stays busy for ever (`http_server.cc:236`). |
| `FindingWritersTakeTurns` | `send_message` holds a `std::mutex` across `co_await`: a second writer stops the only thread (`ipc_service.cc:171`). |

### Bounds

* `MCReceiveSessions`: two senders, files of 1 and 2 chunks in lists of none, one or
  both, indexes 0 to 2, of which the last is past either file and its offset wraps, two
  sessions, with and without a wait condition. Everything the controller can confuse is a pair: two
  files in a session, two chunks in a file, a session and the one before it, a request
  and the one that replaces it. Ints end at 2, so numbers of names overflow; the
  directory is empty, holds two names that are taken, or every name there is a number
  for.
* `MCSendSession`, `MCTransfer`: the files of a sender are tried in order, so two
  files of different sizes (an empty one against any receiver) cover the step from
  file to file; the second sender has one file. The chunks of one file take several
  records, those of the other one. Two sessions.
* `MCTransferLive`: one file each, one of them empty, the chunk of the other of several
  records, as liveness is about connections and sessions.
* `MCPipeFraming`: three messages of one to four bytes, each of equal bytes,
  of two kinds; the backend takes two at most. As in the program, the first byte of a
  length that the backend takes is 0 and a text has no such byte. Texts of three and of
  four bytes are refused, with and without loss of step. Deadlock is not checked: nobody has to write.
* `MCIpcService`: two messages written to the pipe, or one written twice, and two
  feedbacks; each queue and each pair of writers occurs, and a change of the
  settings followed by `ExitApp`. That the repetition of an old change undoes a
  newer one takes three writes and is in the model, not in the run.
* `MCFrontend`: two devices and three reports, so a device can be found, lost and
  found again; one reload. All ends of process, pipes and page occur.
* `MCDiscovery`: two peers, of which both may fall silent, and two losses in a row, the
  number the timeout allows for. Peers are symmetric; no liveness is checked there.
* `MCCertificateStore`: two kills: one within a save, one within the start that
  follows it. Theorems cover any number.

`MaxRequests` counts requests that are not refused as busy; it bounds history
only. In `MCSendSession` and the two `MCTransfer` runs a cancel comes once the
session id is known (`CancelWhileWaiting = FALSE`): before, it runs into
`FindingReceiverIsFreed` and the overwritten status described in section 5.

### Fairness

`NFairSpec` assumes that a poll that can end is executed; the executor runs every
posted coroutine, and the wait is limited to 30 s. `TFairSpec` assumes weak
fairness of each connection's coroutine at the server, whose timer of 30 s
(`http_server.cc:220`) notices a connection that is down, and of a sender's coroutines
while its connection has another end (`Connected`): the executors run what is ready,
and the retry timer expires. The client has no timer: `Connect` sets `expires_never`
(`http_client.cc:40`), so that neither its handshake nor a read ends by itself when
the receiver vanishes silently. Nothing is assumed of such a sender, and
`EverySenderFinishes` promises it nothing. Nobody has to cancel and the network need
not fail.
`PFairSpec` assumes that what is in a pipe is read.
`IpcFairSpec` assumes the same of the coroutines of the pipe service, and that
the frontend reads its pipe as long as it holds it open, and that `main` goes on
once the io_context has stopped. `FrontendFairSpec` assumes that the event loops
of main process and renderer handle every event, that the page is mounted, and
that a backend that lives connects and greets. Nobody has to quit, reload or
report a device.

## 4. Proofs

TLAPS checks these for every value of the constants that satisfies the named
assumptions (`ChunksOK`, `ConstantsOK`, `NamesOK`, `SendersOK`, `FileIdsAreUnique`,
`FramingOK`, `BoundsOK`, `FrontendBounds`, `StoreOK`, `LossesOK`). Every invariant that
a passing run checks is a theorem; so are the action properties and both refinements.

**ReceiveController_proof.** `Invariance`: every reachable state satisfies `IInv`,
for any senders, lists of files, chunk indexes, with or without a wait condition. None
of the safety properties is inductive. That a saved file is not verified again
(`SavedOnce`) needs that all its chunks stay recorded, so that a chunk which gives it a
`.part` file again is one more than were declared (`SavedIsCounted`), and that no later
session has the file again (`FreshFiles`). That a session with a completed counter is really complete needs
the counter to be the number of its saved files (`CountMatchesSaved`), which
needs the shape of an idle controller (`SessionShape`). A session opened for no files
has nothing to save from the start, and `OpenSessionHasWork` does not speak of it. The proof treats each
handler in turn and shares lemmas on `resetToIdle` and on `SaveFile`, whose
counting step uses the library's facts on cardinality. From it follow
`TypeCorrect`, `SavedCorrect`, `NeverStuckOpen`, `NeverStuckBusy`, `OthersUntouched`
(nothing on disk changes but the open session's files), and `Refinement`: the
controller implements `ReceiveSession`, with `open` mapped to `session_id`.

**FinalNames_proof.** `NoOverwrite`: for any directory, names and width of an int, the
name a file is renamed to is free. The loop ends with the least round that finds a free
name, which exists because naturals are well-founded and the directory is finite.
`OwnNames`: every saved file has exactly one name, with the base it was offered with.
It needs that a step saves one file at most (`StepSavesOne`), and that the directory
leads to saved files and to what was there before (`NamesInv`).

**Transfer_proof**, first part: the sender with any receiver. `SendTypes`;
`ReadersAgree`: with any receiver, any breaks and a cancel at any time, among the
records of a request too, neither of the two coroutines that read from the connection
gets an agreement meant for the other, and each gets the answers to its own requests
unless the cancel has torn one. The invariant `Aligned` says that the answers in
flight belong to the first readers, and on a connection that is up the requests in
flight to the rest, as long as none is torn; lemmas on sequences show that issuing,
reading and answering keep that. After a torn request there is one request, one answer
that is no agreement, and nothing after it. `CancelIsFinal`: no answer and no loss changes the status of a confirmed cancel. It
assumes `~CancelWhileWaiting`, and without that it is false (section 5): before the
session id is known nobody may cancel (`CancelInv`).

**Transfer_proof**, whole transfers. `TransferInvariance`: `TInv` joins the invariants of receiver and
senders, and adds what ties them together. At the receiver, a session has all the files
of one sender and nobody else's (`Owner`), and the one temporary file is the one its
sender is at (`OnePart`). For each sender, at most one request of `Start`, or its
answer, is in flight (`Flight`); requests on their way are about its own session and its
current file (`Asks`), one that it is still writing is not at the receiver yet
(`Unsent`, `Begun`), and answers on their way still say what is so, or was so when the
connection went down (`Tells`); a confirmed cancel has closed the connection and
finds the session over, and an answer that completed it is read before
(`CancelCloses`, `CancelLate`). The proof sums up what each handler can do to the
session of the request's sender (`Idles`, `Opens`, `Goes`, `Ends`), and shows once
that this leaves every other sender's part of the invariant alone. From it follow
`VerdictsAlwaysAgree`, `NoPartIsLeft`, and `OthersNeverEndIt`: the only handlers that
reset somebody's session are called by its own sender, because `Asks` rules out the
wrong session id that the catch blocks would not look at.

`TransferImplements`: both ends and their connections implement `FileTransfer`, step by
step. `UsersInv` adds that what is left to send is the end of the list (`Left`), that
the feedbacks show the rest (`Seen`), and that a sender that sends or has cancelled
knows its session (`Known`). The last is why it assumes `~CancelWhileWaiting`: a sender
that is cancelled before ends as cancelled by itself, with a session id that is empty
and a receiver that was told nothing (section 5), which `FileTransfer` does not allow.

`ReceiverInTransfer` relates the two specifications of the receiver: `Serve` and
`ServerNoticesLoss` of `Transfer` are steps of `ReceiveController` or leave it alone, so
what is proved there for any senders holds within transfers (`PromiseInTransfer`).
`Asks` gives the session ids and chunks of the requests; that a request carries the
token of its own session or none (`Carrying`) is added to `TInv`.

**PipeFraming_proof.** `MessagesReadAsWritten`: in both directions, for any texts, any
longest length below 2^24, any number of messages and however the bytes are cut, the
handlers get the messages the reader has to find, whole and in order, and all of them
when the pipe is empty. The invariant `FramesInv` says that buffer and pipe hold
what is left of the message the reader is at, and then the frames of the messages
after it (`Layout`), unless a refused text has misaligned the backend (`Astray`). The
reader is at a message of the frontend (`FrontendAt`), before the length of one
(`LengthAt`) or before its text (`TextAt`); within a refused text, what is left is a
multiple of four bytes, each four of which read as a length that is too long
(`TextIsTooLong`), because a text has no zero byte. That nothing is
left waiting needs that the loop leaves no frame in the buffer (`NoFrameWaits`): each
turn takes four bytes at least, so as many turns as there are bytes are enough
(`NoFrameIsLeft`). That the recursive function of the turns exists, and the facts by
induction on naturals, come from naturals being well-founded (`Iterates`, `NatSet`).

**IpcService_proof.** `IpcTypes`; `FramesAreWhole`: the coroutine in `send_message` is
the holder of the mutex (`WriterHoldsMutex`), and as long as the pipe is open the last
thing written is a length exactly when its message is still due
(`LengthAwaitsBody`). `OperationsCount`: what was dispatched, and then what is queued,
is what arrived (`InOrder`), and the settings are those of the last change in it
(`SettingsCurrent`). `FeedbacksArriveInOrder`: the queue holds the feedbacks posted last
(`QueueInOrder`), the event loop writes the one before them (`EventsWrites`), and what
was delivered are the first (`DeliveredFirst`), all but those lost with the pipe or
with the thread. That the thread may get stuck with a feedback just taken from the
queue is what makes the count an inequality then.

**Frontend_proof.** `FrontendTypes`, `StatusShown` and `NoGhosts`, for any devices,
reports and reloads. Lemmas on `SoAfter` say what appending a message and handling the
first one do to it, which stands in for the recursion over the messages.
`StatusIsShown` is split in two: the status last reported is that of the flags, although
not every function that sets one reports (`StatusIsCurrent`), and the page gets to show
the status last reported (`StatusIsOnItsWay`). The second needs that nothing is said to
a page that would not hear it (`NothingShownYet`).

**Discovery_proof.** `DInvariance`, and from it `FrontendIsCurrent`, `ListIsCurrent`
and `PresentIsNeverDropped`, for any set of devices and any number of losses with
`BroadcastInterval * (MaxLosses + 1) <= Timeout`. The invariant `DInv` balances
clocks: silence plus the time to the next broadcast is paid for by the losses,
and silence plus the time to the next cleanup is at most 15. The first is said of peers
that broadcast and were heard of, the second of every device listed.

**CertificateStore_proof.** `StoreInvariance`, `OneIdentity`, `StableIdentity` and
`TrustIsKept`, for any number of kills and peers. `fingerprint.txt`, written last, acts as a commit record: while an
identity is being written it is missing or empty (`SavingInOrder`), so a start
that finds it complete finds the other three from the same generation
(`FingerprintCommits`). The identity needs that no read or write of it failed, trust
that no save of its file was cut short and no read of it failed.

Only model-checked: liveness (`BusyEnds`, `EverySenderFinishes`, `MessagesArrive`,
`LoopsEndWithPipe`, `FeedbackIsDelivered`, `ExitEnds`, `BackendLossIsShown`,
`ConnectionIsShown`), which is out of the prover's reach. The
three findings are counterexamples of TLC.

## 5. Also met while modelling

No run is devoted to this behaviour. What is about a modelled component is in its
model, unless the entry says otherwise.

* With the shipped backend, which always asks its user, no transfer is ever accepted
  (`FindingUserDecides`).
* A request that was cancelled and replaced within one poll is polled for by two
  coroutines, and the first acts in the name of the second: it may decline it, or end
  it when the first sender's 30 s are over (`receive_controller.cc:149`).
* A message of more than 10 MB puts the backend out of step with its input unless its
  length is a multiple of four (`ipc_service.cc:241`).
* An answer of the user that comes after the 30 s stays in its slot and is taken
  by the first poll of the next request (`ipc_event_stream.cc:16`). A cancel of the
  user stays raised into the next session (`:22`).
* While the user is asked, a sender that was refused as busy and gives up sends a
  cancel with the empty session id, which matches, and ends the request of the
  other (`receive_controller.cc:511`).
* A cancel confirmed while `Start` waits to retry is overwritten: the sender
  reports an acceptance and sends with an empty session id (`send_session.cc:175`).
* Any failure of request-send is reported as a refusal (`send_session.cc:162`), and
  files without a token are sent all the same (`:300`).
* A request-send for no files opens a session that no verify-integrity can complete
  (`receive_controller.cc:120-166`). It ends by a cancel, the loss of its sender or a
  request that fails; until then every other sender is refused as busy. A `SendSession`
  without files would find nothing accepted and leave; those of the model have one.
* A chunk with an index past the end of its file is stored and recorded
  (`receive_controller.cc:267-311`). Before the verification, its file can never be
  saved; after it, it creates the `.part` file anew, which the next cleanup removes.
* A cancel between two records of a chunk tears it: the chunk is refused, the cancel is
  answered by that refusal, so that the sender does not take itself for cancelled, and
  reports its session as failed.
* A sender whose receiver vanishes silently waits for ever: its connection has no timer
  (`http_client.cc:40`).
* An empty file fails its verification, as there is no `.part` file (`:406` of the
  controller), and takes its session with it.
* `IpcBackendService::sendFiles` calls the client service only in unreachable code
  (`ipc_backend_service.cc:158-166`). `SendSessionManager` never registers a session,
  so `CancelSend` finds none.
* `SendFiles` constructs its sessions without a feedback callback
  (`send_session_manager.cc:22`), so what `reported` holds in the model reaches nobody.
* The settings `auto_receive` and `save_dir` are stored and never read.
* Devices broadcast to port 37020 and listen on `settings.port`, 56789 unless
  configured; `device_id_`, which the listener skips, is not the id that the
  device broadcasts (`discovery_manager.cc:31, 182`, `device_info.h`).
* A datagram that is JSON but no device ends the listener (`:194`), and a send that
  fails ends the broadcaster (`:150`): the device is there and nobody lists it any more.
* The backend loop goes on when the frontend is gone; nothing stops the io_context.
* The fingerprints saved by `initSecurityContext` go to the empty path
  (`certificate_manager.cc:25`); that is what keeps the file from being
  overwritten.
* A failed and unnoticed write of an identity file can leave files of two
  generations that the next start accepts. So can a file that could not be read at a
  start: a new identity is written over the old one, from the private key on, and a kill
  in between leaves the old `fingerprint.txt` with it. A trusted file that could not be
  read is overwritten by the next save.
* A window that is reloaded is not told the status again, since `isRendererReady` is
  set already and only changes are sent: it shows a living backend as disconnected
  (`main.js:368`).
* Feedbacks before the page is mounted are lost, the settings among them, which are
  sent once (`main.js:331`). `app.js` would look for them at `message.settings`, and
  for most others' fields at the top level, where no feedback has them
  (`app.js:231-540`; not modelled).
* A message whose write reports a full buffer is written again on `drain`
  (`main.js:454`): the backend gets the operation twice, and after later ones.
* The frontend never sends `ExitApp`; on quit it kills the backend (`main.js:408`), so
  the settings are never saved. `updateSettings` sends one field, `settings`, which
  the backend's `ModifySettings` rejects, and `SendFile` is no operation of the
  backend (`pipe_client.js`; not modelled).
* No feedback carries the `msgId` of its operation, so every promise of
  `sendToBackend` times out after 30 s (`main.js:321`; not modelled).

## 6. Not modelled

* **TLS, HTTP and JSON as bytes.** A request is received or lost as a whole, unless a
  cancel tears it. The server sets no timeout on a TLS handshake (`http_server.cc:213`),
  which holds one connection, and closes with a synchronous `stream.shutdown` (`:265`),
  which may block the only thread while its peer does not answer.
* **Failures of `send_message` other than of the pipe**: its catch block
  (`ipc_service.cc:202-205`) would drop a feedback that cannot be serialised as well, with
  the pipe alive. Exhaustion of memory, anywhere.
* **Accepting and stopping** of the server, and the controllers' destructors: `main`
  ends the process.
* **Ping and connect**, in client service and common controller. No state is kept: a
  request is answered, a pin is compared. The client's coroutines for them, like
  `CancelWaitForConfirmation`, refer to locals of a function that has returned
  (`http_client_service.cc:34, 68`), so that anything may happen, and a model would
  show nothing about the code.
* **Progress feedbacks**, hashing (a checksum matches or not), encryption (no caller),
  system information, logging, the command line and `network_manager.cc` (not built).
* **Read errors of a pipe** other than its end, and addresses of devices.
* **Files** are taken to keep what was written and closed, `config.toml` to load as it
  was saved (a kill while it is saved may leave it cut short, and the next start with
  defaults), and `.part` files of an earlier process are left out: a fresh `uuid`
  never meets them.
* **Frontend**: the answers to operations, which no feedback identifies; the list of
  transfers, whose handlers look for fields no feedback has; the views; `activate` of
  macOS (the pipe names are those of Windows).

## 7. Plan

Done, in order: receiver and its promise; sender; both composed; certificates;
pipes and settings; discovery; frontend; final names; framing; the promise to the
users at both ends; proofs about receiver, names, sender, pipes, discovery and
certificates; about whole transfers and their refinement, feedbacks and settings,
the frontend, and framing.

Next:

1. Addresses in discovery; the frontend's operations with their timeouts.
2. The connect handshake, once its coroutines own what they refer to.
