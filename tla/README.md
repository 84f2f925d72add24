# A verification of the RE216 chat

The repository is a small chat written in C for a network-programming course: a
server (`src/src/RE216/server.c`, `list.c`, `group.c`), a client (`client.c`,
`file_trans.c`) and helpers they share (`common.c`). This directory holds TLA+
models of it, what TLC checks on small instances, and what TLAPS proves for all.

## 1. Inventory

| component | state | operations | talks to |
|---|---|---|---|
| client list, `list.c` | linked list of `struct client` (descriptor, nickname, hasNick, group), newest first | `add_client_to_list`, `remove_client`, `set_nick`, `change_group`, lookups by descriptor and by name | called by the handlers |
| channel list, `group.c` | linked list of `struct group` (name, array of `MAX_CL` descriptors, -1 = free cell) | `create_group`, `add_client_in_group`, `remove_client_in_group`, `remove_group`, `write_in_group`, lookups | called by the handlers; `write_in_group` writes to sockets |
| server loop, `server.c` main | `fds[MAX_CL+2]` for `poll`, the two lists | poll, operator's line, accept, refuse, serve each ready slot in order | kernel, clients |
| command handlers, `server.c` `command` | none of their own | one case per command, QUIT calling LEAVE | both lists, sockets |
| line I/O, `common.c` `readline`, `writeline` | none | blocking read and write; -1 ends the process | kernel |
| text helpers, `separate`, `get_next_arg`, `format_nick` | the buffer they edit in place | cut a word off a line | every handler, client |
| client, `client.c` main | nickname, poll of stdin and socket | send the user's line, act on a server line, reconnect | server, user |
| transfer handshake, `client.c` + SEND/FTREQP/FTREQN/CONN_INFO | none but where each client waits | request, prompt, connection info, peer connection | both clients through the server |
| file contents, `file_trans.c` | files of the inbox, data socket | `send_file`, `rcv_file`, `fill_file`, `accept_file` | peer client, file system |

What makes this code hard:

- The server has one thread, so handlers do not interleave with each other, but
  peers write, close and reset between any two of them, and in particular between
  `poll()` and the handler of a socket it reported.
- Who is connected is recorded in three places (slots, client list, kernel) and who is
  in a channel in two (the client's `group`, the channel's array); each handler
  updates several of them in turn, with early returns in between, and the kernel
  reuses a descriptor's number as soon as it is closed.
- A name is copied into a fixed array next to another; the value 64 is a boundary.
- A client writes `/quit` and exits at once, with text of the server perhaps unread: what
  the server meets then is an end of file, a failed read or a failed write.
- The client stops its loop to ask the user or to wait for a peer, and reads TCP
  as if each read were one message.

What makes each part correct:

- client list: one record per connection and none else; names distinct.
- channel list: one channel per name, one cell per member, gone with its last
  member.
- server: the tables agree, no read blocks, a line reaches exactly those in the
  speaker's channel, nothing a client does ends the process, everyone is served.
- text helpers: each cuts one word and terminates inside the buffer.
- client: every message the server sends is acted on once, in order.
- transfer: both sides end, and the file received is the file sent.

`PROJECT.json` lists the hazards one by one with the line where each bites.

## 2. The modules

| module | what it is |
|---|---|
| `ClientList` | operators for `list.c`: the list as a sequence, head first |
| `GroupList` | operators for `group.c`: the list as a sequence, a channel's array as a function on `0..MAX_CL-1` |
| `Server` | the state machine of the server: main loop, one action per case of `command`, the peers |
| `ServerProperties` | what the server promises, and statements of the repository |
| `Chat` | abstract specification: who is online, who may speak, which channels exist, who is in which |
| `ChatRefinement` | the mapping from `Server` to `Chat` |
| `MCServer` | instances for TLC (symmetry) |
| `ListProofs`, `ServerProofs` | lemmas about the two lists; theorems about `Server` |
| `ChatProofs` | `Server` implements `Chat` |
| `TextBuffer` | `separate`, `get_arg_in_command`, `get_next_arg`, `format_nick` on a buffer |
| `TransferLines` | the five lines of a file transfer, each built from arguments taken out of the one before, and any other line |
| `TextProofs` | theorems about `TransferLines` |
| `Transfer` | clients and the server: the client's loop, the relayed requests, both ends of a transfer, restarts and reconnecting, faults |
| `TransferProperties` | what it promises; the mapping to `Handshake` |
| `Handshake` | abstract specification: the phases of one transfer |
| `TransferProofs` | types of `Transfer`, and the count of listening sockets |
| `HandshakeProofs` | one caller to a port; `Transfer` implements `Handshake` |
| `ConversationProofs` | who is called, what a client shows, who waits for whom |
| `FileStream` | the bytes of a file: `send_file`, `rcv_file`, `fill_file`, `accept_file` |
| `FileProperties`, `MCFile` | what the inbox holds; an instance for TLC |
| `FileProofs` | theorems about `FileStream` |

### The server

Correspondence of state: `fds`, `clients` and `groups` are the variables of `main`
with those names. `ready` holds the positions whose `revents & POLLIN` is set and
whose turn has not come; `Reaches(i)` takes the least, the order of the loop.
`peer` and `unread` are the kernel's view of each connection, what the next `read`
and `write` will return. `wild` says that the pointer `clients` has been overwritten.
`status` is "running" or how the process ended.

Correspondence of actions: `Poll`, `Stdin`, `Accept` and `Refuse` are the four
blocks of the loop before the clients. `Serve(i)` is one pass through the last block:
`readline`, `get_command` (which command a line stands for is the choice between
the disjuncts) and `command`, whole. `LoginFirst` is its early return, and the actions
in capitals are its cases; QUIT contains the LEAVE it calls. `Fault` is a
read that fails or a list walked from an overwritten head. `PeerWrites`, `PeerEnds` and
`ResetArrives` are the world outside.

Abstractions:

- A nickname is a model value. The four sets `GuestNicks`, `BlankNicks`, `LongNicks`
  and `EdgeNicks` are all that `set_nick` tests about it, `EdgeNicks` being the names of
  exactly `MAX_NICK_SIZE` characters: they fill the array, so their terminator is the
  first byte of `group`. `Nickname` says what a reader of such a record sees. Channel
  names are model values that fit their arrays, and none is the empty name, which is
  `NoGroup` (`NamesAssumption`): `/create \n\n` followed by `/join \n\n`, which make a channel
  with that name and a member that looks like a client in none, are left out.
- A line is the choice of a command and its argument, and `unread` says that one waits.
  TCP may join two lines in one `read`, the second being then lost: the model has
  one line, so `LinesServed` is about reads, not about each line of a joined pair.
- A write is the set of descriptors a handler writes to; texts are left out.
  Since the process ends at the first failed write, the order only decides which texts
  were sent before, which no property tells apart. A write to a peer that has
  closed succeeds and provokes a reset, which arrives later (`ResetArrives`); the next
  write then fails. A client whose connection ends with text unread resets it (`PeerEnds`,
  fault "reset"): the next read fails. Within one handler a second write to the same peer is taken to
  come before the reset.
- Writes find room. A peer that stops reading stops the server in `write()`: that is
  in `Transfer`, whose streams have a bounded length.
- In `Refuse` the two stores outside `fds` may do nothing or overwrite `clients`,
  which is what the first does in the layout of the Debug build.
- The reply "channel is full" (result -2) and `pop_of_group`'s `error()` are in the
  model; that they never happen is `RoomForEveryone` and `NeverFatal`.
- SIGPIPE is not ignored by the server and ends it like `error()`: both are
  "killed".

### The text helpers

A buffer is a function on `1..BUFFER_SIZE`; `separate` and `format_nick` return the
buffer the C functions leave, the characters behind the terminator included, because
the next `separate` looks for its blank among those. Without a blank in the buffer the C
code reads on past its end; what it moves from there is the model value `Unknown`.

`TransferLines` follows one `/send` through the five buffers it is copied into, one
action per handler. Every word is one letter repeated (the sender's name is `sss`), so
a property can say which word, and whether all of it, stands where. The lengths of the
names, of the file's name and of the size vary up to `MaxNick`, `MaxName` and `MaxDigits`;
those of a port and an address are `PortLength` and `AddressLength`. A second kind of
initial state holds any short line, for the handlers of the other commands, lines of one
word included.

### The clients and a file transfer

`Transfer` has one record of state per client. `at` is where its thread is: in the poll
loop of `main`, in the question of `prompt_user_for_file_transfer`, in
`set_up_peer_2_peer_file_transfer` before (`listen`) and in (`accept`) `accept()`, in
`accept_file` (`inbox`), in `rcv_file` (`receive`, `spin`), and for the sender in the
`readline` of the greeting and in `send_file`. `asked` is `user_name` and what `atoi` made
of the size announced (0, the file's size, or another number), with, for the properties
only, the client that wrote the `/send` (`by`); `shown` is `nick` in the client, `nick` its name in the server's list.
`up` and `down` are the two directions of a client's connection. The server takes one
read (`Serve`) and does the writes of its handler one by one (`pending`, `Deliver`),
waiting for room in `down`. `conn` is the connection to the server as the client has it, and
`cut` holds the data connections that a sender's kernel has reset.

`FileStream` has one transfer: `sent - got` is what is between `write` and `read`; `chunk`
is what `send_file` has read and not written; `at` is the question `accept_file` is at.

Abstractions:

- A message is a record with the fields that the reader acts on. `TEXT` is every line
  that is only printed, a channel's lines and the `/username` that JOIN sends included. A
  read may return several messages ("join"); it does not split one, since each is one
  small write. With several, the client and the server act on the first and lose the rest,
  as the code does, except where the text that is behind it changes what the first one
  means: `NEWPROMPT`, `INFO_CONN` and `FTREQ` say how.
- The user of a client in its loop types a line when it likes (`MaxLines` bounds how
  many) and answers questions either way.
- What ends the server (a write to a client that has gone) is in `Server`; in `Transfer`
  the server survives a client's end, and "restart" ends it at any point. Its end leaves a
  client with an end of file, or with a reset if the server had bytes of the client unread or
  meets some on their way. A client may write behind an end of file: the write is lost, and
  provokes a reset, which arrives at any time later (`ResetArrives`). Until then further writes
  are lost too, afterwards they end the client. Its next `read` still returns 0 in both cases
  and the client asks whether to reconnect (`RECONNECT`); only a reset without an end of file
  makes `readline` end it (`readline_fails`). Text the server wrote before it ended is taken
  to have reached the client before either.
- A sender that ends with the greeting unread resets the data connection, so its receiver's
  `readline` fails and ends it; otherwise the receiver reads 0 bytes for ever (`rcv_file`).
- Where `separate` loses the size of a file (`SizeNeedsLongName`), the server reads another
  word in its place: `atoi` makes 0 of it, or another number if it begins with one. That is
  the fault "short", and the receiver then stops at any time or never.
- "join", "short" and "rename" are not rare: TCP may join any two messages, any file may have a
  short name, any user may type `/nick`. They are called faults so that a run or a theorem
  can say under which of them a property holds; section 6 has the runs in which one of them
  alone breaks a property.
- A file is "empty", "small" (one write, whoever reads) or "big" (written only while the
  receiver reads); its bytes are in `FileStream`, as their positions, and bytes of files
  that were there before are 0.
- Names of files: what matters of a name is whether it has a slash and whether it is
  taken, in `../inbox` (where files are saved) and in `../../inbox` (where a new name is
  looked for). A typed name ends in a newline, as `readline` leaves it. A user who is
  asked again has some name left that is accepted.
- `do_accept` has no `return`: its result is taken to be the descriptor, as in the
  Debug build.

## 3. The runs

### The server

`MAX_CL` is 20 in the code. Two slots are the least with which one client can be
served while another leaves, a channel has a member besides the speaker, a slot is
reused and the server is full; `Fds` has one descriptor more, for the connection
that is refused. What three slots add, the list operations on a middle element (whose
branches in `list.c` and `group.c` differ from first and last) and a channel that loses a
member and keeps others, is left to the proofs, which are for any number of slots.

| run | instance | checks |
|---|---|---|
| `ServerFull` | 2 slots, all faults, all classes of nickname but the 64-character one, 2 channels | the agreement of the tables, of channels and records, room, distinct names, channel lifetime; `Server` implements `Chat` |
| `ServerLive` | 2 slots, closes, fair loop | every line is read, every departed peer's slot is freed |
| `ServerRefusal`, `ServerQuit`, `ServerNick` | 2 slots, the one fault or nickname each needs | statements of the repository that the code does not keep (section 6) |

No run of `Server` has a counter to bound: the state is finite because names and
descriptors are. Channels not yet joined persist, one per name. `ServerFull` uses
symmetry between channel names and between plain nicknames; `ServerLive` does not, as
symmetry is unsound for liveness.

Deadlock is checked in all of them. When the process has ended `Halted` stutters;
while it runs, `Poll` can always be taken when nothing is ready, so a deadlock would be
a ready position that no handler accepts.

### The text helpers, the clients and the files

| run | instance | checks |
|---|---|---|
| `Lines` | nicknames of 1 to 6 characters, file names of 1 to 7, sizes of 1 and 2 digits; any other line of up to 7 characters over two letters, blank and newline | each `get_next_arg` returns the field it should; which words of a transfer arrive |
| `TransferSteps` | 2 clients and a spare name, 2 lines, renames, ends, restarts, sizes misread | types; a port has one caller; the name shown is the one the server has; `Transfer` implements `Handshake` |
| `TransferLive` | 2 clients, 3 lines, streams of 2 messages, no faults, fair processes | that the one somebody waits for waits too or has something to do, and that each wait ends or is a trap |
| `TransferRename` | 3 clients and a spare name, 3 lines, renames | a statement the code does not keep (section 6) |
| `FileCopy` | buffer of 4, word of 3, room for 4 bytes, files of up to 6, sender that ends, file that changes | what is in the inbox; that the many steps of a file are the single steps `Transfer` takes; both sides end |
| `FileOnce`, `FileAppend` | buffer of 3, word of 2 | statements the code does not keep (section 6) |

Bounds. Nicknames and file names go beyond 5 characters, where the size begins to come
through, and either may be the longer one; the buffer of 47 holds the longest line with its
terminator (`LinesAssumption`; the code's has 1024 bytes).
Two lines are two requests, to each other, to oneself or one of each, or one request and a
rename or restart. Three lines with streams of 2 messages let a third message find
a full stream while its client waits in `accept()`, so that the server stops and the
circle of `Trapped` goes through it. In `FileCopy` a file takes two
buffers and does not fit between writer and reader, so a sender really waits for a
receiver, and a chunk may be shorter or longer than the word.

`CHECK_DEADLOCK FALSE` in these runs: they really may stop, when every line has been typed
or everyone waits (the second is what `WaitsLeadOn` and `Trapped` describe), and a line or a
file comes to its end.

What some of these properties do not say:

- `WaitsLeadOn` and `WaitEnds` do not say that nobody waits for ever. The deadlocks of two
  clients that accept each other's file, and of a sender whose receiver has cancelled, do
  occur; the properties say that there are no others. Both hold without faults only.
- `TransferEnds` and `SenderFinishes` leave out, by their antecedents, a file that has changed
  so that the receiver waits for bytes that do not come or the sender for a reader: those
  waits do occur. `SenderFinishes` also leaves out a receiver that cancels.
- `StepsOfTransfer` relates `FileStream` to the single steps of `Transfer` by conditions on
  its states; it is not a refinement mapping.
- `InsideUntilLast` stops in front of the call of `separate` for the last field; that call may
  leave the buffer (section 6).
- `TransferSteps` has no joined reads, with which a `/username` may be lost and
  `PromptShowsNick` fails if there are renames too. That types, one caller to a port and the
  refinement hold with them as well is proved without a hypothesis, and TLC agrees when the
  cfg has "join" in place of "rename".

Each property has a mutant: a definition of the model changed the way a bug in the C
code would (a loop that stops one cell early, the test after the loop of
`remove_client` missing, /quit not leaving the channel, the file opened with "w" for every
chunk, ...), kept beside the definition it replaces, and with which TLC finds that
property violated.

### Fairness

`FairSpec` of `Server` asks weak fairness of `Loop`, the server's thread: `poll()`
returns when a socket is readable, and a handler finishes. Nothing is asked of the
peers. The second part assumes that a blocking write finds room. No fairness between
clients is needed: one turn of the loop serves every ready slot.

`FairSpec` of `Transfer` asks weak fairness of the server's thread and of each client's
thread, its user's answers to questions included: a process that can run does, and a user
who is asked answers. Nothing is asked of lines typed. There the server
may wait for room, and that wait is one of those `WaitEnds` is about.

`FairSpec` of `FileStream` asks it of `send_file`, of `rcv_file` and of the user's answers;
a user may enter names that are refused, but not for ever. Nothing is asked of
`SenderEnds`.

## 4. What is proved

TLAPS checks every step of the eight modules whose names end in `Proofs`. A theorem with a
hypothesis is stated with `ASSUME`; the last column of each table gives it. Every safety
property that a passing run checks is a theorem, and so are both refinements and both other
action properties. Two properties of `Server` that runs show violated, `SurvivesRefusal` and
`NickKeepsChannel`, are theorems too, each under the hypothesis that its run breaks: they hold
but for that.

### The server

The theorems of `ServerProofs` hold for every
`MAX_CL > 0`, every finite set of descriptors larger than it, every set of names and
faults: the assumptions are `NamesAssumption`, `MaxClAssumption` and
`ServerAssumption`, and TLC evaluates them in every run.

| theorem | property | hypothesis |
|---|---|---|
| `TypeCorrectness` | `TypeOK` | |
| `ConnectionsAgree` | `TablesAgree` | |
| `NeverBlocksInRead` | `ReadyIsReadable` | |
| `ChannelsNeverDangle` | `NoDanglingChannel` | |
| `MembersAreCurrent` | `NoStaleMember` | `EdgeNicks = {}` |
| `RelayIsExact` | `RelayReachesChannel` | `EdgeNicks = {}` |
| `TablesNeverFatal` | `NeverFatal` | `EdgeNicks = {}` |
| `ClientsFit` | `SockTabFits` | |
| `ChannelsHaveRoom` | `RoomForEveryone` | `EdgeNicks = {}` |
| `NicknamesDiffer` | `NicksDistinct` | `EdgeNicks = {}` |
| `OnlyCrowdFaults` | `SurvivesRefusal` | no "crowd" |
| `NickLeavesChannel` | `NickKeepsChannel` | `EdgeNicks = {}` |
| `ServerImplementsChat` | `ImplementsChat` (in `ChatProofs`) | `EdgeNicks = {}` |
| `ChannelsLiveWithMembers` | `ChannelLifetime` (in `ChatProofs`) | `EdgeNicks = {}` |

The argument has three layers, each an inductive invariant that contains the one before.

1. `Connections` is `TypeOK /\ TablesAgree /\ ReadyIsReadable`. None of the three is
   inductive alone. A handler that reads slot i finds an open socket there because of
   `ReadyIsReadable` and its client because of `TablesAgree`; when QUIT frees a slot,
   other ready positions stay readable because no other slot holds that socket, which
   is `TablesAgree` again; and accepting needs the new descriptor to be in no table,
   which holds because it was closed.
2. `Channels` adds that the channel list is well formed (one channel per name, one
   cell per descriptor), that every client with a channel is in its array, and that such
   a client has a nickname (`InsidersNamed`). The last is needed because QUIT runs LEAVE
   through `command`, which sends a client without a nickname to log in instead: QUIT
   would then forget the client and leave its descriptor in the array. The
   well-formedness is needed because LEAVE clears the first cell that holds the
   descriptor.
3. `Memberships` adds `NoStale`: a cell holds a connected client whose record names the
   channel. Here the hypothesis `EdgeNicks = {}` enters: a 64-character /nick clears
   `group` and not the array, and run `ServerNick` shows the step. With it, the array
   and the records describe the same set, and `RelayIsExact` follows. `TablesNeverFatal`
   follows step by step: MSG finds the speaker's channel, and every handler writes only
   to descriptors of the list or of an array, all of which are open.

On these rest the others.

- Room (`OpenFit`): every open descriptor has a slot and no slot two of them, so a list of
  distinct open descriptors is no longer than `MAX_CL`. The clients are such a list, and so
  are the members of a channel with a client that is not among them, which is why that
  client finds a free cell.
- Names: `NickTable` says that two records with one name are two guests, and that a client
  not yet marked as named is a guest. The second part is what makes it inductive: `set_nick`
  sets the mark before it refuses a name, so a marked client may be a guest, but not the
  other way round.
- Refusals: `Roomy` says that no pointer has been overwritten and that a slot
  is free whenever a reported connection waits: the listening socket has position 1, so only the
  operator's line comes between `poll()` and `accept()`, and a slot that was free still is.
  That the server outlives its clients' departures is not claimed: each client ends its
  connection when it leaves, run `ServerQuit` shows the server ended by it, and section 6 has
  another way.
- `Chat`: `Mapped` says that `Memberships` makes the channels' arrays a function from
  clients to rooms; then each handler, with all it updates, is one step of `Chat` or none.
  `ChannelLifetime` is read off the abstract step: `Chat` closes a room with its last
  occupant.

`ListProofs` has the lemmas about the two lists on which this rests: what a lookup
returns, what each operation leaves in the list, and that it keeps the list well formed.

### The received file

The theorems of `FileProofs` hold for every buffer, word and room of at least one byte, the
word not longer than the buffer, every bound on sizes, every set of names and both faults
(`FileAssumption`).

| theorem | property |
|---|---|
| `FileTypes` | `TypeOK` |
| `InboxKept` | `KeepsInbox` |
| `SavedInOrder` | `AllInOrder` |
| `SavedNear` | `CopiesAreNear` |
| `OneStepEach` | `StepsOfTransfer` |

`Transferred` adds to the types that what `send_file` has read and not written is still
part of the file (`sent + chunk <= size`), without which `sent` could pass `size`.
`Received` adds that the inbox is as it was until the receiver reads, which is what makes the
file complete with no byte when the reading starts, also when a new name was that of a
file already there, which is then appended to. One turn of the loop then writes a chunk at least once
(`WrittenAtLeastOnce`), and byte `k` of what it appends is byte `(k - 1) % n` of the chunk
(`Appended`); the bytes of the chunk are beyond all those before it, so the order and the
nearness of copies need only be looked at within the chunk (`ChunkKeepsExact`).

`InboxKept` rests on `OwnText`: the file the receiver writes to has a byte that was there before
only if the user has entered a name. Without a new name, `accept_file` either found none of that
name or has emptied it; with one, it has looked in another directory (run `FileAppend`).

`OneStepEach` ties the two models of a transfer together. `Transfer` writes a file in one step,
at once if it is small and while the receiver reads if it is big, saves it in one step when it has
been written, and lets a receiver spin only when the sender has ended before. `StepsOfTransfer` says
of `FileStream` that this is what its steps come to, as far as the announced size is the file's or
one bounds the other. It needs `Received` (nothing is read before the receiver reads) and how the
loop ends (`Ended`: a receiver that spins has read all there is, and its sender is over).

### The text helpers

The theorems of `TextProofs` hold for every buffer, alphabet, bounds on nicknames, file names,
sizes and lines, and lengths of ports and addresses, as long as each line leaves room for a
terminator (`LinesAssumption`).

| theorem | property |
|---|---|
| `ArgumentsAreFields` | `ArgsAreFields` |
| `SeparateStaysInside` | `InsideUntilLast` |
| `FormatNickChangesNothing` | `SameName` |
| `RightQuestion` | `AskedAboutTheFile` |
| `RightAnswer` | `CalledBack` |
| `LongNamesAreAnswered` | `AnswerReachesLongNames` |
| `SizeOfLongNames` | `SizeNeedsLongName` |

The first three are about one line, whatever it is. `Left(b, k)` says that buffer `b` holds
what stands behind position `k` of the line, up to its end; `separate` takes
`Left(b, Cut(n))` to `Left(separate(b), Cut(n + 1))` (`SeparateMoves`), so the n-th call
finds the n-th field (`RestLeft`). The characters left behind the terminator do not matter as
long as the blank that is looked for stands in front of it, which it does before the last
field. The calls, the ranks of the blanks and the words of `Line` are counted with a least
counterexample (`LeastNatural`) where one would use induction.

The others are about a transfer. `Stages` gives, for each handler, the line that waits for it,
and is inductive because each handler takes out of its line the words the one before has put in
(`TakesWord`, `LastWord`). The exception is the size, which stands behind the newline, where
`separate` does not look. After two calls the buffer holds, one over the other, the file's
name, what the receiver's name and the file's have left, and the line as it was (`Swept`).
`SweptWord` finds the first blank in that in four cases: the file's name is shorter than the
receiver's; both together have fewer than 4 characters; they have more, the file's name having
fewer than 5; or it has 5 and more. Only in the last one are all blanks in front of the size
overwritten.

### The clients and a transfer

These theorems hold for every finite set of clients, any names, lengths of streams, number of
lines typed and, unless the table says so, any faults (`TransferAssumption`).

| module | theorem | property | hypothesis |
|---|---|---|---|
| `TransferProofs` | `TransferTypes` | `TypeOK` | |
| `HandshakeProofs` | `OneClientCalls` | `OneCaller` | |
| `HandshakeProofs` | `TransferImplementsHandshake` | `ImplementsHandshake` | |
| `ConversationProofs` | `AskerCalls` | `CallerIsAsker` | no "rename" |
| `ConversationProofs` | `PromptsFollow` | `PromptShowsNick` | not both "join" and "rename" |
| `ConversationProofs` | `NobodyWaitsInVain` | `WaitsLeadOn` | no faults |
| `ConversationProofs` | `OnlyTrapsStandStill` | (where nobody proceeds, each wait is `Trapped`) | no faults |

The hypotheses are about what a system of this kind does meet, so they are limits of what is
claimed: `CallerIsAsker` fails with "rename" (run `TransferRename`), `PromptShowsNick` with "join"
and "rename" together, since a joined read may lose a `/username`. The last two theorems are about
the protocol itself, when every read returns one message and nobody ends or takes another name:
which deadlocks it has then. With joined reads there are more (section 6: a receiver that nobody
will call).

- Types. `TypeOK` bounds the number of a port by the lines typed, and that is a counting
  argument: a line typed is at most one request on its way to the server, one on its way to
  its receiver, one question, or one port. `Budget` says that these `Tickets` are no more than
  the lines typed; `Settled` adds what a client's place in its code implies about its variables.
- `OneMention`: a port stands in at most one place, the `/conn_info` of the receiver, the
  `/info_conn` that becomes of it, or a connection. Each step moves it from one to the next
  or loses it, so no two clients learn of it.
- `Handshake`: `Nested` says that saved transfers have been filled, those greeted, those
  called, and that a sender past its greeting is the caller of a port taken. With
  `OneMention` the abstract phase of a port is then a function of the state that each
  step advances by one or leaves.
- `Healthy` (every client there and connected) holds without faults; the last two need it.
- `OwnNames` (nobody has a name but its own) makes what mentions a port go to the client
  asked for (`OnlyFor`, `Directed`): the server finds the receiver of a message by its name.
  `OwnRequests` says that the name a request carries is then its writer's.
- `NamesKnown`: the last name written to a client's stream is the one the server has for it,
  and when none is on its way the client shows that one. Messages that join could lose that last
  name; without /nick there is none to lose (`OldNames`), and everybody shows its own.
- `Expected`: the port of a client in `accept()` is on its way to the client whose request it
  said yes to, which has a file to send (`SizesTold`), and so will call; or has been called.
- `Attended`: whoever has connected to a port stays with it, in the greeting or in `send_file`,
  until it has written the file. A receiver that reads therefore waits for one who is still
  there, and one in `accept()` for the server or for the client that has its port (`Expected`).
  Only in its loop, with nothing to read, does a client neither wait nor proceed (`Busy`), and
  nobody waits for such a client except an abandoned sender. That is `NobodyWaitsInVain`;
  following the waits from one to the next gives `OnlyTrapsStandStill`, with those who wait as
  the set that `Trapped` asks for.

### Only model-checked

- `LinesServed`, `GonePeersReleased`, `WaitEnds`, `TransferEnds`, `SenderFinishes`: liveness
  is out of the prover's reach. So is ENABLED: that who `Proceeds` really has a step to take is
  not proved; `WaitEnds` would fail under fairness if it had none.
- That `EdgeNicks = {}` is needed: given a name of 64 characters, TLC finds a counterexample
  on the constants of run `ServerNick` to each property that has the hypothesis. The name
  clears the client's channel and not the channel's array, whose cells then outlive their
  client (`NoStaleMember`, and all that rests on it); and once its owner joins a channel the
  name reads as one string with the channel's, so another client can take it
  (`NicksDistinct`).

## 5. What is not modelled

- The texts of replies, their colours and their lengths: those of WHO and GROUP grow
  with clients and channels and may outgrow a buffer.
- Names of channels that do not fit their arrays.
- Lines that fill the buffer to its last byte: `readline` then leaves no terminator.
- The fields `ip_addr`, `port_nb` and `con_date`, which nothing branches on.
- `getaddrinfo`, socket options, and failures of `poll`, `accept`, `bind`, `malloc` and
  of opening a file, after which the process ends.
- `size_of_file` creates a file that does not exist; only the size 0 it then returns is
  in the models.
- Functions that nothing calls (`print_list`, `get_nick`, `get_all_client_in_group`,
  `client_is_in_group`), and memory that is never freed.
- The build files, which describe no behaviour.

## 6. Where the code and the repository's own words differ

Six are shown by a run that TLC finds violated. Three of them hold otherwise, and are proved
to (section 4): `SurvivesRefusal` when nobody is refused, `NickKeepsChannel` without a name of 64
characters, `CallerIsAsker` when nobody takes another name.

| run | the repository says | the code does |
|---|---|---|
| `ServerRefusal` | `server.c:511` "we want to ignore this fd next loops" | lines 508 and 511 store outside `fds`; the pointer `clients` may be overwritten |
| `ServerQuit` | `server.c:34` "s_read = 0 probably means client has closed socket" | it is handled as QUIT, which answers the client that has gone with LEAVE's text: the second write to it ends the server by SIGPIPE |
| `ServerNick` | `list.h:18` "sets name of corresponding client" | a name of exactly 64 characters also clears the client's channel |
| `FileOnce` | `file_trans.c:151` "normalement on passe la dedans qu'une fois" | a chunk shorter than a pointer is appended until 8 bytes have been written |
| `FileAppend` | `file_trans.c:124` "this one is already taken by an other file" | line 120 looks for the new name in `../../inbox`, so a file of that name in `../inbox` is not noticed and is appended to |
| `TransferRename` | `client.c:242` "send connection info to other client" | the info goes to whoever has the name the sender had at `/send` |

Others are part of the models, and the passing properties are stated around them:

- A client that leaves with text of the server unread resets its connection: the server's
  `read()` fails and `readline` ends the whole process (`common.c:44-46`), where `server.c:34`
  reads 0 (`Fault`; fault "reset").
- The test at `common.c:67` that should stop `separate` at the end of the text is never true
  (`common.c:66` "go to first blank space"): on a line of one word, such as `/newprompt`, it goes on
  until a blank that an earlier line has left, or beyond the buffer (`Finds_blank`;
  `InsideUntilLast` says which calls find one).
- `/ftreqP` and `/conn_info` are written back to back (`client.c:158`, `client.c:245`); read
  together by the server (`server.c:521`) the second is lost, and the receiver stays in
  `accept()` with its port on its way to nobody (`Serve` with n > 1). With `/nick` in between,
  the info may go to nobody too, or to another (run `TransferRename`).
- `/newprompt` (`server.c:129` "to force a new <name> prompt in client") read together with another
  message is a command the client does not recognize, which ends it (`NEWPROMPT`).
- `list.c:237` marks a client as named before a blank in the name makes it refuse:
  `server.c:114` "Not allowed to talk until a nickname is chosen" does not hold for it
  (`ClientList!set_nick`).
- The size of the file is lost when the file's name has fewer than 5 characters or fewer than
  the receiver's nickname; what is read in its place is 0, and the accepted transfer then counts
  as empty, or the number another word begins with (`SizeNeedsLongName`; fault "short").
- A sender with a name of one character never sees the answer (`AnswerReachesLongNames`).
- Two clients that accept each other's file wait for each other, and so does one that
  sends to itself; a receiver that cancels in `accept_file` leaves a big file's sender
  waiting and a small one's told that it was sent (`Trapped`, `Abandoned`).
- After the sender has ended, the receiver's loop spins (`rcv_nothing`).
- A name typed in `accept_file` is kept with its newline (`enters_name`).

## 7. Plan

1. (done) `ClientList`, `GroupList`, `Server`, `ServerProperties`, `Chat`,
   `ChatRefinement`; proofs of the connection and channel invariants.
2. (done) `TextBuffer`, `TransferLines`, `Transfer`, `Handshake`, `FileStream`.
3. (done) Proofs about the server: room, names, what ends the process, channel lifetime,
   `Server` implements `Chat`.
4. (done) Proofs about `Transfer`, its refinement of `Handshake`, and `TransferLines`.
5. (done) `PromptShowsNick` with "join" or "rename" alone; who waits for whom; the step from
   `Transfer`'s single steps to what `FileStream` does; two violated statements of the server
   under the hypotheses with which they hold.
6. (done) What a client meets when the server has gone (late resets, reconnecting after a lost
   write); departures of clients, renames and the inbox as runs of their own.

## 8. Running

In this directory: `tlc -config ServerFull.cfg MCServer.tla` for a run (`TransferLines`,
`TransferProperties` and `MCFile` are the modules of the others), `tlapm
ServerProofs.tla`, and the same for the other `Proofs` modules, for the proofs. `PROJECT.json` lists runs, mutants, the source lines each
definition models, findings, hazards and theorems.
