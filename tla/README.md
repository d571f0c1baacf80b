# Verification of the 1046 gateway

TLA+ models, TLC runs and TLAPS proofs for the software of the 1046 IoT gateway
(C, in `src/`). The gateway is a small Linux board that bridges Zigbee and LoRa
sensors to MQTT and is configured over MQTT by a client on the local broker.

## 1. The system

### 1.1 Components

| Component | Source | State it keeps | Operations |
|---|---|---|---|
| Configuration daemons (network, bluetooth, common) | `gcs_cpd_src/MQTTClient_{net,bluetooth,common}_subscribe.c` | MQTT session, `disconnect_tag`, shared anonymous mapping `p_map`, a forked child that is stopped or running | connect, subscribe, `msgarrvd`, `connlost`, SIGCONT; child: stop, copy, connect, publish, wait, disconnect |
| Network command handler | `gcs_cpd_src/conf_network.c` | `/etc/certusnet_conf/wan_way`, keys of the profile file, `wan_way_status`, interface and service state | validate, `set_wan_eth/pppoe/wifi`, check link, `rollback_func`, `update_*_profile`, `set_net_status_file`, answer |
| Bluetooth and common command handlers | `conf_bluetooth.c`, `conf_common.c`, `init_blue_net.c` | keys of the two key=value files, hci0, serial line | one shell command or file update after the other, answer |
| key=value file | `gcs_cpd_src/parsekv.c` | two text files shared by all daemons and the publisher | `file_get_value`, `file_update_value` |
| Publisher | `MQTTClient_publish.c`, `cmd.c` | none (one run per report) | read keys, run shell commands, publish |
| WAN switch | `systemd_net/systemd_net_switch.c`, `init_networking` | interface and service state | `set_wan_*`, check link |
| Zigbee reader | `zigbee/test_zigbee.c`, `zigbee/sbuf.c` | ring buffer, serial line | read, search, check CRC, `mosquitto_pub` |
| LoRa bridge | `lora/libloragw/tst/test_loragw_mqtt.c` | signal flags, packets fetched | receive, decode, `mosquitto_pub`, send, poll |
| LoRa HAL | `lora/libloragw/src/loragw_{hal,reg,lbt,fpga}.c` | selected page, configuration, gain table, the chip's registers and FIFOs | register access, start, receive, send, listen before talk |
| Paho MQTT C client: session | `MQTTProtocolClient.c`, `MQTTPersistence*.c`, `MQTTClient.c` | in-flight lists, message queue, files | publish, the packet handlers, retry, restore |
| Paho: threads and handles | `MQTTClient.c`, `Thread.c` | `running`, `tostop`, semaphores, `m->pack`, list of handles | connect, synchronous calls, run, cycle, yield, receive, wait, stop |
| Paho: wire | `MQTTPacket*.c`, `MQTTProperties.c`, `utf-8.c`, `Socket.c`, `SocketBuffer.c`, `WebSocket.c`, `Base64.c` | queues of bytes half read and half written | encode, decode, select, read, write, frame |
| Paho: containers | `Heap.c`, `Tree.c`, `LinkedList.c` | records of the allocated blocks, lists | allocate, free, insert, find, remove |
| cJSON | `cJSON.c` | items, print buffer | parse, print, compare, minify, edit |
| Deployment | `deployment/` systemd units, udev rules | | restarts of all of the above |

The Paho library and cJSON are vendored, but they are compiled into each daemon
and every command and answer passes through them, so their core is modelled.

### 1.2 Interactions

```
 client --MQTT--> mosquitto --MQTT--> Paho thread in a daemon: msgarrvd
                     |                    |  gcs_sends_data_unpack (handler)
                     |                    |     shell commands, wan_way, key=value files
                     |                    |  gw_response_str: memset + memcpy into p_map
                     |                    |  kill(child, SIGCONT)
                     |                    v
                     <--------MQTT-- child: sleep, copy p_map, connect, publish
 systemd restarts a daemon that exits (connlost sets a flag, main() polls it)
 three daemons + publisher share the key=value files, without a lock
 serial line --> ring buffer --> mosquitto_pub             (Zigbee reader)
 SX1301 FIFO --> lgw_receive --> mosquitto_pub; lgw_send   (LoRa bridge)

 inside a daemon:  application calls --mutex, semaphores, m->pack--> MQTTClient_run
                   MQTTClient_run --> cycle --> Socket (select) --> SocketBuffer
                   --> MQTTPacket_Factory --> handlePublishes/acks --> lists, files
```

### 1.3 What is hard about it

* The parent's callback thread and the child share `p_map` with no lock, and the
  wake-up is a signal that is lost on a child that is not stopped.
* A handler applies a configuration with a dozen commands, each of which may
  fail, and persists it over several files; the daemon may be killed anywhere.
* Several processes rewrite one file by truncating and writing it.
* A session goes through lists in memory and files on disk that change one at a
  time, over connections that break, with message ids that wrap round.
* A synchronous call gives the mutex back while the receive thread works for it;
  the answer travels through one field per client.
* Packets are cut at any byte in both directions, and the parts are kept per
  socket in structures shared by all sockets.
* The ring buffer mixes unsigned cursors, negative offsets and a cursor that may
  stand at the length of the array.
* The LoRa driver caches the chip's page, exchanges bytes with a controller by
  fixed waits a signal may cut, and compares times of a counter that wraps.

`PROJECT.json` lists every such hazard at its line, with the properties that
watch it. Three have none, because the code lets them happen and promises nothing
afterwards: a kill between `wan_way` and the keys; updates of two daemons that overlap, or a report whose reads
a command fell between; and results nobody looks at, of the bluetooth profile's
update, of the WAN switch's `open` and of `lgw_receive`'s transfers. The models have
these steps; the properties next to them say what holds all the same.

## 2. Modules

| Module | Models | Kind |
|---|---|---|
| `ConfDaemon` | one configuration daemon: parent, callback thread, child, broker, client, systemd | state machine |
| `ConfDaemonProofs` | its inductive invariant and theorems | proofs |
| `NetConf` | the network command handler against failing commands, files and links | state machine |
| `NetConfProofs` | its inductive invariant and theorems | proofs |
| `CommonConf` | the common command handler: devices, profile keys, descriptors, kills | state machine |
| `Reporting` | the publisher, reading next to `CommonConf` | composition (EXTENDS `CommonConf`) |
| `BlueConf` | the bluetooth command handler and `init_blue_net` | state machine |
| `KvStore` | `file_update_value` by several daemons, killed at any point | state machine |
| `WanSwitch` | the boot-time switch and `init_networking` | state machine |
| `ConfsProofs` | invariants and theorems of `BlueConf`, `KvStore`, `WanSwitch`, `CommonConf` and `Reporting`, and that the last implements the one before | proofs |
| `Sbuf` | the ring buffer's operations | operators on a record |
| `ByteQueue` | what ring buffer and search promise | abstract specification |
| `ZigbeeReader` | the reader's main loop and `sbuf_search_with_out_count`, round by round | state machine, refines `ByteQueue` |
| `LoraGateway` | the LoRa bridge with `lgw_receive`, signals and its transmissions | state machine |
| `LoraRegs` | registers, pages and bit fields, failing transfers | state machine |
| `LoraHal` | configuration, start and the exchange with the AGC controller | state machine |
| `LoraSend` | `lgw_send`: checks, metadata, trigger, and how the modem reads them | state machine |
| `LoraLbt` | `lbt_setup`, `lbt_is_channel_free` and the FPGA's scan | state machine |
| `DevicesProofs` | invariants and theorems of `LoraGateway`, `LoraLbt`, `LoraHal`, `LoraSend`, `LoraRegs` and `ZigbeeReader`, and that the last implements `ByteQueue` | proofs |
| `MqttSession` | QoS 1 and 2 flows, retries, queue, files, restart, and a broker | state machine, refines `MqttDelivery` |
| `MqttDelivery` | what a publisher is promised | abstract specification |
| `MqttSessionLemmas`, `MqttSessionProofs` | the views of the flows in the two directions, the operators, the types; the invariants, their theorems and the refinement | proofs |
| `MqttThreads` | application threads and `MQTTClient_run` of one client | state machine |
| `MqttThreadsProofs` | its inductive invariant and theorems | proofs |
| `MqttHandles` | several clients in one thread: yield, receive, wait | state machine |
| `MqttHandlesProofs` | its inductive invariant and theorem | proofs |
| `MqttCodec` | packets, properties and strings as bytes | operators, one-shot state machine |
| `SocketBuffer` | reading packets from cut streams | state machine |
| `Socket` | select, cut writes and their continuation | state machine |
| `WebSocket` | frames and handshake key | state machine |
| `Tree`, `Heap` | red-black tree; the allocator that records blocks in it | operators; state machine |
| `LinkedList` | doubly linked list with its `current` | state machine |
| `JsonText` | cJSON's printer and parser, `Compare`, `Minify` | operators, one-shot state machine |
| `JsonItems` | cJSON's item pointers against an abstract tree | state machine |
| `MCDevices`, `MCLibrary`, `MCConfs` | instances for TLC | sums of the above |

Each state machine module stands alone with its initial predicate, next-state
relation and specification (`Init`, `Next`, `Spec`, or with the module's prefix:
`BlueInit`, `HNext`, `GSpec`). The small ones are checked together: `MCDevices`,
`MCLibrary` and `MCConfs` have a variable `part` that never changes and says
which module this behaviour is about; the others keep their initial state. The
behaviours of a sum are exactly those of its parts, one after the other, so that
a run checks each part as if it were alone. `MCConfs` and `MCDevices` extend
their parts, so that the properties their runs check are the very definitions
the theorems are about, and TLC evaluates the assumptions the proofs use. The
parts of a sum do not interact in the code through state the models have; where
components do interact, a module composes them (`ConfDaemon`, `Reporting`,
`MqttSession`, `MqttThreads`, `LoraGateway`, `ZigbeeReader`).

Operators whose comment begins with "Fault:" are variations of the definition
behind them by a plausible programming error; no specification uses them. They
show for each property that it depends on what the code does.

### 2.1 ConfDaemon

One action per step that another process can get in between of. `p_map` and
`PAYLOAD` are arrays of `Cells` cells; a cell holds the number of the command its
bytes answer, 0 for zero bytes, so a torn copy shows as a payload with two
numbers. `ClearMap` is the `memset`, `FillMap` one step of the `memcpy` in
`gw_response_str`; `Measure` is the `strlen`, `Copy` one step of the child's
`memcpy`. The outcome of the handler is an input: a command is *answered* (a
response is written), *mute* (the handler returns something else than 1 without
a response: no JSON, a failed static set-up, a failed status file) or *unknown*
(it returns 1, and `msgarrvd` does not signal). `Signal` is `kill(fpid,
SIGCONT)`, which only a stopped child notices. `Restart` stands for the exit of
the parent, the child's SIGKILL and systemd's `Restart=always`. `client` is
chosen at the start and says when the client sends: at any time (`eager`), after
the publication that follows its last command (`patient`), or when the child has
stopped again as well (`spaced`).

### 2.2 NetConf

A configuration is a way and the values of its keys. `Script(way)` lists what
`set_wan_eth`, `set_wan_pppoe` and `set_wan_wifi` write and run, in order;
`ApplyStep` executes the next entry, `ApplyFails` is a command that failed twice
and makes the function return. What a service reads when it starts is in
`os.netFile`, `os.wpaFile` and `os.pppFile`, what runs is in `os.eth`, `os.wifi` and
`os.ppp`. The checking loop, its counter and its bound are kept; so is the order
of `wan_way`, the keys and the status file when a configuration is persisted.
The conversion of the configuration to the text of the files, the commands about
name servers and the address arithmetic are left out.

### 2.3 CommonConf, Reporting, BlueConf, KvStore, WanSwitch

In `CommonConf` a key is the position at which its command writes it, a command's
fields all have one value (so that what stems from two commands shows), and a
port's number of sensors is the key that says which of the others count.
`file_update_value` is one step; a `Kill` during it may leave its file empty, the
window `KvStore` models in detail. `leaked` counts the descriptors
`conf_uart_interface` does not close. Disks that fill up are left out.

`Reporting` adds the publisher. Its `DaemonStep` is any step of `CommonConf`; the
two meet only in the profile file. While the daemon is inside
`file_update_value` on that file a read may fail, as it does between truncating
and writing. The shell commands behind the figures are one step that may fail.

In `BlueConf` the five `hciconfig` commands of the handler and of `init_blue_net`
are one script, run for a command or (`booting`) at a start. `Connect` is one run
of `bluetoothctl`, which powers the module off and on; what it and `hciconfig` do
to the module is external. The order of a list from `hcitool con` is left open.
`connected_blue_device` reads the name of the device and then its type into one
buffer; `file_get_value` puts no NUL behind what it copies, so a type that is
shorter is told with the end of the name behind it. `NameLen` and `TypeLen` are the
lengths, `listed.rest` is the device whose name the end belongs to (`Behind`).
The text of the start's message is not modelled: `init_blue_net.c:104` tests
`ret_blue` where it writes about the network.

In `KvStore` the file is a sequence of lines of equal length. `Load` is everything
`file_update_value` does until its reading loop ends; then either `Truncate`
(`fopen "w+"`) and `Write`, or `AppendLine` at the position where this process
met the end of the file, which need not be the end any more: `WriteAt` is what
writing at an offset does to an ordinary file. `FileKill` stops a process
anywhere.

`WanSwitch` runs a script of commands per way, each tried twice; a negative
number in it is what the program returns when both fail, 0 says that the failure
is passed over. `write_file` takes 0 for the error of `open`. As in
`conf_network.c` the message at the end is decided by the loop's counter.

### 2.4 Sbuf, ZigbeeReader, ByteQueue

`Sbuf` has the ring's record and one operator per C function, with sums taken
modulo `Wrap` (the code's 2^32) before they are reduced modulo `Length`, and
cursors that may equal `Length`. `ZigbeeReader` has one action per branch of the
search loop. `ByteQueue` is the contract; `ZigbeeReader!Queue` is the instance
under the mapping `q <- Contents(sb)`.

### 2.5 LoRa

`LoraRegs`: a register is a field of some bits at a page and address (`Registers`
has one on the FPGA, two that share a byte, and a signed one over two bytes); a
byte has `ByteBits` bits. `link` is `lgw_spi_target`, `cached` is `lgw_regpage`,
`page` what the chip has selected. `doubt` marks registers no one vouches for
after a transfer that failed. Values are of 32 bits (`Values`); a register of that
size is read as it is, signed or not. `RegisterTable` says what the tables of the
two chips have in common, `loregs` and `fpga_regs` without the registers written by
name and the alias `TX_TRIG_ALL`.

`LoraHal`: `at` walks through `lgw_start`; the AGC controller is a process of its
own that sees the register the host writes only when the host's wait was not cut
by a signal (`cuts`). `LoraSend`: one action checks, lays out and triggers a
packet; the `Reads...` operators are the modem's side, translated from the
comments about the metadata, so that the property compares two sides. `LoraLbt`:
time is scaled to ticks and has a true value and a counted one; the stamp of a
channel and the end of a packet are compared as the code does, through the wrap.

`LoraGateway`: the radio receives into a FIFO, `Fetch` is one turn of
`lgw_receive`'s loop with its three transfers, each of which may fail; `stale` is
what `buff` holds from before. `Interrupt` and `Quit` are SIGINT and SIGQUIT,
which are ignored while `system()` runs; `Terminate` is SIGTERM, what systemd
sends.

### 2.6 Paho: MqttSession, MqttDelivery

The mutex makes a handler atomic, so there is one action per packet handler; its
operations on files are left in `todo` and done one per `DiskStep`, so that a
`Crash` falls between any two of them and `Create` restores from what is there.
`held` is a packet the kernel took in part: it is finished by `ContinueWrite` and
blocks others meanwhile. A `Publish` that cannot write its packet closes the
session and succeeds all the same, since the library means to send it again; with
a clean session that close empties the list. `broker` is the server's side as the standard has it; it
repeats what was not acknowledged on a new connection, PUBRELs with or without
the duplicate flag (`relDup`; MQTT 3.1.1 has none). `Modes` are a persistent
session with files and a clean one without; the daemons use the latter.
`MqttDelivery` is the promise to the publisher; `DeliveryKept` is the refinement. It
lets a clean session give a message up, also in the step that accepts it.

### 2.7 Paho: MqttThreads, MqttHandles

In `MqttThreads` a step is a critical section of `mqttclient_mutex`. `run` is the
receive thread, `app[t].pc` the place of an application thread in connect,
subscribe, unsubscribe or disconnect. A wait may be given up at any time
(`hist.gaveUp`), the broker may refuse, close or not answer.

The gateway's programs call the client from one thread, and so does the run. With
two application threads a subscribe may take what an unsubscribe waits for,
because `m->pack` is one field. The header says both that "The MQTTClient API is
not thread safe" (`MQTTClient.h:53`) and that it is but for two functions (`:37`).

`MqttHandles` is the use without callbacks. Each call of `MQTTClient_cycle` reads
from whatever socket is ready and overwrites `rc`; `call.rc` is that variable.

### 2.8 Paho and cJSON below the session

`SocketBuffer`: bytes have names, so that a byte read twice or in another packet
shows; the default queue and the queues per socket change places as in the code.
`Socket`: select, the scan with its cursor, and writes of which the kernel takes
any number of bytes. `WebSocket`: a byte records the masks applied to it, so that
masking twice with two keys shows. `MqttCodec` writes each packet as the library
does and, from the standard's layout, as it is meant; it also reads the broker's
bytes. `Tree` and `LinkedList` have the pointer assignments of the functions and
are compared with a set and a sequence; `JsonItems` likewise with a tree. No caller
keeps a pointer to a tree's node over an operation, so that a node goes by its
content between two of them (`Renamed`); two trees that differ only in where their
nodes were allocated are one state.
`JsonText` prints and parses values character by character code, because what it
is about is the conversion.

## 3. Runs

| Run | Bounds | Shows |
|---|---|---|
| `daemon` | 3 commands of any kind, 2 cells, 1 outage, the three clients, fairness | never more publications than wake-ups; responses leave in order even when torn or repeated; a client that waits gets its answer whole; a dead child is replaced; each command of a client that leaves the child time is settled |
| `netconf` | 2 commands, 2 values, 2 keys, 2 checks (wifi: 3), 1 kill, fairness | a refused command changes no profile; the uplink is the persisted configuration; yes is true; nothing is persisted before its link was seen; the handler returns |
| `mqtt_session` | 2 messages of any direction and QoS, 2 faults, window 2, 5 ids, ids starting at 0 and before the wrap, fairness | the files would restore the session at any time; no accepted message is lost or given up, QoS 2 arrives once; order; publications and offers come to an end |
| `mqtt_threads` | 3 calls, 1 fault, 1 message, one application thread, fairness | a call takes only its own answer and, with nothing broken, succeeds; a connected client is served; every call returns and a closed connection is noticed |
| `library` | see 3.1 | containers, streams, text, packets, frames and handles are what their interfaces say |
| `devices` | see 3.1, fairness of reader and bridge | the LoRa driver's registers, start, packets and channel check; the bridge and the Zigbee reader |
| `confs` | see 3.1 | the configuration handlers, the shared file and the switch |
| `blue_list` | 2 commands, 2 devices; the `blue` part of `MCConfs` | finding: with two devices connected one address is listed twice |
| `netconf_last_check` | 1 command | finding: a link that comes up at the last check is refused |
| `mqtt_session_clean` | 1 message, 1 fault, a clean session | finding: a publication that fails to be written is accepted for a retry and dropped in the same call |
| `websocket_frames` | payloads around the edges of the header's forms | finding: a gap in the frame at four lengths; a second transmission is garbled |
| `receive_other` | 2 clients | finding: `MQTTClient_receive` closes a sound connection |

### 3.1 Bounds of the sums

* `library`: 10 addresses for the heap, any of which may be allocated or free. Trees
  of up to ten records with every order of insertions and removals reach every
  branch of `Tree.c` that a tree with one index can take: red siblings with black
  children, the walk up past an inner parent, uncles and grandparents recoloured
  below the root. The one branch of the model not taken is that for a missing
  sibling, which no valid red-black tree has. 4 list contents with 2 keys; 2 sockets, 3
  connections and packets with a length of one and two digits; 2 writes of three
  buffers per socket and 2 openings; JSON values up to one level beyond the
  nesting limit with strings that need every kind of escape, and buffers to
  start with that do not fit, almost fit and fit, each as one given for good and as one
  that may grow, which also starts from nothing, as in `cJSON_Print`; 4 items; packets of each type in versions
  3, 4 and 5, with properties of every type and lengths on both sides of 128, and
  all strings of up to three bytes from the edges of UTF-8's ranges; frames on
  both sides of each header form, with 140 for 65536; 2 clients with 2 messages,
  1 token, 1 loss and 2 connections. `Parts` of `MCLibrary` says which of these a
  run explores: the two findings explore one each.
* `devices`: a ring of 6 with chunks of 2 and length bytes that announce frames
  that fit and that do not; 4 registers and 2-bit bytes; 3 gain tables, 2 cut
  waits; packets of both modulations at the edges of each field; 2 LBT channels
  and a counter that wraps once; a bridge with 4 packets of two kinds, 1 fault
  and 1 signal.
* `confs`: 2 common commands, 1 descriptor to lose, 1 kill, 1 run of the
  publisher; 3 bluetooth commands (two devices connected one after the other and
  then listed) and 2 events (kill, boot, link), with a name that is longer than its
  type by two characters and one by one, the edge between which a part of the name
  stays behind the type; 2 daemons with
  3 updates of 2 keys; 3 switches with 3 checks.

Why the bounds suffice. Two cells are the least that can be torn. Three commands
let one be copied, one be written and one wait. One outage hits every point of a
command's life; a second one begins in the state after a restart, which is an
initial state again. Two commands in a row let the second start from whatever
the first left behind. Three updates let two overlap and a third build on what
they left. A ring of six with chunks of two wraps around at every offset and
reaches both `wcursor = Length` and `rcursor = Length`. Two messages and two
faults let a restart or a lost connection meet both a message and its
predecessor; five ids, of which two are in use, wrap within the run.

Runs without a deadlock check are those whose system stops when its inputs are
used up (`CHECK_DEADLOCK FALSE`): a daemon nobody sends commands to is at rest.

### 3.2 Fairness and timing

`ConfDaemon`: weak fairness of the parent, of the library's thread and of the
child, which the kernel schedules, and of the broker's return, which mosquitto's
own unit restarts; none of the client. `NetConf`: weak fairness of the handler,
whose commands end by themselves or are bounded. `ZigbeeReader`: weak fairness of
the search, of sending and of systemd's restart; none of the device.
`MqttSession`: the receive thread never stops cycling, a socket becomes writable,
the file operations go on, systemd restarts the process, the application
connects again, the broker reads; none of drops, kills or publishing.
`MqttThreads`: each thread runs, the receive thread too, and the kernel ends every
attempt at a TCP connection; none of the broker, since every wait is bounded.
`LoraGateway`: the program runs, `mosquitto_pub` ends and an emission ends.

Timing assumptions: the receive thread starts within the 100 ms
`MQTTClient_connect` gives it; an emission is shorter than the ten seconds for
which the bridge polls; a wait for an answer may end at any time.

### 3.3 What properties excuse

An excuse is a history variable that says what happened, never a state left out:
lost writes and roll-backs that did not get through (`NetConf`), keys that could
not be written and kills (`CommonConf`), an update of the connected device that
ended between its name and its type (`BlueConf`, `torn`; any other key that was not
written and any other kill is not excused), updates that overlap
(`KvStore`), a publisher that ran while the daemon worked (`Reporting`), retries
that stopped at a partial write of their connection (`MqttSession`, `stalled`),
packets that came after the call had given them up (`MqttThreads`, `late`),
transfers that failed unnoticed (`LoraRegs`, `doubt`; `LoraGateway`, `spoilt`).

## 4. Proofs

Every theorem holds for all values of the constants that satisfy the module's
named assumptions. The assumptions are those a `.cfg` has to meet as well: they
stand in the module that declares the constants, and TLC evaluates them. Each
proof goes the same way: an inductive invariant as a conjunction of named parts,
a lemma per action (or per group of actions that touch the same parts), and one
temporal step. TLC has checked each invariant on small instances first.

| Proof module | Theorem | Says |
|---|---|---|
| `ConfDaemonProofs` | `TypeCorrect`, `PublicationsAreSignalled` | `TypeOK`; `OnePublicationPerSignal` |
| | `ResponsesStayInOrder` | `NeverBackInTime`: what is published is never older than what was published before |
| | `AnswersReachTheAsker` | `AnswersTheAsker`, an action property: a client that waits gets its own answer whole |
| `NetConfProofs` | `TypeCorrect`, `RefusalKeepsProfile`, `UplinkMatchesProfile`, `YesIsTheTruth`, `PersistingNeedsLink` | the type invariant and the four safety properties of the run |
| `ConfsProofs` | `BlueTypeCorrect`, `SettingsAreToldAlways` | types; `SettingsAreTold` |
| | `FileTypeCorrect`, `UpdatesSurvive` | of `KvStore`: types; `UpdatesAreKept` |
| | `SwitchLeavesOneUplink` | of `WanSwitch`: `OneUplink` |
| | `CommonTypeCorrect`, `AnswersHold` | of `CommonConf`: types, and that every answer tells what was done |
| | `ReportingImplementsCommon` | the publisher next to the daemon is an implementation of the daemon alone |
| | `ReportTypeCorrect`, `ReportsReachOnePlatform` | types; a report does not mix two settings of the platform |
| `MqttThreadsProofs` | `ThreadTypeCorrect` | types, for any number of application threads |
| | `CallsGetTheirAnswer`, `ConnectionIsServed` | `CallsAreAnswered`, `ConnectedIsServed`, for one application thread |
| `DevicesProofs` | `TypesHold`, `WhyBytesWait` | of `ZigbeeReader`: types; `OnlyAJamRefuses` |
| | `RingIsAQueue` | `QueueSpec`: the reader implements `ByteQueue` |
| | `EveryReadingArrives` | of `LoraGateway`: `EveryReadingOnce` |
| | `GrantsAreRecent` | of `LoraLbt`: `AllowedMeansRecentlyFree` |
| | `StartConfigures` | of `LoraHal`: `StartedAsConfigured` |
| | `SendsAsAsked` | of `LoraSend`: `TriggeredIsAsked` |
| | `WhatIsWrittenIsRead` | of `LoraRegs`: `WrittenIsRead`, for every `RegisterTable` |
| `MqttHandlesProofs` | `ClientsAreApart` | `HandlesAreApart`, for any number of clients |
| `MqttSessionProofs` | `TypesAreKept` | `TypeOK` of `MqttSession` |
| | `NothingIsLost` | `KeptUntilReceived`: what the broker lacks is in the list or on disk |
| | `DiskIsEnough` | `SessionIsOnDisk`: that, the types, and that the files give the lists back |
| | `DeliveryIsKept` | `DeliveryKept`: the session implements `MqttDelivery` |
| | `ArrivalsAreSingle` | `ArrivesOnce`, the promise to the receiving application |

### 4.1 The arguments

*ConfDaemon.* The memcpy stays inside the mapping only because the handler stops
at the end of the response (`FillInv`), and publications stay behind signals only
because a child that is awake holds a wake-up it has not used (`SignalInv`). The
order of responses needs that at any time the mapping, the child's copy and the
last publication hold, cell by cell, commands in descending age; that a waiting
client gets its answer needs that nothing else writes the mapping between its
command and the publication it waits for.

*NetConf.* `EffectInv`: after n entries of the script n of its effects hold
(`Applied`, lemma `AppliedStep`), so that all put the target in effect;
`TargetInv`: the target is the command or, rolling back, what is persisted;
`BeforeInv`: nothing persistent changed before `PersistWay`; `KeysInv`: how many
keys of the profile are written; `PersistInv`: only a checked command that is
not rolled back comes that far. `lost` and `unrestored` are what is excused.

*CommonConf and Reporting.* The keys a command has written are a prefix of its
keys, each with its content; the publisher's reads are a prefix of its list,
and what it has read is still in the file unless the daemon worked meanwhile.
That `Reporting` implements `CommonConf` needs no invariant: each of its steps
is one of the daemon or leaves the daemon's variables alone.

*BlueConf.* `StageIsKnown` says what a step of the script or of the profile update
may rely on, `Follows` (in `ModuleIsOnItsWay`) what the first entries of the script
have made of the module, `ProfileIsOld` that a refused command wrote nothing,
`DeviceIsWhole` that the keys of the connected device are of one device except
while they are written or after an update that ended half way; an update killed
while the file was empty leaves none of them.

*KvStore.* While no two updates have overlapped at most one daemon is at work
(`TurnsInv`), so what it read is still the file when it writes, and its buffer,
or its line at the end it saw, makes of the file what the store will be
(`UpdateInv`).

*WanSwitch.* The invariant follows the script: it says what the commands done so
far have left of the interfaces, given the ones that failed and were spared.

*MqttThreads.* With one application thread one answer is due at a time, and the
invariant says where it can be: asked of the broker, on its way, read by the
receive thread, or handed on in `m->pack` with its post (`OneAnswer`, `Posted`); that
the queue of messages holds at most the one in its callback (`Queue`); and that
the answer to a connect is handed on only by a receive thread that goes on
(`Serve`). `OneThread` is the hypothesis of the two theorems, see 2.7.

*Zigbee reader.* `Count` is how far the cursors are apart on the circle, although a
cursor may stand at the length of the array (`CountIs`, `CountBy`); from that what
`sbuf_in`, `sbuf_out` and the moves of the cursor make of the contents (`Grows`,
`TakeIs`, `SkipIs`, and `PutBackIs` for a rejected frame, taken and put back through
the wrap of an unsigned sum). Rounds done and bytes left are the count the search
began with (`RoundsAreBytes`), so one byte at most is left when it ends, and a
chunk can only be refused beside a frame that is not complete. `BufSizeAssumption`
asks for room for a chunk beside two waiting bytes: 64 and 256 in the code.

*LoraGateway.* Published, fetched and buffered packets stand in one line, strictly
ordered but for packets a failed transfer fetched twice (`InLine`), and every
packet that arrived is in it or excused (`NoneLost`).

*LoraLbt.* Masking loses less than a granule and the wraps, so the difference the
code computes differs from the true one by less than three granules plus a
multiple of the period; `TimeAssumption` says that packet and last scan lie
within one period, which leaves only the multiple 0. The proof is about one
channel; of two the code takes the smaller stamp (see 5).

*LoraHal.* The handshake has no sequence numbers: the host knows only the status.
The invariant says how far the controller is behind: at most one value, and a
check sees that in the status, except after a table of one entry, whose status is
also the one of the value that ends the table (48); the next check sees it then.
`HalAssumption` excludes a maximal table of four entries, where 48 + 3 would be a
second such coincidence; `TX_GAIN_LUT_SIZE_MAX` is 16. It excludes a table of one
entry as well, and of none.

*LoraSend.* Whatever is triggered, the buffer holds the metadata of the packet
asked for last, but for bits nobody reads, and the delay is that packet's
(`TriggerInv`). The rest is arithmetic of bytes that fields share: what the modem
reads of each is what the host put there (`AskedIsRead`, `FrequencyIsRead`,
`PowerIsRead`, `InstantIsRead`). The assumptions are the ranges of the fields of
`lgw_pkt_tx_s`, a table of 1 to 16 entries and a delay of the notch filter of at
most 5 us. That no entry within the limit is stronger than the one sent is
claimed of a table in ascending order, as the search presumes.

*LoraRegs.* The bytes of every register outside `doubt` say what it was told
(`Told`), and the page selected is the cached one unless all registers with a page
are in doubt (`InStep`): a write then reaches the register's own bytes, or only
bytes of registers in doubt. That a field is read as written and its neighbours in
the byte are left is arithmetic of quotients and remainders of powers of two
(`DividedTwice`, `BitsReplaced`, `LeftAndBack`, and `WordIsBack` for the loops over
several bytes). The one assumption is `RegisterTable`, which TLC evaluates on the
registers of the run.

*MqttHandles.* For each client what the broker sent, what its socket holds and
what its queue and its callers have got are, while it is connected, one interval
of numbers in order (`Good`), and the tokens given out are in its list or acknowledged. `rc` and the
socket that happens to be ready are shared, but a step writes the entry of one
client only.

*MqttSession.* A `View` is the publisher's flows, each an id and a message, as the
files of a persistent session or the list of a clean one give them, with what
travels in the two directions and what the broker holds and has received.
`Store` says that list and files agree up to the removals a handler has still to
do (`MirrorInv`), so a kill between two of them loses nothing. `Sound` says that
one packet of a flow travels at a time, that what travels fits the state the
flow is in at both ends, and that what the broker lacks has a flow (`KeptOK`). No
order of the packets is needed: a retry is sent only on a new connection, which
took all that travelled away. Steps of the view are lemmas about constants
(`Accepted`, `ReceivedNow`, `Released`, `PubrelRead`, `Forgotten`, `Resent`, `Reset`,
`Unseen`); each action is shown to be one of them. Steps of the promise
follow: publishing accepts, the broker's first reading receives, the removal of
the file (or of the entry, in a clean session) completes, and closing a clean
session abandons. A publish that cannot be written is two such steps in one, the
acceptance and the close that follows it in the call; the lemmas take it apart
(`PublishSplits`, `PublishFailsFacts`) and cite those of both.
  For the messages to the client the broker is the publisher: its entries are
the flows of a second view, `Inward`, the inbound list holds the ids that `broker.in`
holds in the first, and a message counts as received when it is in the inbound
list, in the queue, or was handed over. The same `Sound` holds of it, and the same
lemmas about constants are cited; `Once` adds that a message is in one of the three
places only, which needs the order in which `MQTTProtocol_handlePublishes` and
`MQTTProtocol_handlePubrels` move it. A duplicate of a finished flow is told from a new
message by `WireOK` alone: the broker repeats an entry on a new connection only. All
of this holds until the process is killed: a kill loses what was between the
queue and its file, and hands over again what was between `messageArrived` and
the removal of the file (`Receiving`).
  What a restart finds is compared with the lists the process had (`Filing`). In the
queue the numbers rise and each entry has its file or the `put` still to be done; a
`put` comes first in `todo`, its number above every file's; and the number of a file
without an entry is due to be removed. Every inbound message has its file under its
id. While a packet is half written, a PUBLISH replaces the file of an id that is in
the list and leaves the list as it is: the same message, as the receiving half shows,
unless a kill left a file whose removal was still due and the broker has used its id
again; so the text is claimed until the first kill. For the
order, `MQTTClient_create` sorts what it finds by number and turns the publications
at the largest gap (`MQTTPersistence_wrapMsgID`): two lists in strict order with the
same elements are one (`OneOrder`), and when the ids lie within half of the circle
the largest gap is where the list begins (`WindowComesBack`).

### 4.2 What is only model-checked, and why

* Liveness (`EveryCommandIsSettled`, `HandlerReturns`, `NothingHangs` and the like):
  the prover has no rules for fairness.
* Modules with recursive operators, which the provers do not reach: `JsonItems`,
  `JsonText`, `LinkedList`, `MqttCodec`, `Socket`, `SocketBuffer`, `Tree` (and `Heap`,
  which extends it) and `WebSocket`.
* Of `MqttSession` the order of first receipts (`NoOvertaking`): the invariants above
  need no order of what travels, and this would.

## 5. What the models say about the code

Besides the five findings, the models record behaviour of the code that no
comment contradicts and that the properties therefore state as it is.

* Daemons: the result of `MQTTClient_waitForCompletion` is not looked at; a mute
  command makes the child publish what `p_map` still holds.
* Session: `MQTTClient_publish5` reports success for a publication it could not write,
  since it will be sent again (`MQTTClient.c:2172`); the close on the line before
  empties the list of a clean session (`MQTTClient.c:1009`), so that nothing is left
  to be sent. A packet to be answered while a write is pending closes the session; ids
  start at 0 after a restart without messages; the order of restored messages is
  right only while the ids in flight lie within half of the circle; entries of
  the queue are persisted under `q5-` and removed under `q-` in version 5.
* Handles: `rc` is never reset between two cycles; destroying a connected client
  leaves its socket open; `connectURIVersion` that fails leaves the thread
  running.
* Sockets: the length of the header in a new default queue is not initialised;
  `Socket_close` leaves the bits of `rset` and `wset`.
* Packets: of version 5, an orderly DISCONNECT without reason and properties is
  not sent (`MQTTPacket.c:487`), one of less than three bytes is read as success;
  two- and four-byte integers in the upper half of their range are written wrong;
  a receive maximum of 32768 or more is taken for a negative number.
* WebSocket: the test for PING reads `PONG || PONG` (`WebSocket.c:854`), so that
  it is not answered; the close frame has no mask.
* cJSON: bad digits of a `\u` literal count as 0; text behind a value is ignored;
  `Compare` of an object with a key twice with itself may say no.
* LoRa: failed page switches and soft resets are not reported; a failed read in a
  read-modify-write writes over zero; a failed start leaves `lgw_is_started`
  set; a refused gain table is copied up to the refused entry; a radio selection
  of 16 is taken for `AGC_CMD_WAIT`; of two channels the smaller stamp counts,
  wrapped or not (`loragw_lbt.c:315`); SIGINT during `system()` is ignored.
* WAN switch: a file that cannot be opened goes unnoticed (`!fd`).

## 6. Not modelled

* The text of messages, files and logs; opening and configuring devices.
* `check_static_address` and `get_gw_ip` (pure address arithmetic), the table of
  shell commands in `cmd.c`.
* Paho: MQTT 5 sessions (the session and thread models are 3.1.1), QoS 0, which
  keeps no state, subscriptions as such, failing persistence, name resolution,
  proxies, TLS (not compiled in), receiving over WebSockets, the trace.
* `MQTTAsync.c` and `*_bak.c`, which the Makefile does not compile.
* Semtech HAL: the demodulation part of `lgw_receive`, the registers of the
  radios, GPS, test programs other than the bridge.
* cJSON: doubles beyond integers, failing allocation, comments in `Minify`.

## 7. Plan for the proofs

Next: `NoOvertaking`, with the order of the packets and of the list side by side.
