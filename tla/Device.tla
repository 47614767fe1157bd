------------------------------- MODULE Device -------------------------------
(***************************************************************************)
(* The services of the HTTP client (machine.go, configs.go, drives.go,     *)
(* files.go, runners.go, feed of keyboard.go, on client.go) and the        *)
(* commands of c64ctl that call them, one after the other. A command is a  *)
(* script of requests that ends at the first error.                        *)
(*                                                                         *)
(* The device is external: settings in RAM and in flash, drives, the CPU,  *)
(* the program, memory and the keyboard buffer, which requests that it     *)
(* obeys update and which its KERNAL reads keys from at any moment. It     *)
(* refuses by status, or with errors in the body of a successful answer,   *)
(* and any answer may get lost.                                            *)
(***************************************************************************)
EXTENDS Integers, Sequences, SequencesExt

CONSTANTS
  Category,     \* Category[s]: the category of setting s
  Switch,       \* settings that are on or off; the others are numbers
  WithUnit,     \* those the device shows with a unit
  DriveID,      \* the drives; the first is DriveA
  DriveA,
  Keys,         \* Keys[t]: the number of keys of the text t
  Top,          \* the number of addresses (65536)
  Command,      \* what users ask c64ctl, or a program the library, to do
  MaxCommands   \* bound: commands

Setting == DOMAIN Category

VARIABLES
  device,       \* what the device holds
  before,       \* what it held when the command began
  command,      \* the command that runs, or the last one
  sofar,        \* how many of its requests have succeeded
  outcome,      \* "none" before the first command, "running", "nil", "failed"
  readback,     \* what the last reading request returned
  at1,          \* "call", "sent", "answered"
  answer,       \* the answer of the device
  invoked       \* commands so far

httpVars == <<device, before, command, sofar, outcome, readback, at1, answer, invoked>>

Nowhere == ""

-----------------------------------------------------------------------------
(* The values of settings: a caller means a truth value or a number; what  *)
(* the device shows is a word or a number, which may have a unit.          *)

\* ConfigMap.Bool and ConfigMap.Int: what they read.
Unknown == "unknown"
Bool(v) == CASE v \in {"Enabled", "2"} -> "true" [] v \in {"Disabled", "0"} -> "false" [] OTHER -> Unknown
Int1(v) == CASE v \in {"0", "0 dB"} -> "0" [] v \in {"2", "2 dB"} -> "2" [] OTHER -> Unknown

\* SetBool and SetInt: words and bare numbers.
Encoded(meant) == CASE meant = "true" -> "Enabled" [] meant = "false" -> "Disabled" [] OTHER -> meant

\* What a caller reads in a setting.
Shown(s, v) == IF s \in Switch THEN Bool(v) ELSE Int1(v)

-----------------------------------------------------------------------------
(* Requests and commands: what to do, with which drive, setting, category  *)
(* or format, with which file, text or value, and two numbers.             *)

Do(op, on, value, args) == [op |-> op, on |-> on, value |-> value, args |-> args]
None == <<0, 0>>

\* A setting is set to what its kind can mean; a text to type has keys.
ASSUME CommandAssumption ==
  /\ DriveA \in DriveID /\ "LOAD RUN" \in DOMAIN Keys /\ Keys["LOAD RUN"] = 17
  /\ \A t \in DOMAIN Keys : Keys[t] \in Nat \ {0}
  /\ \A c \in Command :
       /\ c = Do(c.op, c.on, c.value, c.args)
       /\ c.op = "Set" => c.on \in Setting /\ c.value \in IF c.on \in Switch THEN {"true", "false"} ELSE {"0", "2"}
       /\ c.op = "Get" => c.on \in Setting
       /\ c.op \in {"MountBytes", "Unmount", "Drives", "LoadROM", "SetMode", "TurnOn", "TurnOff"} => c.on \in DriveID
       /\ c.op = "type" => c.value \in DOMAIN Keys

\* The chunks of a text: ten keys at a time.
KernalKeyBufMax == 10
Chunks(text) == (Keys[text] + KernalKeyBufMax - 1) \div KernalKeyBufMax

\* Mutant of feed: the buffer is not polled.
feedBlind(text) ==
  [j \in 1 .. 2 * Chunks(text) |->
     Do(<<"PutKeys", "PutCount">>[((j - 1) % 2) + 1], Nowhere, text, <<((j - 1) \div 2) + 1, 0>>)]

\* feed: each chunk once the buffer is seen empty: the keys, then their number.
feed(text) ==
  [j \in 1 .. 3 * Chunks(text) |->
     Do(<<"Poll", "PutKeys", "PutCount">>[((j - 1) % 3) + 1], Nowhere, text, <<((j - 1) \div 3) + 1, 0>>)]

DiskExt == {"d64", "d71", "d81", "g64"}

\* The routes of c64ctl run after its reset: a disk is mounted and typed for (cmdPlay),
\* a tape entry in range and everything else goes to one of the runners, by the
\* extension; Fail is a file that cannot be read, an entry out of range, a .tap file.
Route(c) ==
  CASE c.on \in DiskExt -> <<Do("MountBytes", DriveA, c.value, None)>> \o feed("LOAD RUN")
    [] c.on = "tap" \/ c.on = "unreadable" \/ (c.on = "t64" /\ c.args[1] \notin 0 .. c.args[2] - 1)
       -> <<Do("Fail", Nowhere, Nowhere, None)>>
    [] OTHER -> <<Do("RunBytes", Nowhere, c.value, None)>>

\* drive-reset knows the first drive only.
Script(c) ==
  CASE c.op = "run" -> <<Do("Reset", Nowhere, Nowhere, None)>> \o Route(c)
    [] c.op = "type" -> feed(c.value)
    [] c.op = "drive-reset" -> <<Do("ResetDrive", DriveA, Nowhere, None)>>
    [] OTHER -> <<c>>

\* The settings a flash command is about: one category, or all.
Scope(r) == {s \in Setting : r.on = Nowhere \/ Category[s] = r.on}

\* The two values of a setting, as the device shows them.
Default(s) == IF s \in Switch THEN "Disabled" ELSE IF s \in WithUnit THEN "0 dB" ELSE "0"

Raised(s) == IF s \in Switch THEN "Enabled" ELSE IF s \in WithUnit THEN "2 dB" ELSE "2"

\* The device shows the number of some settings with a unit.
Stored(s, v) == IF s \in WithUnit \ Switch THEN IF v = "0" THEN "0 dB" ELSE "2 dB" ELSE v

\* The settings with those of the scope of a request taken from another map. Apply sends
\* a map of settings as List returned them.
Over(r, old, new(_)) == [s \in Setting |-> IF s \in Scope(r) THEN new(s) ELSE old[s]]
ConfigsCall(r, d) ==
  CASE r.op = "Set" -> [d EXCEPT !.ram[r.on] = Stored(r.on, Encoded(r.value))]
    [] r.op = "Apply" -> [d EXCEPT !.ram = Over(r, @, Raised)]
    [] r.op = "SaveToFlash" -> [d EXCEPT !.flash = Over(r, @, LAMBDA s : d.ram[s])]
    [] r.op = "LoadFromFlash" -> [d EXCEPT !.ram = Over(r, @, LAMBDA s : d.flash[s])]
    [] OTHER -> [d EXCEPT !.ram = Over(r, @, Default)]

Everywhere(v) == [i \in DriveID |-> v]
MachineCall(r, d) ==
  CASE r.op = "Reboot" -> [d EXCEPT !.ram = d.flash, !.disk = Everywhere(Nowhere), !.rom = Everywhere(Nowhere),
                                    !.cpu = "running", !.program = Nowhere, !.memory = Nowhere,
                                    !.full = FALSE, !.typed = <<>>]
    [] r.op = "Reset" -> [d EXCEPT !.cpu = "running", !.program = Nowhere, !.full = FALSE, !.typed = <<>>]
    [] r.op \in {"Pause", "Resume", "PowerOff"} ->
         [d EXCEPT !.cpu = [Pause |-> "paused", Resume |-> "running", PowerOff |-> "off"][r.op]]
    [] r.op = "WriteMemory" -> [d EXCEPT !.memory = r.value]
    [] r.op = "PutKeys" -> [d EXCEPT !.keys = <<r.value, r.args[1]>>]
    [] r.op = "PutCount" -> [d EXCEPT !.full = TRUE]
    [] OTHER -> d

DrivesCall(r, d) ==
  CASE r.op = "MountBytes" -> [d EXCEPT !.disk[r.on] = r.value]
    [] r.op = "Unmount" -> [d EXCEPT !.disk[r.on] = Nowhere]
    [] r.op \in {"TurnOn", "TurnOff"} -> [d EXCEPT !.power[r.on] = IF r.op = "TurnOn" THEN "on" ELSE "off"]
    [] r.op = "LoadROM" -> [d EXCEPT !.rom[r.on] = r.value]
    [] r.op = "SetMode" -> [d EXCEPT !.rom[r.on] = Nowhere]
    [] OTHER -> d

RunnersCall(r, d) == IF r.op = "RunBytes" THEN [d EXCEPT !.program = r.value] ELSE d
FilesCall(r, d) == IF r.op = "Create" THEN [d EXCEPT !.image = r.value] ELSE d

\* What a request does to the device that obeys it.
Obeyed1(r, d) ==
  IF r.op \in {"Set", "Apply", "SaveToFlash", "LoadFromFlash", "ResetToDefault"} THEN ConfigsCall(r, d)
  ELSE FilesCall(r, RunnersCall(r, DrivesCall(r, MachineCall(r, d))))

\* The errors a method returns before it sends anything: WriteMemory of nothing or
\* past the end, a DNP image without and a D71 or D81 image with a number of tracks.
WriteRefused(r) == r.op = "WriteMemory" /\ (r.args[2] = 0 \/ r.args[1] + r.args[2] > Top)
CreateRefused(r) == r.op = "Create" /\ \/ r.on = "dnp" /\ r.args[1] = 0
                                       \/ r.on \in {"d71", "d81"} /\ r.args[1] # 0
Rejects(r) == r.op = "Fail" \/ WriteRefused(r) \/ CreateRefused(r)

Reads == {"Get", "List", "Drives", "Peek", "Poll"}

\* What a reading request returns.
Held(r, d) ==
  CASE r.op = "Get" -> d.ram[r.on]
    [] r.op = "Drives" -> d.disk[r.on]
    [] r.op = "Peek" -> d.memory
    [] r.op = "Poll" -> IF d.full THEN "keys" ELSE "empty"
    [] OTHER -> "list"

-----------------------------------------------------------------------------
(* Answers (client.go).                                                    *)

\* The status; whether the body lists errors; what it says, as JSON or as raw bytes.
Answer2(status, errors, value) == [status |-> status, errors |-> errors, value |-> value]
Silent == Answer2(0, FALSE, Unknown)

\* The bytes of a body that lists errors.
ErrorBody == "{errors}"

okStatus(status) == status \in {200, 203, 204}

doChecked(a) == IF okStatus(a.status) THEN "nil" ELSE "APIError"

\* Mutant of getJSON: a successful status is a success.
getJSONTrusting(a, wanted) ==
  IF doChecked(a) # "nil" THEN "APIError" ELSE IF wanted /\ a.status = 204 THEN "parse" ELSE "nil"

getJSON(a, wanted) ==
  IF doChecked(a) # "nil" \/ a.errors THEN "APIError" ELSE IF wanted /\ a.status = 204 THEN "parse" ELSE "nil"

getRaw(a) == doChecked(a)

\* parseConfigMap and GetItem: errors in the body, then the map of maps.
parseConfigMap(a) ==
  IF getRaw(a) # "nil" \/ a.errors THEN "APIError" ELSE IF a.status = 204 THEN "parse" ELSE "nil"

Outcome1(r, a) ==
  CASE r.op = "Get" -> parseConfigMap(a)
    [] r.op \in {"Peek", "Poll"} -> getRaw(a)
    [] OTHER -> getJSON(a, r.op \in Reads)

-----------------------------------------------------------------------------
HttpInit ==
  /\ device = [ram |-> [s \in Setting |-> Default(s)], flash |-> [s \in Setting |-> Default(s)],
               disk |-> Everywhere(Nowhere), rom |-> Everywhere(Nowhere), power |-> Everywhere("on"),
               cpu |-> "running", program |-> Nowhere, memory |-> Nowhere, image |-> Nowhere,
               keys |-> <<Nowhere, 0>>, full |-> FALSE, typed |-> <<>>]
  /\ before = device
  /\ command = Do(Nowhere, Nowhere, Nowhere, None) /\ sofar = 0 /\ outcome = "none"
  /\ readback = Unknown /\ at1 = "call" /\ answer = Silent /\ invoked = 0

Running1 == outcome = "running"
Now == Script(command)[sofar + 1]

Invoke(c) ==
  /\ ~Running1 /\ invoked < MaxCommands
  /\ command' = c /\ sofar' = 0 /\ outcome' = "running"
  /\ before' = device
  /\ invoked' = invoked + 1
  /\ UNCHANGED <<device, readback, at1, answer>>

Reject ==
  /\ Running1 /\ at1 = "call" /\ Rejects(Now)
  /\ outcome' = "failed"
  /\ UNCHANGED <<device, before, command, sofar, readback, at1, answer, invoked>>

SendRequest ==
  /\ Running1 /\ at1 = "call" /\ ~Rejects(Now)
  /\ at1' = "sent" /\ answer' = Silent
  /\ UNCHANGED <<device, before, command, sofar, outcome, readback, invoked>>

\* 204 stands for every body that cannot be parsed; memory is taken as it comes.
ObeyRequest ==
  /\ at1 = "sent" /\ device.cpu # "off"
  /\ device' = Obeyed1(Now, device)
  /\ \E status \in IF Now.op \in {"Peek", "Poll"} THEN {200} ELSE {200, 204} :
       answer' = Answer2(status, FALSE, IF Now.op \in Reads THEN Held(Now, device) ELSE Nowhere)
  /\ at1' = "answered"
  /\ UNCHANGED <<before, command, sofar, outcome, readback, invoked>>

\* It refuses, by its status or with errors in the body.
Refuse ==
  /\ at1 = "sent" /\ device.cpu # "off"
  /\ \E status \in {200, 203, 400} : answer' = Answer2(status, TRUE, ErrorBody)
  /\ at1' = "answered"
  /\ UNCHANGED <<device, before, command, sofar, outcome, readback, invoked>>

\* The answer is evaluated: the next request, the same one once more (feed polls until the
\* buffer is empty), the end of the command or its error.
Evaluate ==
  /\ at1 = "answered"
  /\ at1' = "call"
  /\ IF Outcome1(Now, answer) # "nil" THEN outcome' = "failed" /\ UNCHANGED <<sofar, readback>>
     ELSE /\ readback' = IF Now.op \in Reads THEN answer.value ELSE readback
          /\ IF Now.op = "Poll" /\ answer.value # "empty" THEN UNCHANGED <<sofar, outcome>>
             ELSE /\ sofar' = sofar + 1
                  /\ outcome' = IF sofar + 1 = Len(Script(command)) THEN "nil" ELSE "running"
  /\ UNCHANGED <<device, before, command, answer, invoked>>

\* do: the connection fails, a timeout, the end of the context: the request or
\* only its answer is lost.
RequestFails ==
  /\ at1 \in {"sent", "answered"}
  /\ at1' = "call" /\ outcome' = "failed"
  /\ UNCHANGED <<device, before, command, sofar, readback, answer, invoked>>

\* The KERNAL reads the keys of the buffer.
TakeKeys ==
  /\ device.full /\ device.cpu = "running"
  /\ device' = [device EXCEPT !.typed = Append(@, device.keys), !.full = FALSE]
  /\ UNCHANGED <<before, command, sofar, outcome, readback, at1, answer, invoked>>

HttpNext ==
  \/ \E c \in Command : Invoke(c)
  \/ Reject \/ SendRequest \/ ObeyRequest \/ Refuse \/ Evaluate \/ RequestFails \/ TakeKeys

HttpSpec == HttpInit /\ [][HttpNext]_httpVars

-----------------------------------------------------------------------------
(* Properties.                                                             *)

\* What has been typed on the C64, and waits in the buffer.
Entered(d) == d.typed \o IF d.full THEN <<d.keys>> ELSE <<>>
Text1(t) == [i \in 1 .. Chunks(t) |-> <<t, i>>]

\* Once c64ctl run has reset the C64 for a disk image, and wherever it stops after that
\* (a mount that is refused, an answer that is lost between two chunks of keys), what
\* the C64 is told is a beginning of LOAD and RUN: keys of an earlier command that
\* failed do not come before it, no chunk is lost, doubled or overwritten, and none is
\* typed before the image is in the drive (cmd_loading.go 52-57, cmd_disk.go 115-128,
\* keyboard.go 147-175).
RunTypes ==
  command.op = "run" /\ command.on \in DiskExt /\ sofar > 0
    => /\ IsPrefix(Entered(device), Text1("LOAD RUN"))
       /\ Entered(device) # <<>> => device.disk[DriveA] = command.value

\* What a command has achieved that returned nil, by what the user asked.
Achieved(c) ==
  CASE c.op = "run" -> IF c.on \in DiskExt
                       THEN Entered(device) = Text1("LOAD RUN") /\ device.disk[DriveA] = c.value
                       ELSE device.program = c.value /\ Entered(device) = <<>>
    [] c.op = "type" -> Entered(device) = Entered(before) \o Text1(c.value)
    [] c.op = "Set" -> Shown(c.on, device.ram[c.on]) = c.value
    [] c.op = "Get" -> Shown(c.on, readback) = Shown(c.on, device.ram[c.on])
    [] c.op = "SaveToFlash" -> \A s \in Setting :
         Shown(s, device.flash[s]) = Shown(s, IF s \in Scope(c) THEN device.ram[s] ELSE before.flash[s])
    [] c.op = "LoadFromFlash" -> \A s \in Setting :
         Shown(s, device.ram[s]) = Shown(s, IF s \in Scope(c) THEN device.flash[s] ELSE before.ram[s])
    [] c.op = "Reboot" -> device.ram = device.flash
    [] c.op = "Peek" -> readback \in {device.memory, ErrorBody}
    [] c.op = "WriteMemory" -> device.memory = c.value /\ c.args[2] # 0 /\ c.args[1] + c.args[2] <= Top
    [] c.op = "MountBytes" -> device.disk = [before.disk EXCEPT ![c.on] = c.value]
    [] c.op = "Drives" -> readback = device.disk[c.on]
    [] c.op = "Create" -> device.image = c.value
    [] OTHER -> TRUE

\* A command that returns nil has achieved all that it is for, whatever commands came
\* before it and however they ended: a device that refuses with a successful status is
\* not taken for one that obeys, and no request of the script is passed over. Only a
\* read of memory that is refused in that way returns the body of the refusal as what
\* is in memory, because getRaw does not look at it (client.go 158-195, configs.go
\* 45-87, 168-284, keyboard.go 147-175).
NilIsDone == outcome = "nil" => Achieved(command)
=============================================================================
