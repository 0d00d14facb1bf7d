------------------------------ MODULE NativeCalls ------------------------------
(***************************************************************************)
(* The C interface of ptyx (lib.rs, abi.rs) over the processes of          *)
(* ChildSpawn: ptyx_init, ptyx_spawn with the checks a request passes in   *)
(* abi.rs and in process_linux.rs before anything is forked, and the owned *)
(* buffers of ptyx_write_owned.                                            *)
(*                                                                         *)
(* A string is one of "empty", "text", "nul" (text with a NUL in it),      *)
(* "notUtf8" and "nullData" (a length without data).  An environment entry *)
(* is a key and a value; the value "missing" stands for an entry without   *)
(* an equals sign.                                                         *)
(***************************************************************************)
EXTENDS ChildSpawn, Integers

CONSTANTS
  RequestsOf,        \* the session options each call of ptyx_spawn may pass
  HostEnvironment,   \* the environment of the host, a function
  MaxBuffer          \* bound: bytes of an owned buffer

\* Text comes in the classes above, sizes are unsigned, and no key or value
\* in the environment of a process contains a NUL.
ASSUME NativeCallsAssumption ==
  /\ \A s \in Sessions : \A r \in RequestsOf[s] :
       /\ {r.executable, r.argument, r.cwd} \subseteq
            {"empty", "text", "nul", "notUtf8", "nullData"}
       /\ r.env \in Seq([key : STRING, value : STRING])
       /\ r.size \in [{"rows", "columns", "pixels"} -> Nat]
  /\ HostEnvironment \in [DOMAIN HostEnvironment -> STRING]
  /\ "nul" \notin DOMAIN HostEnvironment
  /\ \A k \in DOMAIN HostEnvironment : HostEnvironment[k] # "nul"
  /\ MaxBuffer \in Nat

VARIABLES
  initialized,   \* DART_INITIALIZED
  request,       \* the options of the call
  refused,       \* the status of a call refused before its event pipe was opened
  buffer,        \* the bytes of the owned buffer; -1: there is none
  owned          \* the host has a buffer that it has to free

callVars == <<initialized, request, refused, buffer, owned>>
vars == <<spawnVars, callVars>>

NoBuffer == -1

Init ==
  /\ SpawnInit
  /\ initialized = FALSE
  /\ request = [s \in Sessions |-> <<>>]
  /\ refused = [s \in Sessions |-> "OK"]
  /\ buffer = NoBuffer
  /\ owned = FALSE

-----------------------------------------------------------------------------
(***************************************************************************)
(* session_options_from_abi.                                               *)
(***************************************************************************)

SupportedFlags == {"external", "modes", "acks"}
EnvironmentModes == {"inherit", "overlay", "replace", "clear"}

\* string_to_string
StringFails(v) == v \in {"notUtf8", "nullData"}

MaxU16 == 65535

\* to_pty_size: zero, or more than a u16.
SizeFails(size) == 0 \in {size.rows, size.columns} \/ \E f \in DOMAIN size : size[f] > MaxU16

\* spawn_config_from_options
SpawnConfigFails(r) ==
  \/ r.executable = "empty"
  \/ \E v \in {r.executable, r.argument, r.cwd} : StringFails(v)
  \/ \E i \in DOMAIN r.env : StringFails(r.env[i].value)
  \/ r.envMode \notin EnvironmentModes
  \/ SizeFails(r.size)

\* Fault: the ports are left to the code that posts to them.
OptionsStatusAnyPort(r) ==
  IF ~ r.flags \subseteq SupportedFlags THEN "UNSUPPORTED"
  ELSE IF SpawnConfigFails(r) \/ ~ r.out THEN "INVALID_ARGUMENT"
  ELSE "OK"

\* With the test of out_session that follows (prepare_session_out).
OptionsStatus(r) ==
  IF ~ r.flags \subseteq SupportedFlags THEN "UNSUPPORTED"
  ELSE IF 0 \in r.ports \/ SpawnConfigFails(r) \/ ~ r.out THEN "INVALID_ARGUMENT"
  ELSE "OK"

(***************************************************************************)
(* runtime_config_from_options: zero selects the default, then the limits. *)
(***************************************************************************)

KiB == 1024
MiB == KiB * KiB

Defaults == [batchDelay |-> 1000, pollInterval |-> 50, readBuffer |-> 256 * KiB,
             batchMax |-> 128 * KiB, inflight |-> 4 * MiB, external |-> 64 * MiB,
             queueMax |-> 64 * MiB]

\* max_inflight and max_external_output_bytes have no limits (2^31 - 1 stands in
\* for the largest u64).
Largest == 2147483647
Limits == [batchDelay |-> <<1, 1000000>>, pollInterval |-> <<25, 60000>>,
           readBuffer |-> <<4 * KiB, MiB>>, batchMax |-> <<64 * KiB, 256 * KiB>>,
           inflight |-> <<1, Largest>>, external |-> <<1, Largest>>,
           queueMax |-> <<64 * KiB, 512 * MiB>>]

Clamp(n, limits) == IF n < limits[1] THEN limits[1] ELSE IF n > limits[2] THEN limits[2] ELSE n

OrDefault(n, default) == IF n = 0 THEN default ELSE n

Config(options) ==
  [f \in DOMAIN Defaults |-> Clamp(OrDefault(options[f], Defaults[f]), Limits[f])]

-----------------------------------------------------------------------------
(***************************************************************************)
(* SpawnRequest::new and environment (process_linux.rs).                   *)
(***************************************************************************)

EntriesOf(r) == IF r.envMode \in {"overlay", "replace"} THEN r.env ELSE <<>>

\* BTreeMap::insert: a later entry replaces an earlier one of the same key.
Insert(env, entry) ==
  [k \in DOMAIN env \cup {entry.key} |-> IF k = entry.key THEN entry.value ELSE env[k]]

\* What the loop over the entries makes of an environment.
Inserted(base, entries) ==
  LET env[i \in 0 .. Len(entries)] == IF i = 0 THEN base ELSE Insert(env[i - 1], entries[i])
  IN  env[Len(entries)]

\* Fault: Overlay starts from nothing, as Replace does.
EnvironmentFromNothing(r) ==
  Inserted(IF r.envMode = "inherit" THEN HostEnvironment ELSE <<>>, EntriesOf(r))

Environment(r) ==
  Inserted(IF r.envMode \in {"inherit", "overlay"} THEN HostEnvironment ELSE <<>>, EntriesOf(r))

EnvironmentFails(r) ==
  \/ \E i \in DOMAIN EntriesOf(r) : r.env[i].value = "missing" \/ r.env[i].key = "empty"
  \/ "nul" \in DOMAIN Environment(r)
  \/ \E k \in DOMAIN Environment(r) : Environment(r)[k] = "nul"

SpawnRequestFails(r) == "nul" \in {r.executable, r.argument, r.cwd} \/ EnvironmentFails(r)

-----------------------------------------------------------------------------
(***************************************************************************)
(* The exported functions.                                                 *)
(***************************************************************************)

\* ptyx_init; when it fails nothing changes.
PtyxInit ==
  /\ ~ initialized
  /\ initialized' = TRUE
  /\ UNCHANGED <<spawnVars, request, refused, buffer, owned>>

Refuse(s, why) ==
  /\ HostAt(s, "idle", "failed")
  /\ refused' = [refused EXCEPT ![s] = why]
  /\ UNCHANGED <<monitor, child, pipeVars, status, told, lost>>

\* The first status that is not OK; between the checks of abi.rs and those of
\* process_linux.rs the pseudo terminal is opened, its streams are cloned and its
\* name is asked for, each of which may fail.
PtyxSpawn(s) ==
  /\ \/ ~ initialized /\ Refuse(s, "INVALID_ARGUMENT") /\ UNCHANGED request
     \/ \E r \in RequestsOf[s] :
          /\ initialized
          /\ request' = [request EXCEPT ![s] = r]
          /\ IF OptionsStatus(r) # "OK" THEN Refuse(s, OptionsStatus(r))
             ELSE \/ \E why \in {"SPAWN_FAILED", "IO_FAILED", "UNSUPPORTED"} : Refuse(s, why)
                  \/ IF SpawnRequestFails(r) THEN Refuse(s, "INVALID_ARGUMENT")
                     ELSE OpenEventPipe(s) /\ UNCHANGED refused
  /\ UNCHANGED <<initialized, buffer, owned>>

\* What ptyx_spawn returns (ffi_status, status_for_error_kind).
SpawnStatus(s) ==
  CASE refused[s] # "OK" -> refused[s]
    [] host[s] = "failed" -> "SPAWN_FAILED"
    [] host[s] = "abandoned" -> "NATIVE_ERROR"
    [] host[s] \in {"open", "reapExit", "exited", "lost"} -> "OK"
    [] OTHER -> "none yet"

\* ptyx_buffer_alloc
AllocBuffer ==
  /\ ~ owned
  /\ \E n \in 1 .. MaxBuffer : buffer' = n
  /\ owned' = TRUE
  /\ UNCHANGED <<spawnVars, initialized, request, refused>>

\* Fault: take_owned_buffer drops the buffer when the length does not fit.
TakeOwnedBufferDropping(n) == IF n > buffer THEN NoBuffer ELSE n

\* take_owned_buffer: a length that does not fit leaves the buffer as it was.
TakeOwnedBuffer(n) == IF n > buffer THEN buffer ELSE n

\* ptyx_write_owned: the queue takes the bytes, or refuses and gives them back
\* (return_owned_buffer).  The host owns the buffer unless the status was OK.
WriteOwned(s) ==
  /\ SpawnStatus(s) = "OK"
  /\ owned
  /\ \E n \in 1 .. MaxBuffer + 1 :
       \/ n <= buffer /\ buffer' = NoBuffer /\ owned' = FALSE
       \/ buffer' = TakeOwnedBuffer(n) /\ UNCHANGED owned
  /\ UNCHANGED <<spawnVars, initialized, request, refused>>

\* ptyx_buffer_free
FreeBuffer ==
  /\ owned
  /\ buffer' = NoBuffer
  /\ owned' = FALSE
  /\ UNCHANGED <<spawnVars, initialized, request, refused>>

-----------------------------------------------------------------------------
Next ==
  \/ PtyxInit
  \/ AllocBuffer
  \/ FreeBuffer
  \/ \E s \in Sessions : PtyxSpawn(s) \/ WriteOwned(s) \/ (SpawnStep(s) /\ UNCHANGED callVars)

\* Threads and processes are scheduled; nothing makes a program end.
Fairness ==
  \A s \in Sessions :
    /\ WF_vars(HostStep(s) /\ UNCHANGED callVars)
    /\ WF_vars(WaitStep(s) /\ UNCHANGED callVars)
    /\ WF_vars(MonitorStep(s) /\ UNCHANGED callVars)
    /\ WF_vars(ChildStep(s) /\ UNCHANGED callVars)

Spec == Init /\ [][Next]_vars /\ Fairness

-----------------------------------------------------------------------------
(***************************************************************************)
(* Properties.                                                             *)
(***************************************************************************)

\* The value of a key's last entry.
LastValue(entries, k) ==
  entries[CHOOSE i \in DOMAIN entries :
            entries[i].key = k /\ \A j \in DOMAIN entries : entries[j].key = k => j <= i].value

Keys(entries) == {entries[i].key : i \in DOMAIN entries}

\* include/ptyx.h:187-192: KEY=VALUE in UTF-8, with a KEY that is not empty and no
\* NUL on either side.
EntryIsWellFormed(entry) ==
  /\ entry.key \notin {"empty", "nul"}
  /\ entry.value \notin {"missing", "nul", "notUtf8", "nullData"}

\* What include/ptyx.h asks of the options, apart from some entries of the
\* environment, and what the calls behind them take: terminal sizes of 16 bits,
\* and no NUL in what becomes a C string.
WellFormedBut(r, entries) ==
  /\ r.flags \subseteq SupportedFlags /\ 0 \notin r.ports /\ r.out
  /\ r.executable = "text"
  /\ {r.argument, r.cwd} \subseteq {"empty", "text"}
  /\ r.envMode \in EnvironmentModes
  /\ \A i \in DOMAIN r.env \ entries : EntryIsWellFormed(r.env[i])
  /\ r.size.rows \in 1 .. MaxU16 /\ r.size.columns \in 1 .. MaxU16
  /\ r.size.pixels \in 0 .. MaxU16

WellFormed(r) == WellFormedBut(r, {})

\* Where the code asks less of an entry than the header: any text will do in a mode
\* that uses no entries, and a NUL in a value that a later entry of the same key
\* replaces is not seen, as the loop puts the entries into a map first.
Overlooked(r) ==
  {i \in DOMAIN r.env :
     \/ EntriesOf(r) = <<>> /\ ~ StringFails(r.env[i].value)
     \/ /\ r.env[i].value = "nul" /\ r.env[i].key \notin {"empty", "nul"}
        /\ \E j \in DOMAIN r.env : j > i /\ r.env[j].key = r.env[i].key}

\* A process is forked only after ptyx_init and for a request that is well formed
\* but for entries that the code overlooks, none of which gets to the program; and
\* no well-formed request is refused as an invalid argument, although the checks
\* are spread over two files with the opening of the terminal between them.
OnlyWellFormedForks ==
  \A s \in Sessions :
    /\ monitor[s] # "none" =>
         initialized /\ WellFormedBut(request[s], Overlooked(request[s]))
    /\ SpawnStatus(s) = "INVALID_ARGUMENT" /\ request[s] # <<>> => ~ WellFormed(request[s])

\* A session runs as its request asks: the environment has the last entry of a
\* key, else the host's value where the mode keeps it; an option of zero is the
\* default, one within the limits is taken as it is.
SessionIsAsRequested ==
  \A s \in Sessions : child[s] = "program" =>
    LET r == request[s]
        env == Environment(r)
        kept == IF r.envMode \in {"inherit", "overlay"} THEN DOMAIN HostEnvironment ELSE {}
    IN  /\ DOMAIN env = Keys(EntriesOf(r)) \cup kept
        /\ \A k \in DOMAIN env :
             env[k] = IF k \in Keys(EntriesOf(r)) THEN LastValue(r.env, k) ELSE HostEnvironment[k]
        /\ \A f \in DOMAIN Defaults :
             /\ r.options[f] = 0 => Config(r.options)[f] = Defaults[f]
             /\ r.options[f] \in Limits[f][1] .. Limits[f][2] => Config(r.options)[f] = r.options[f]

\* What the host was told it owns is what there is to free: no buffer is freed
\* twice or lost, whichever way ptyx_write_owned ends.
OwnershipIsAgreed == owned <=> buffer # NoBuffer
=============================================================================
