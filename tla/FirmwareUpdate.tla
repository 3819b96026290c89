--------------------------- MODULE FirmwareUpdate ---------------------------
(***************************************************************************)
(* FirmwareUpdateService::run over the maintenance lease of AxentHost:     *)
(* the service (src/src/firmware/firmware_update_service.cpp), its AXTP    *)
(* backend (axtp_firmware_backend.cpp) and the Host of HostLeases, which   *)
(* starts, stops and leases sessions meanwhile.                            *)
(*                                                                         *)
(* A run that fails before it holds the lease (a bad request, a file that  *)
(* cannot be read, a busy device) changes nothing.  An image is the        *)
(* sequence of its bytes, 1..size, and the device is what it received.     *)
(***************************************************************************)
EXTENDS HostLeases, Sequences

CONSTANTS ImageSizes,   \* bytes of the images
          ChunkSizes,   \* chunk sizes a device answers with; 0 is none
          Preferred,    \* preferred_chunk_size of the requests
          Hundred,      \* turns of percent_of, 100 in the code
          PercentWidth  \* bits of its integers, 64 in the code

ASSUME FirmwareAssumption ==
    /\ ImageSizes \subseteq Nat \ {0}
    /\ ChunkSizes \subseteq Nat
    /\ Preferred \in Nat \ {0}

VARIABLES update,       \* the run that holds the maintenance lease of a device
          received      \* the bytes each device got in its update session

updateVars == <<update, received>>
firmwareVars == <<vars, updateVars>>

-----------------------------------------------------------------------------
\* percent_of (firmware_task.cpp) divides without forming 100 * transferred, which
\* would not fit: it adds transferred 100 times modulo total and counts the turns.
PercentOf(transferred, total) ==
    LET turn[step \in 0 .. Hundred] ==
            IF step = 0 THEN [percent |-> 0, remainder |-> 0]
            ELSE LET p == turn[step - 1]
                     room == (total - p.remainder) % 2^PercentWidth
                 IN  IF transferred >= room
                     THEN [percent |-> p.percent + 1, remainder |-> transferred - room]
                     ELSE [p EXCEPT !.remainder = (@ + transferred) % 2^PercentWidth]
    IN  CASE total = 0 -> 0
          [] total > 0 /\ transferred >= total -> Hundred
          [] OTHER -> turn[Hundred].percent

\* It is the integer part of the percentage, for all integers of the width.
ASSUME PercentAssumption ==
    \A total \in 1 .. 2^PercentWidth - 1, transferred \in 0 .. 2^PercentWidth - 1 :
        PercentOf(transferred, total) =
            IF transferred >= total THEN Hundred ELSE (Hundred * transferred) \div total

-----------------------------------------------------------------------------
NoUpdate == [stage |-> "none", size |-> 0, chunk |-> 0, offset |-> 0]

FirmwareInit ==
    /\ Init
    /\ update = [d \in Devices |-> NoUpdate]
    /\ received = [d \in Devices |-> <<>>]

\* The image was read and its size is known; try_acquire_maintenance.
FirmwareAcquire(size) ==
    /\ MaintenanceAcquire
    /\ update' = IF granted' = granted THEN update
                 ELSE [update EXCEPT ![call.device] =
                          [stage |-> "begin", size |-> size, chunk |-> 0, offset |-> 0]]
    /\ UNCHANGED received

\* run returns, with whatever code: its MaintenanceLease goes out of scope, and the
\* update session of the device with it.
Return(d) ==
    /\ MaintenanceRelease(d)
    /\ update' = [update EXCEPT ![d] = NoUpdate]
    /\ received' = [received EXCEPT ![d] = <<>>]

\* backend_.begin throws, the device refuses, or its answer has no session, no
\* stream for the file.
BeginFails(d) ==
    /\ update[d].stage = "begin"
    /\ Return(d)

\* The device opens an update session.  A chunk size of 0 leaves it to the service.
Begin(d, chunk) ==
    /\ update[d].stage = "begin"
    /\ update' = [update EXCEPT ![d].stage = "transfer",
                                ![d].chunk = IF chunk = 0 THEN Preferred ELSE chunk]
    /\ UNCHANGED <<vars, received>>

\* Mutant: a rest that does not fill a chunk is not sent.
MutantTransfers(u) == u.offset + u.chunk <= u.size

Transfers(u) == u.offset < u.size

Chunk(u) ==
    LET count == IF u.chunk < u.size - u.offset THEN u.chunk ELSE u.size - u.offset
    IN  [i \in 1 .. count |-> u.offset + i]

SendChunk(d) ==
    /\ update[d].stage = "transfer" /\ Transfers(update[d])
    /\ received' = [received EXCEPT ![d] = @ \o Chunk(update[d])]
    /\ update' = [update EXCEPT ![d].offset = @ + update[d].chunk]
    /\ UNCHANGED vars

\* The client or the transport reports an error, or throws.
SendChunkFails(d) ==
    /\ update[d].stage = "transfer" /\ Transfers(update[d])
    /\ Return(d)

\* The loop is over: firmware.finishUpdate is sent, ...
Finish(d) ==
    /\ update[d].stage = "transfer" /\ ~Transfers(update[d])
    /\ update' = [update EXCEPT ![d].stage = "finish"]
    /\ UNCHANGED <<vars, received>>

\* ... and fails, or the device accepts or rejects the image.
FinishReturns(d) ==
    /\ update[d].stage = "finish"
    /\ Return(d)

UpdateStep(d) ==
    \/ BeginFails(d) \/ SendChunk(d) \/ SendChunkFails(d) \/ Finish(d) \/ FinishReturns(d)
    \/ \E chunk \in ChunkSizes : Begin(d, chunk)

FirmwareNext ==
    \/ HostStep /\ UNCHANGED updateVars
    \/ \E size \in ImageSizes : FirmwareAcquire(size)
    \/ \E d \in Devices : UpdateStep(d)

FirmwareSpec == FirmwareInit /\ [][FirmwareNext]_firmwareVars

-----------------------------------------------------------------------------
\* A device is asked to finish an update only with the whole image: every byte
\* once and in order, whatever chunk size the device chose and however it divides
\* the image, and with the device reserved for this update all the time, although
\* the Host was stopped and started or sessions were asked for meanwhile.
FinishedImageIsComplete ==
    \A d \in Devices :
        /\ update[d].stage # "none" => granted[d] = 1
        /\ update[d].stage = "finish" => received[d] = [i \in 1 .. update[d].size |-> i]
=============================================================================
