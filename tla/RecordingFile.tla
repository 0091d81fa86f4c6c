---------------------------- MODULE RecordingFile ----------------------------
(***************************************************************************)
(* One recording session: RTP packets come in from a UDP socket, are       *)
(* decoded and written to a WAV file by writes nobody awaits, gaps of the  *)
(* RTP clock are filled with silence, and the sizes in the header are      *)
(* written when the session closes.  Closing races the packets, the writes *)
(* under way and the removal of the peer, which closes the file in its own *)
(* way.                                                                    *)
(*                                                                         *)
(* RTP timestamps wrap; `received' keeps the times they stand for, so that *)
(* what the file holds can be compared with the time that passed.  Which   *)
(* bytes a frame holds is left out: a frame is as long as it lasts.        *)
(***************************************************************************)
EXTENDS Integers, Sequences, FiniteSets, SequencesExt

CONSTANTS
    OpusFrameSamples,   \* ticks of the RTP clock per frame
    TargetFrameSamples, \* samples of the file per frame
    BytesPerSample,
    MaxSilenceGapTicks,
    WavHeaderSize,
    ClockWrap,          \* 2^32: RTP timestamps are below it
    StartTimes,         \* bound: when the first packet may be sent
    Pauses,             \* bound: ticks from one packet to the next
    MaxPackets,         \* bound: packets sent
    MaxFaults           \* bound: failing writes

ASSUME FileConstants ==
    /\ OpusFrameSamples \in Nat \ {0} /\ TargetFrameSamples \in Nat \ {0}
    /\ BytesPerSample \in Nat \ {0}
    /\ WavHeaderSize \in Nat /\ 8 <= WavHeaderSize
    /\ MaxSilenceGapTicks \in Nat /\ ClockWrap \in Nat
    /\ OpusFrameSamples < MaxSilenceGapTicks
    /\ MaxSilenceGapTicks < ClockWrap \div 2
    /\ StartTimes \subseteq Nat /\ Pauses \subseteq Nat
    /\ \A d \in Pauses : OpusFrameSamples <= d
    /\ MaxPackets \in Nat /\ MaxFaults \in Nat

VARIABLES
    sent,     \* the times of the packets sent, in order
    network,  \* those under way or lost
    session,  \* RecordingSession: lastRtpTimestamp, bytesWritten, closed
    received, \* history: the times of the packets handled, in order
    spoilt,   \* history: packets that could not be decoded
    writing,  \* writes of audio nobody awaits
    file,     \* bytes of audio in the file, bytes lost by failed writes
    header,   \* the two sizes in the header
    closer,   \* how far closing has come, and on which path
    faults    \* failed writes so far, bounded by MaxFaults

streamVars == <<sent, network>>
audioVars  == <<session, received, spoilt>>
vars == <<streamVars, audioVars, writing, file, header, closer, faults>>

Unset == -1   \* undefined

Init ==
    /\ sent = <<>>
    /\ network = {}
    /\ session = [lastRtpTimestamp |-> Unset, bytesWritten |-> 0,
                  closed |-> FALSE]
    /\ received = <<>>
    /\ spoilt = 0
    /\ writing = {}
    /\ file = [audio |-> 0, lost |-> 0]
    /\ header = [riff |-> 0, data |-> 0]
    /\ closer = "open"
    /\ faults = 0

-----------------------------------------------------------------------------
(***************************************************************************)
(* The peer's packets: sent a frame or more apart, and handled in any      *)
(* order or, when lost, never.                                             *)
(***************************************************************************)
SendPacket ==
    /\ Len(sent) < MaxPackets
    /\ \E t \in IF sent = <<>> THEN StartTimes
                ELSE {Last(sent) + d : d \in Pauses} :
          /\ sent' = Append(sent, t)
          /\ network' = network \cup {t}
    /\ UNCHANGED <<audioVars, writing, file, header, closer, faults>>

-----------------------------------------------------------------------------
(***************************************************************************)
(* handleRtpPacket                                                         *)
(***************************************************************************)
(* Mutant: the difference is not taken modulo 2^32.                        *)
SignedGap(timestamp) == timestamp - session.lastRtpTimestamp

Gap(timestamp) == (timestamp - session.lastRtpTimestamp) % ClockWrap

(* Mutant: a single lost frame is not made up for.                         *)
ExceedsTwoFrames(gap) == /\ gap > 2 * OpusFrameSamples
                         /\ gap < MaxSilenceGapTicks

NeedsSilence(gap) == /\ gap > OpusFrameSamples
                     /\ gap < MaxSilenceGapTicks

SilenceBytes(gap) ==
    ((gap * TargetFrameSamples) \div OpusFrameSamples) * BytesPerSample

FrameBytes == TargetFrameSamples * BytesPerSample

SilenceBefore(timestamp) ==
    IF session.lastRtpTimestamp # Unset /\ NeedsSilence(Gap(timestamp))
    THEN SilenceBytes(Gap(timestamp)) ELSE 0

(* Mutant: the silence is written even when there is none.                 *)
WritesAlways(silence, pcm) ==
    {[from |-> session.bytesWritten, bytes |-> silence],
     [from |-> session.bytesWritten + silence, bytes |-> pcm]}

(* Two writes, the silence and the frame, that end in any order; each is   *)
(* known by where its bytes start in the count.                            *)
Writes(silence, pcm) ==
    {w \in {[from |-> session.bytesWritten, bytes |-> silence],
            [from |-> session.bytesWritten + silence, bytes |-> pcm]} :
        w.bytes > 0}

Handle(t, pcm, counted) ==
    LET timestamp == t % ClockWrap
        silence   == SilenceBefore(timestamp)
    IN  /\ t \in network
        /\ ~ session.closed
        /\ network' = network \ {t}
        /\ session' = [session EXCEPT !.lastRtpTimestamp = timestamp,
                                      !.bytesWritten = @ + silence + counted]
        /\ writing' = writing \cup Writes(silence, pcm)
        /\ received' = Append(received, t)
        /\ UNCHANGED <<sent, file, header, closer, faults>>

HandleFrame(t) == Handle(t, FrameBytes, FrameBytes) /\ UNCHANGED spoilt

(* Mutant: the frame is counted before it is decoded.                      *)
HandleCounted(t) == Handle(t, 0, FrameBytes) /\ spoilt' = spoilt + 1

(* Decoding throws: the clock has moved and the silence stands.            *)
HandleUndecodable(t) == Handle(t, 0, 0) /\ spoilt' = spoilt + 1

WriteEnds(w) ==
    /\ w \in writing
    /\ writing' = writing \ {w}
    /\ file' = [file EXCEPT !.audio = @ + w.bytes]
    /\ UNCHANGED <<streamVars, audioVars, header, closer, faults>>

(* The failure is swallowed; bytesWritten counts the bytes all the same.   *)
WriteFails(w) ==
    /\ w \in writing
    /\ faults < MaxFaults
    /\ faults' = faults + 1
    /\ writing' = writing \ {w}
    /\ file' = [file EXCEPT !.lost = @ + w.bytes]
    /\ UNCHANGED <<streamVars, audioVars, header, closer>>

-----------------------------------------------------------------------------
(***************************************************************************)
(* closeRecordingSession: a stopped recording, a closed producer, a new    *)
(* tap of the peer and a socket error all come here.                       *)
(***************************************************************************)
(* Mutant: the session is marked closed when its sizes have been written.  *)
StartClosingOpen ==
    /\ closer = "open"
    /\ closer' = "riff"
    /\ UNCHANGED <<streamVars, audioVars, writing, file, header, faults>>

StartClosing ==
    /\ closer = "open"
    /\ ~ session.closed
    /\ session' = [session EXCEPT !.closed = TRUE]
    /\ closer' = "riff"
    /\ UNCHANGED <<streamVars, received, spoilt, writing, file, header,
                   faults>>

WriteRiffSize ==
    /\ closer = "riff"
    /\ header' = [header EXCEPT !.riff =
                    session.bytesWritten + WavHeaderSize - 8]
    /\ closer' = "data"
    /\ UNCHANGED <<streamVars, audioVars, writing, file, faults>>

WriteDataSize ==
    /\ closer = "data"
    /\ header' = [header EXCEPT !.data = session.bytesWritten]
    /\ closer' = "handle"
    /\ UNCHANGED <<streamVars, audioVars, writing, file, faults>>

(* A size cannot be written: the handle is left open.                      *)
SizeFails ==
    /\ closer \in {"riff", "data"}
    /\ faults < MaxFaults
    /\ faults' = faults + 1
    /\ closer' = "failed"
    /\ UNCHANGED <<streamVars, audioVars, writing, file, header>>

(* MediaRoom.stopPeerRecording: the peer is removed from the room.         *)
RemovePeer ==
    /\ closer = "open"
    /\ ~ session.closed
    /\ session' = [session EXCEPT !.closed = TRUE]
    /\ closer' = "removed"
    /\ UNCHANGED <<streamVars, received, spoilt, writing, file, header,
                   faults>>

(* FileHandle.close waits for the writes under way.                        *)
CloseHandle ==
    /\ closer \in {"handle", "removed"}
    /\ writing = {}
    /\ closer' = IF closer = "handle" THEN "done" ELSE "abandoned"
    /\ UNCHANGED <<streamVars, audioVars, writing, file, header, faults>>

-----------------------------------------------------------------------------
Next ==
    \/ SendPacket
    \/ \E t \in network : HandleFrame(t) \/ HandleUndecodable(t)
    \/ \E w \in writing : WriteEnds(w) \/ WriteFails(w)
    \/ StartClosing
    \/ WriteRiffSize
    \/ WriteDataSize
    \/ SizeFails
    \/ RemovePeer
    \/ CloseHandle

Spec == Init /\ [][Next]_vars

-----------------------------------------------------------------------------
TypeOK ==
    /\ sent \in Seq(Nat)
    /\ network \in SUBSET Range(sent)
    /\ session \in [lastRtpTimestamp : 0 .. (ClockWrap - 1) \cup {Unset},
                    bytesWritten : Nat, closed : BOOLEAN]
    /\ received \in Seq(Range(sent))
    /\ spoilt \in Nat
    /\ \A w \in writing : w \in [from : Nat, bytes : Nat \ {0}]
    /\ file \in [audio : Nat, lost : Nat]
    /\ header \in [riff : Nat, data : Nat]
    /\ closer \in {"open", "riff", "data", "handle", "failed", "done",
                   "removed", "abandoned"}
    /\ faults \in 0 .. MaxFaults

-----------------------------------------------------------------------------
(* When a session has been closed the ordinary way, the header gives the   *)
(* bytes that follow it: no packet was counted after the sizes were taken  *)
(* and every write under way has landed (recording.service.ts:304-320).    *)
HeaderMatchesFile ==
    closer = "done" =>
        /\ header.data = file.audio + file.lost
        /\ header.riff = header.data + WavHeaderSize - 8

(* The count of bytes is kept up with writes nobody awaits: once they have *)
(* ended it is what the file holds and what failing writes lost            *)
(* (recording.service.ts:242-243, 257-258).                                *)
CountMatchesWrites ==
    writing = {} => session.bytesWritten = file.audio + file.lost

(* What the file should hold, from the times of the packets and without    *)
(* timestamps: their frames, and silence for each step forward in time     *)
(* that is longer than a frame and short of the limit.                     *)
SilenceAt(times, n) ==
    LET passed == times[n] - times[n - 1]
    IN  IF n > 1 /\ NeedsSilence(passed) THEN SilenceBytes(passed) ELSE 0

ReferenceSilence(times) ==
    LET upTo[n \in 0 .. Len(times)] ==
            IF n = 0 THEN 0 ELSE upTo[n - 1] + SilenceAt(times, n)
    IN  upTo[Len(times)]

ReferenceBytes ==
    ReferenceSilence(received) + (Len(received) - spoilt) * FrameBytes

(* A wrap of the RTP clock cannot be heard, and a late packet adds no      *)
(* silence of its own: the file is as long as the times of the packets     *)
(* say (recording.service.ts:233-238).                                     *)
WrapIsInvisible == session.bytesWritten = ReferenceBytes

Steps == {received[i + 1] - received[i] : i \in 1 .. Len(received) - 1}
Gaps  == {i \in 1 .. Len(received) - 1 :
            received[i + 1] - received[i] > OpusFrameSamples}

(* While packets come in order, without a gap of the limit or longer, the  *)
(* file keeps up with the time that passed: it is short by less than a     *)
(* sample for each gap, and long by no more than a frame for each          *)
(* (recording.service.ts:235-243).                                         *)
FileKeepsTime ==
    LET samples == session.bytesWritten \div BytesPerSample
        perSample == OpusFrameSamples \div TargetFrameSamples
        passed == Last(received) - Head(received) + OpusFrameSamples
    IN  /\ received # <<>>
        /\ spoilt = 0
        /\ \A d \in Steps : 0 < d /\ d < MaxSilenceGapTicks
        => /\ passed <= perSample * (samples + Cardinality(Gaps))
           /\ perSample * samples <=
                 passed + Cardinality(Gaps) * OpusFrameSamples

-----------------------------------------------------------------------------
(* What the repository says and the code does not keep.                    *)

(* The recording of a peer is a WAV file (README.md:20): when its file is  *)
(* closed, the header gives the size of the audio.                         *)
ClosedFileIsAWavFile ==
    closer \in {"done", "abandoned"} =>
        header.data = file.audio + file.lost
=============================================================================
