----------------------------- MODULE MediaClock -----------------------------
(***************************************************************************)
(* The clocks of src/ffplayer/media_clock.{h,cc} as operators on records,  *)
(* in integer time.  pts_drift_ is always pts_ - last_updated, and nobody  *)
(* calls SetSpeed, so that the speed is 1.  The serial a clock is compared *)
(* with is that of a packet queue, and for the external clock its own.     *)
(***************************************************************************)
EXTENDS Integers

CONSTANTS
    NaN,                    \* the value of a clock that has none
    None,                   \* in place of a stream a file does not have
    NoSync                  \* AV_NOSYNC_THRESHOLD

Clock == [pts : Int \union {NaN}, last_updated : Int, serial : Int,
          paused : BOOLEAN]

NewClock(time) ==
    [pts |-> NaN, last_updated |-> time, serial |-> -1, paused |-> FALSE]

Abs(n) == IF n < 0 THEN -n ELSE n
Minus(a, b) == IF NaN \in {a, b} THEN NaN ELSE a - b

(* SetClockAt stores the value and then the serial.                        *)
StoreValue(c, pts, time) == [c EXCEPT !.pts = pts, !.last_updated = time]
StoreSerial(c, serial) == [c EXCEPT !.serial = serial]
SetClockAt(c, pts, serial, time) ==
    StoreSerial(StoreValue(c, pts, time), serial)

GetClock(c, queue_serial, time) ==
    IF queue_serial # c.serial THEN NaN
    ELSE IF c.paused \/ c.pts = NaN THEN c.pts
    ELSE c.pts + (time - c.last_updated)

(* What c becomes when it follows another clock, whose value is given.     *)
Sync(c, queue_serial, secondary_clock, secondary_serial, time) ==
    LET diff == Minus(GetClock(c, queue_serial, time), secondary_clock) IN
    IF secondary_clock # NaN /\ (diff = NaN \/ Abs(diff) > NoSync)
    THEN SetClockAt(c, secondary_clock, secondary_serial, time)
    ELSE c

(* The player asks for the audio clock, and gets the external one where    *)
(* there is no sound.                                                      *)
GetMasterSyncType(sounds) == IF sounds THEN "audio" ELSE "external"

GetMasterClock(sounds, audio_clock, audio_serial, ext_clock, time) ==
    IF GetMasterSyncType(sounds) = "audio"
    THEN GetClock(audio_clock, audio_serial, time)
    ELSE GetClock(ext_clock, ext_clock.serial, time)
=============================================================================
