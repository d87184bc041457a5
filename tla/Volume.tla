------------------------------- MODULE Volume -------------------------------
(***************************************************************************)
(* The volume of a player and what it does to a 16 bit sample              *)
(* (media_player.cc, audio_render_basic.cc).  Every arithmetic step keeps  *)
(* the width the code gives it.                                            *)
(***************************************************************************)
EXTENDS Integers

MaxVolume == 100        \* MAX_AUDIO_VOLUME

(* Mutant of SetVolume: what the caller says.                              *)
SetAnyVolume(volume) == volume

SetVolume(volume) ==
    IF volume < 0 THEN 0 ELSE IF volume > 100 THEN 100 ELSE volume

Int16(x) == ((x + 32768) % 65536) - 32768

(* Division of C, towards 0.                                               *)
Quotient(x, n) == IF x < 0 THEN -((-x) \div n) ELSE x \div n

(* ADJUST_VOLUME assigns to an int16_t.                                    *)
Adjust(sample, volume) == Int16(Quotient(sample * volume, MaxVolume))

(* The sum is clipped to 16 bits and stored byte by byte.                  *)
MixAudioVolume(sample, beneath, volume) ==
    LET sum == Adjust(sample, volume) + beneath
        clipped == IF sum > 32767 THEN 32767
                   ELSE IF sum < -32768 THEN -32768 ELSE sum
        low == clipped % 256
        high == (clipped \div 256) % 256
    IN Int16(high * 256 + low)

(* ReadAudioData copies at full volume, else mixes over silence.           *)
Heard(sample, volume) ==
    IF volume = MaxVolume THEN sample ELSE MixAudioVolume(sample, 0, volume)
=============================================================================
