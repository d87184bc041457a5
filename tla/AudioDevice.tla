---------------------------- MODULE AudioDevice ----------------------------
(***************************************************************************)
(* What AudioRenderSdl::OpenAudioDevice asks SDL for, one request after    *)
(* the other until one is granted (audio_render_sdl.cc): fewer channels    *)
(* first, then the next lower rate with all the channels.                  *)
(*                                                                         *)
(* A request is the channels, the rate and next_sample_rate_idx.  The      *)
(* tables count from 1 here.                                               *)
(***************************************************************************)
EXTENDS Integers, Sequences, FiniteSetsExt

next_nb_channels == <<0, 0, 1, 6, 2, 6, 4, 6>>
next_sample_rates == <<0, 44100, 48000, 96000, 192000>>

(* The index of the highest rate below freq, of 0 if there is none.        *)
RateBelow(freq) ==
    Max({0} \union {i \in 0 .. 4 : next_sample_rates[i + 1] < freq})

FirstRequest(channels, freq) ==
    [channels |-> channels, freq |-> freq, rate |-> RateBelow(freq)]

(* Mutant of NextRequest: the rate is looked up, the index left alone.     *)
SameRateAgain(asked, channels) ==
    LET fewer == next_nb_channels[Min({7, asked.channels}) + 1] IN
    IF fewer # 0 THEN [asked EXCEPT !.channels = fewer]
    ELSE [channels |-> channels, freq |-> next_sample_rates[asked.rate + 1],
          rate |-> asked.rate]

NextRequest(asked, channels) ==
    LET fewer == next_nb_channels[Min({7, asked.channels}) + 1] IN
    IF fewer # 0 THEN [asked EXCEPT !.channels = fewer]
    ELSE [channels |-> channels, freq |-> next_sample_rates[asked.rate + 1],
          rate |-> asked.rate - 1]

NoMoreCombinations(asked) == asked.freq = 0
=============================================================================
