-------------------------------- MODULE Sound --------------------------------
(***************************************************************************)
(* DosBeep (native/doscalls.c) and the audio device it shares with the      *)
(* thread of SDL that plays it (lib2ine.c): beeps are queued one at a time, *)
(* the generator is listed while there is something to play, and the device *)
(* is closed after five idle seconds.                                       *)
(*                                                                          *)
(* A call of the generator plays one chunk.  SDL runs the callback of a     *)
(* device and the code between SDL_LockAudioDevice and its unlock one at a  *)
(* time; both are single steps.  Failures of malloc are left out.           *)
(***************************************************************************)
EXTENDS Callers, Naturals, FiniteSets

CONSTANTS Device,     \* ids SDL may give out
          Chunks,     \* length of a beep
          Timely      \* TRUE when five seconds never end inside registerAudioGenerator

ASSUME SoundAssumption == Null \notin Device /\ Chunks \in Nat \ {0} /\ Timely \in BOOLEAN

VARIABLES device,     \* sdl_audio_device, Null for 0
          open,       \* devices not yet closed: their callbacks still run
          closing,    \* devices a thread is about to close
          listed,     \* DosBeepGenerator is in audio_generators
          queued,     \* next_freq is not 0
          playing,    \* chunks left of the beep that sounds
          idle,       \* no_audio_generators_timeout is set
          beep,       \* thread -> where it is in DosBeep
          mixer       \* holder of GMutexDosBeep

soundVars == <<device, open, closing, listed, queued, playing, idle, beep, mixer>>

SoundInit ==
    /\ device = Null /\ open = {} /\ closing = {}
    /\ listed = FALSE /\ queued = FALSE /\ playing = 0 /\ idle = FALSE
    /\ beep = [t \in Thread |-> "out"]
    /\ mixer = Null

Goes(t, from, to) == beep[t] = from /\ beep' = [beep EXCEPT ![t] = to]

-----------------------------------------------------------------------------
DosBeep(t) ==
    /\ Goes(t, "out", "lock")
    /\ UNCHANGED <<device, open, closing, listed, queued, playing, idle, mixer>>

GrabBeepLock(t) ==
    /\ Goes(t, "lock", "queue")
    /\ mixer = Null /\ mixer' = t
    /\ UNCHANGED <<device, open, closing, listed, queued, playing, idle>>

(* The end of the loop that waits for next_freq to be 0.                    *)
Queue(t) ==
    /\ Goes(t, "queue", "register")
    /\ ~queued /\ queued' = TRUE
    /\ UNCHANGED <<device, open, closing, listed, playing, idle, mixer>>

(* After its sleep: registerAudioGenerator up to SDL_LockAudioDevice.  When *)
(* no device opens the beep is forgotten.                                   *)
FindDevice(t) ==
    /\ \/ device # Null
          /\ Goes(t, "register", "add")
          /\ UNCHANGED <<device, open, queued, playing, idle, mixer>>
       \/ device = Null
          /\ Goes(t, "register", "add")
          /\ \E d \in Device \ open : device' = d /\ open' = open \cup {d}
          /\ idle' = FALSE
          /\ UNCHANGED <<queued, playing, mixer>>
       \/ device = Null
          /\ Goes(t, "register", "out")
          /\ queued' = FALSE /\ playing' = 0
          /\ mixer' = Null
          /\ UNCHANGED <<device, open, idle>>
    /\ UNCHANGED <<closing, listed>>

(* ... and from there on: the generator is listed if it is not already.     *)
Add(t) ==
    /\ Goes(t, "add", "out")
    /\ listed' = TRUE
    /\ idle' = IF listed THEN idle ELSE FALSE
    /\ mixer' = Null
    /\ UNCHANGED <<device, open, closing, queued, playing>>

-----------------------------------------------------------------------------
(* audioCallback with DosBeepGenerator in the list: the beep that sounds,   *)
(* then the one that is queued, then the generator takes itself off.        *)
PlayAndLeave(d) ==
    /\ d \in open /\ listed
    /\ idle' = FALSE
    /\ \/ playing > 1 /\ playing' = playing - 1 /\ UNCHANGED <<queued, listed>>
       \/ playing = 0 /\ queued /\ playing' = Chunks /\ queued' = FALSE /\ UNCHANGED listed
       \/ playing = 1 /\ playing' = 0 /\ listed' = FALSE /\ UNCHANGED queued
       \/ playing = 0 /\ ~queued /\ playing' = 0 /\ listed' = FALSE /\ UNCHANGED queued
    /\ UNCHANGED <<device, open, closing, beep, mixer>>

Play(d) ==
    /\ d \in open /\ listed
    /\ idle' = FALSE
    /\ \/ playing > 1 /\ playing' = playing - 1 /\ UNCHANGED <<queued, listed>>
       \/ playing <= 1 /\ queued /\ playing' = Chunks /\ queued' = FALSE /\ UNCHANGED listed
       \/ playing <= 1 /\ ~queued /\ playing' = 0 /\ listed' = FALSE /\ UNCHANGED queued
    /\ UNCHANGED <<device, open, closing, beep, mixer>>

(* audioCallback with an empty list: it starts the five seconds, and gives  *)
(* up the device when they are over.                                        *)
GoIdle(d) ==
    /\ d \in open /\ ~listed /\ ~idle
    /\ idle' = TRUE
    /\ UNCHANGED <<device, open, closing, listed, queued, playing, beep, mixer>>

GiveUpDevice(d) ==
    /\ d \in open /\ ~listed /\ idle
    /\ device # Null
    /\ Timely => \A t \in Thread : beep[t] # "add"
    /\ device' = Null
    /\ closing' = closing \cup {device}
    /\ UNCHANGED <<open, listed, queued, playing, idle, beep, mixer>>

(* closeAudioDeviceThread.                                                  *)
CloseDevice(d) ==
    /\ d \in closing
    /\ open' = open \ {d} /\ closing' = closing \ {d}
    /\ UNCHANGED <<device, listed, queued, playing, idle, beep, mixer>>

SoundNext == \/ \E t \in Thread : DosBeep(t) \/ GrabBeepLock(t) \/ Queue(t) \/ FindDevice(t) \/ Add(t)
             \/ \E d \in Device : Play(d) \/ GoIdle(d) \/ GiveUpDevice(d) \/ CloseDevice(d)

SoundSpec == SoundInit /\ [][SoundNext]_soundVars

-----------------------------------------------------------------------------
(* What is queued or sounds is on its way: its DosBeep has yet to register  *)
(* the generator, or the generator is listed and its device is open.        *)
QueuedIsHeard ==
    Timely /\ (queued \/ playing > 0) =>
        (\E t \in Thread : beep[t] \in {"register", "add"}) \/ (listed /\ device \in open)

=============================================================================
