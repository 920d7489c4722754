------------------------------- MODULE Sound -------------------------------
(***************************************************************************)
(* SoundSystem's Sound: one XAudio2 engine, a cache of the WAV files it    *)
(* has read, the voices of the sound effects that may still be heard and   *)
(* the one voice of the background music.  XAudio2 and COM are external:   *)
(* each of their calls may fail, and a voice empties its buffer queue on   *)
(* XAudio2's own thread, between any two calls of the program.             *)
(***************************************************************************)
EXTENDS Picks

CONSTANTS
    Files,       \* what the paths name: [size |-> .., riff |-> .., chunks |-> ..]
    Paths,       \* the paths the program asks for
    Voices,      \* the source voices XAudio2 can create at once
    NoVoice, NoMusic

\* Nothing is not a voice nor a file's path; a file has a size, and chunks that
\* each have a name and a size.
SoundAssumption ==
    /\ NoVoice \notin Voices /\ NoMusic \notin Paths
    /\ \A path \in Paths :
          /\ Files[path].size \in Nat
          /\ Files[path].chunks \in Seq([name : STRING, size : Nat, pcm : BOOLEAN])

VARIABLES
    phase,                  \* of the Sound object: "unborn", "alive" or "gone"
    comHeld, comByUs,       \* COM's count of us, Sound::comInitializedBySound
    xaudio2, mastering,     \* whether the engine and its mastering voice exist
    soundCache,             \* the paths of the files read
    activeOneShotVoices,    \* a sequence of voices
    backgroundVoice, currentMusic,
    live                    \* the voices created and not destroyed: for each
                            \* the path it plays and whether buffers are queued

vars == <<phase, comHeld, comByUs, xaudio2, mastering, soundCache,
          activeOneShotVoices, backgroundVoice, currentMusic, live>>

device == <<comHeld, comByUs, xaudio2, mastering>>

Init ==
    /\ phase = "unborn" /\ comHeld = 0 /\ comByUs = FALSE
    /\ xaudio2 = FALSE /\ mastering = FALSE /\ soundCache = {}
    /\ activeOneShotVoices = <<>> /\ backgroundVoice = NoVoice
    /\ currentMusic = NoMusic /\ live = <<>>

-----------------------------------------------------------------------------
(* A WAV file: twelve bytes of header, then chunks, each with eight bytes  *)
(* of its own before its data and a byte of padding after an odd size.  A  *)
(* file may be shorter than its last chunk says.                           *)

\* Where the data of each chunk starts.
DataOffset(file) ==
    LET offset[i \in 1 .. Len(file.chunks)] ==
            IF i = 1 THEN 12 + 8
            ELSE LET size == file.chunks[i - 1].size
                 IN offset[i - 1] + size + (size % 2) + 8
    IN offset

Inside(file, i) ==
    DataOffset(file)[i] + file.chunks[i].size <= file.size

\* The first chunk of the name, 0 if the walk along the chunks ends before one.
ParseWavChunk(file, name) ==
    LET found == {i \in 1 .. Len(file.chunks) :
                    /\ file.chunks[i].name = name
                    /\ \A j \in 1 .. i : Inside(file, j)}
    IN IF found = {} THEN 0 ELSE CHOOSE i \in found : \A j \in found : i <= j

\* Sixteen bytes from the start of the format chunk are read, whatever size
\* the chunk has.
ParseWavData(file) ==
    LET format == ParseWavChunk(file, "fmt ")
    IN /\ file.size >= 44 /\ file.riff
       /\ format # 0 /\ ParseWavChunk(file, "data") # 0
       /\ DataOffset(file)[format] + 16 <= file.size
       /\ file.chunks[format].pcm

\* The cache after LoadSoundEffect: a file that cannot be opened or parsed now
\* is tried again at the next request.
LoadSoundEffect(path) ==
    {soundCache} \cup
        (IF ParseWavData(Files[path]) THEN {soundCache \cup {path}} ELSE {})

-----------------------------------------------------------------------------
(* The engine.                                                             *)

\* RPC_E_CHANGED_MODE: the thread uses COM already, in another way.
Construct ==
    /\ phase = "unborn" /\ phase' = "alive"
    /\ \E com \in {"initialized", "changed mode", "failed"}, engine, voice \in BOOLEAN :
          /\ comByUs' = (com = "initialized")
          /\ comHeld' = IF com = "initialized" THEN 1 ELSE 0
          /\ xaudio2' = (com # "failed" /\ engine /\ voice)
          /\ mastering' = xaudio2'
    /\ UNCHANGED <<soundCache, activeOneShotVoices, backgroundVoice, currentMusic, live>>

Listed(voices) == {voices[i] : i \in 1 .. Len(voices)}

Without(voices) == [v \in DOMAIN live \ voices |-> live[v]]

\* The background voice is stopped and destroyed, then those of the effects.
Destruct ==
    /\ phase = "alive" /\ phase' = "gone"
    /\ live' = Without(Listed(activeOneShotVoices) \cup {backgroundVoice})
    /\ backgroundVoice' = NoVoice /\ currentMusic' = NoMusic
    /\ activeOneShotVoices' = <<>>
    /\ mastering' = FALSE /\ xaudio2' = FALSE
    /\ comHeld' = (IF comByUs THEN comHeld - 1 ELSE comHeld) /\ comByUs' = FALSE
    /\ soundCache' = {}

\* XAudio2's thread has played what a sound effect's voice had queued.  The
\* music's buffer loops for ever.
BuffersEnd ==
    /\ \E v \in DOMAIN live \ {backgroundVoice} :
          /\ live[v].queued
          /\ live' = [live EXCEPT ![v].queued = FALSE]
    /\ UNCHANGED <<phase, device, soundCache, activeOneShotVoices, backgroundVoice,
                   currentMusic>>

-----------------------------------------------------------------------------
(* Playing.                                                                *)

Create(voices, v, path) ==
    [u \in DOMAIN voices \cup {v} |->
        IF u = v THEN [path |-> path, queued |-> TRUE] ELSE voices[u]]

\* What is left of a voice whose buffer is not taken or that does not start.
Failed(voices, v, path) == voices

\* Mistake: no voice is asked whether buffers are queued.
StoppedAnyway == Listed(activeOneShotVoices)

Stopped == {v \in Listed(activeOneShotVoices) : ~live[v].queued}

CleanupStoppedVoices ==
    [voices |-> Without(Stopped),
     active |-> Picked(activeOneShotVoices,
                       {i \in DOMAIN activeOneShotVoices :
                           activeOneShotVoices[i] \notin Stopped})]

PlayOneShot(path) ==
    /\ phase = "alive" /\ xaudio2
    /\ soundCache' \in LoadSoundEffect(path)
    /\ IF path \notin soundCache' THEN UNCHANGED <<activeOneShotVoices, live>>
       ELSE LET kept == CleanupStoppedVoices
            IN \/ live' = kept.voices /\ activeOneShotVoices' = kept.active
               \/ \E v \in Voices \ DOMAIN kept.voices :
                     \/ /\ live' = Create(kept.voices, v, path)
                        /\ activeOneShotVoices' = Append(kept.active, v)
                     \/ /\ live' = Failed(kept.voices, v, path)
                        /\ activeOneShotVoices' = kept.active
    /\ UNCHANGED <<phase, device, backgroundVoice, currentMusic>>

\* The music that plays is left alone until the new file is known to be good.
PlayBackgroundMusic(path) ==
    /\ phase = "alive" /\ xaudio2
    /\ ~(currentMusic = path /\ backgroundVoice # NoVoice)
    /\ soundCache' \in LoadSoundEffect(path)
    /\ IF path \notin soundCache' THEN UNCHANGED <<backgroundVoice, currentMusic, live>>
       ELSE LET stopped == Without({backgroundVoice})
            IN \/ /\ live' = stopped
                  /\ backgroundVoice' = NoVoice /\ currentMusic' = NoMusic
               \/ \E v \in Voices \ DOMAIN stopped :
                     \/ /\ live' = Create(stopped, v, path)
                        /\ backgroundVoice' = v /\ currentMusic' = path
                     \/ /\ live' = Failed(stopped, v, path)
                        /\ backgroundVoice' = NoVoice /\ currentMusic' = NoMusic
    /\ UNCHANGED <<phase, device, activeOneShotVoices>>

StopBackgroundMusic ==
    /\ phase = "alive"
    /\ live' = Without({backgroundVoice})
    /\ backgroundVoice' = NoVoice /\ currentMusic' = NoMusic
    /\ UNCHANGED <<phase, device, soundCache, activeOneShotVoices>>

Next ==
    \/ Construct \/ Destruct \/ BuffersEnd \/ StopBackgroundMusic
    \/ \E path \in Paths : PlayOneShot(path) \/ PlayBackgroundMusic(path)

Spec == Init /\ [][Next]_vars
-----------------------------------------------------------------------------
(* Properties.                                                             *)

\* Whichever call of XAudio2 fails, each voice that lives is either in the list
\* of the effects, once, or the music's; the music is named exactly while its
\* voice plays it; a voice plays data the cache still holds, all of it inside
\* its file; and with the object everything of XAudio2 and COM is given back.
VoicesAreOwned ==
    LET listed == Listed(activeOneShotVoices)
    IN /\ DOMAIN live = listed \cup ({backgroundVoice} \ {NoVoice})
       /\ backgroundVoice \notin listed
       /\ \A i, j \in 1 .. Len(activeOneShotVoices) :
             activeOneShotVoices[i] = activeOneShotVoices[j] => i = j
       /\ (backgroundVoice = NoVoice) <=> (currentMusic = NoMusic)
       /\ backgroundVoice # NoVoice => live[backgroundVoice].path = currentMusic
       /\ \A v \in DOMAIN live : live[v].path \in soundCache
       /\ \A path \in soundCache :
             LET file == Files[path]  data == ParseWavChunk(file, "data")
             IN DataOffset(file)[data] + file.chunks[data].size <= file.size
       /\ DOMAIN live # {} => xaudio2 /\ mastering
       /\ phase # "alive" => comHeld = 0 /\ ~xaudio2 /\ DOMAIN live = {}

\* A sound that has begun is heard to its end: a voice is destroyed with a
\* buffer still queued only with the object, or if it is the music's.
SoundsPlayOut ==
    [][\A v \in DOMAIN live :
          live[v].queued /\ v # backgroundVoice /\ phase' = "alive" => v \in DOMAIN live']_vars
=============================================================================
