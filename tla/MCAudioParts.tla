---------------------------- MODULE MCAudioParts ----------------------------
(* The parts of the audio side and the search of the card, each in a small        *)
(* instance.                                                                    *)
EXTENDS AudioParts

\* Lc3Streamer and SdPlayback: frames of the files, and units of PCM of a frame.
Lc3Frames == [f \in Files |-> IF f = "long" THEN 3 ELSE IF f = "short" THEN 1 ELSE 0]
PlayFrames == [f \in PlayFiles |-> IF f = "a" THEN 5 ELSE 3]
PcmSizes == [f \in PlayFiles |-> IF f = "a" THEN 2 ELSE 4]

\* SdListing: cards of up to three levels, with names of every kind and folders that are
\* too large.
Card(kind, below) ==
  [p \in {<<>>} \cup UNION {{<<i>> \o q : q \in DOMAIN below[i]} : i \in DOMAIN below} |->
     IF p = <<>> THEN [kind |-> kind, size |-> Len(below)] ELSE below[Head(p)][Tail(p)]]
File(kind) == Card(kind, <<>>)
Folders(S) == {Card("folder", below) : below \in UNION {[1 .. n -> S] : n \in 0 .. 2}}
Shallow == Folders({File("match"), File("file")})
TooLarge == Card("folder", [i \in 1 .. 3 |-> File("match")])
OneLevel == {File(kind) : kind \in Kinds} \cup {Card("match", <<File("match")>>)} \cup Shallow
SomeTrees == Folders(OneLevel)
             \cup {Card("folder", <<x, y>>) :
                     x \in {Card("folder", <<s, File("match")>>) : s \in Shallow} \cup {TooLarge},
                     y \in OneLevel}

\* Parts with several initial states have one of them while another part runs.
PartsInit ==
  /\ AudioInit
  /\ (part # "listing" => tree = File("folder") /\ result_max = 1)
  /\ (part # "rx" => \A c \in Channels : location[c] = "left")
  /\ (part # "volume" => vcs.volume = 0)
  /\ (part # "sd" => playback_file = "a")

PartsSpec == /\ PartsInit /\ [][AudioNext]_audioPartsVars
             /\ StreamingFairness /\ Lc3Fairness /\ SdFairness
=============================================================================
