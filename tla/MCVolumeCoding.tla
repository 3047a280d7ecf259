--------------------------- MODULE MCVolumeCoding ---------------------------
(***************************************************************************)
(* A volume as in MCVolume, and by themselves the codings its              *)
(* configuration chooses: of names, of bytes as characters, of data, of    *)
(* the configuration itself, and of what Windows gives.  A behaviour is    *)
(* one of one part, and the others stay as they are.                       *)
(***************************************************************************)
EXTENDS MCVolume

CONSTANTS a, b, Alien, Garbage, Sep, Dot  \* names, and what is none

VARIABLES part,                            \* volume, names, packing, cipher, config or wide
          nCoder, nPath, nDir,             \* of NameCoding
          bytes,                           \* of Packing
          size, count, trial, made,        \* of Ciphers
          cVars, cFile, cSaved, cSaves,    \* of ConfigCodec
          wide                             \* of WideNames

Coding == INSTANCE NameCoding
            WITH Names <- {a, b}, MaxDepth <- 2, MaxEntries <- 2, MaxTokens <- 4,
                 coder <- nCoder, path <- nPath, dir <- nDir
Packs == INSTANCE Packing
           WITH Bytes <- {0, 1, 127, 128, 255}, MaxLen <- 4, Lengths <- 1..60
Cipher == INSTANCE Ciphers
            WITH CB <- 2, Group <- 3, Digest <- 3, MaxSize <- 6, Ifaces <- {1, 3},
                 Narrow <- 3, Wide <- 6,
                 Wanted <- 12, Times <- {0, 1, 3, 9, 10, 13}, MaxIter <- 64
Config_ == INSTANCE ConfigCodec
             WITH Keys <- {<<99>>, <<120, 120, 120>>}, Ints <- {0, 10, 16384},
                  Strings <- {<<26>>, [i \in 1..128 |-> 5]},
                  Sizes <- 0..300 \cup {4000, 4095, 5000}, MaxSaves <- 2,
                  vars <- cVars, file <- cFile, saved <- cSaved, saves <- cSaves
Windows == INSTANCE WideNames
             WITH Units <- {47, 92, 97, 233, 2325, 8364, 55357, 56256, 56832}, MaxUnits <- 3,
                  Leftovers <- {0, 65, 224}, Second <- 10, Epoch <- 1000, IntBits <- 8

nVars == <<nCoder, nPath, nDir>>
sVars == <<size, count, trial, made>>
cAll == <<cVars, cFile, cSaved, cSaves>>

MCCInit ==
    /\ part \in {"volume", "names", "packing", "cipher", "config", "wide"}
    /\ MCInit
    /\ part # "volume" =>
          /\ disk = [pl \in Places |-> Absent] /\ env = {} /\ word = CHOOSE w \in Words : TRUE
    /\ Coding!Init /\ (part # "names" => nCoder = CHOOSE c \in Coding!Coders : TRUE)
    /\ Packs!Init /\ Cipher!Init /\ Config_!Init /\ Windows!Init

MCCNext ==
    /\ \/ part = "volume" /\ MCNext /\ UNCHANGED <<nVars, bytes, sVars, cAll, wide>>
       \/ part = "names" /\ Coding!Next /\ UNCHANGED <<vars, bytes, sVars, cAll, wide>>
       \/ part = "packing" /\ Packs!Next /\ UNCHANGED <<vars, nVars, sVars, cAll, wide>>
       \/ part = "cipher" /\ Cipher!Next /\ UNCHANGED <<vars, nVars, bytes, cAll, wide>>
       \/ part = "config" /\ Config_!Next /\ UNCHANGED <<vars, nVars, bytes, sVars, wide>>
       \/ part = "wide" /\ Windows!Next /\ UNCHANGED <<vars, nVars, bytes, sVars, cAll>>
    /\ UNCHANGED part

MCCSpec == MCCInit /\ [][MCCNext]_<<part, vars, nVars, bytes, sVars, cAll, wide>>

\* What is listed leads back to its entry, an entry of another directory is not listed,
\* and paths come back as they were (NameIO.cpp:176-269, DirNode.cpp:123-159).
NamesFollowTree ==
    part = "names" =>
        Coding!ListedLeadsBack /\ Coding!WrongDirectoryRefused /\ Coding!PathsComeBack
\* Names as characters and data as ciphertext come back, in the sizes reckoned with,
\* and keys are made the same again (base64.cpp:25-163, SSL_Cipher.cpp:76-169, 790-933);
\* so do names, times and errors that pass to Windows and back (utils.cpp:39-341), but
\* for the characters put_utf8 does not write whole.
CodesInvert ==
    /\ part = "packing" => Packs!PacksExactly /\ Packs!SizesFit
    /\ part = "cipher" =>
          Cipher!Inverts /\ Cipher!TellsApart /\ Cipher!BytesAsOpenSSL /\ Cipher!SameKeyAgain
    /\ part = "wide" =>
          /\ Windows!WholeNamesComeBack /\ Windows!PathsAgree
          /\ Windows!TimesComeBack /\ Windows!ErrorsStayErrors
\* A configuration that loads says what was saved, and finds the implementation it
\* was written with (ConfigVar.cpp:100-240, ConfigReader.cpp:46-146, Interface.cpp:165).
ConfigComesBack ==
    part = "config" =>
        Config_!SavedComesBack /\ Config_!IntsComeBack /\ Config_!FoundAgain
=============================================================================
