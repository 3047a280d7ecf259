------------------------------ MODULE MCFiles ------------------------------
(***************************************************************************)
(* The three file layers, each by itself over what it takes to be a plain  *)
(* file: a behaviour is one of one layer, and the others stay as they are. *)
(* Blocks of two bytes, files of up to three blocks.                       *)
(***************************************************************************)
EXTENDS BlockFile, TLC

CONSTANTS LayerSize,  \* the largest file of the other two layers
          LayerSizes  \* and the sizes read of them

VARIABLES layer,                                              \* block, mac or raw
          mVolume, mBase, mCache, mRet,                       \* of MacFile
          rContent, rMode, rAsked, rFd, rKnown, rOpen, rHandles, rRet  \* of RawFile

AllVolumes == [header : BOOLEAN, holes : BOOLEAN]
MacVolumes == [mac : BOOLEAN, holes : BOOLEAN, warnOnly : BOOLEAN]
MCData == {<<1>>, <<2, 1, 2>>}
Symmetric == Permutations(Exts)
Nothing == {}

ASSUME LayerAssumption == LayerSize \in Nat /\ LayerSizes \subseteq Nat

macVars == <<mVolume, mBase, mCache, mRet>>
rawVars == <<rContent, rMode, rAsked, rFd, rKnown, rOpen, rHandles, rRet>>

Mac == INSTANCE MacFile
         WITH DB <- BS, H <- 1, MaxSize <- LayerSize, Sizes <- LayerSizes,
              Volumes <- MacVolumes, Unsafe <- {},
              volume <- mVolume, base <- mBase, cache <- mCache, ret <- mRet
Raw == INSTANCE RawFile
         WITH MaxSize <- LayerSize, Sizes <- LayerSizes, Unsafe <- {},
              content <- rContent, mode <- rMode, asked <- rAsked, fd <- rFd,
              known <- rKnown, open <- rOpen, handles <- rHandles, ret <- rRet

MCInit ==
    /\ layer \in {"block", "mac", "raw"}
    /\ Init /\ (layer # "block" => volume = CHOOSE v \in Volumes : TRUE)
    /\ Mac!Init /\ (layer # "mac" => mVolume = CHOOSE v \in MacVolumes : TRUE)
    /\ Raw!Init /\ (layer # "raw" => rMode = "r")

MCNext ==
    \/ layer = "block" /\ Next /\ UNCHANGED <<layer, macVars, rawVars>>
    \/ layer = "mac" /\ Mac!Next /\ UNCHANGED <<layer, vars, rawVars>>
    \/ layer = "raw" /\ Raw!Next /\ UNCHANGED <<layer, vars, macVars>>

MCSpec == MCInit /\ [][MCNext]_<<layer, vars, macVars, rawVars>>

\* No action and no invariant reads what was returned, and the refinements are
\* checked on every step, so states that differ in it alone need not be told apart.
WithoutRet == <<layer, volume, raw, hdr, node, moving, mVolume, mBase, mCache,
                rContent, rMode, rAsked, rFd, rKnown, rOpen, rHandles>>

\* The variables of every layer have their types.
TypesOK == TypeOK /\ Mac!TypeOK /\ Raw!TypeOK

\* MacFile: sizes with and without headers agree with the bytes there are, and no block
\* is refused that was not altered.
MacSound == Mac!SizesAgree /\ Mac!NoFalseAlarm
\* RawFile: the size remembered is the file's, every handle will be closed, and a
\* permission changed to open a file is put back.
RawSound == Raw!KnownSize /\ Raw!NeverLeaks /\ Raw!ModeRestored
\* MacFile and RawFile are plain files to the layers above them.
LayersArePlain == Mac!IsPlainFile /\ Raw!IsPlainFile
=============================================================================
