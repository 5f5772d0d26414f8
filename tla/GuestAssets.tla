---------------------------- MODULE GuestAssets ----------------------------
(***************************************************************************)
(* The asset functions of libandroid: an open asset is a copy of the file's *)
(* bytes and an offset, under a handle that is never used again.  The files *)
(* may be replaced while assets are open, and a read into guest memory can  *)
(* fail.                                                                    *)
(***************************************************************************)
EXTENDS Integers, Sequences

CONSTANTS AssetNames,     \* names the guest opens
          SafeNames,      \* those that stay under the asset root
          Sizes,          \* lengths of files
          Counts,         \* counts asked of a read
          MaxAssets,      \* bound: opens
          MaxReplaced     \* bound: replacements of a file

VARIABLES onRoot,     \* the file of each name: its length and version, or a directory
          assets,     \* assets_: handle -> [bytes, offset]
          nextAsset,  \* next_asset_handle_
          mine,       \* what the guest knows: handle -> [file, pos]
          answer,     \* bytes of the last read
          replaced

vars == <<onRoot, assets, nextAsset, mine, answer, replaced>>

NoFile == [kind |-> "none", length |-> 0, version |-> 0]
File(length, version) == [kind |-> "file", length |-> length, version |-> version]
Bytes(name, file) == [i \in 1 .. file.length |-> <<name, file.version, i>>]
Without(f, h) == [x \in DOMAIN f \ {h} |-> f[x]]
With(f, h, v) == [x \in DOMAIN f \cup {h} |-> IF x = h THEN v ELSE f[x]]

TypeOK ==
    /\ DOMAIN assets \subseteq 1 .. MaxAssets
    /\ \A h \in DOMAIN assets : assets[h].offset \in 0 .. Len(assets[h].bytes)

Init ==
    /\ onRoot \in [AssetNames -> {NoFile} \cup {File(n, 0) : n \in Sizes}]
    /\ assets = <<>> /\ nextAsset = 1 /\ mine = <<>>
    /\ answer = [handle |-> 0, at |-> 0, bytes |-> <<>>]
    /\ replaced = 0

----
\* read_asset_file(): all of it, or nothing when it cannot be read.
ReadAssetFile(name, readable) == IF readable THEN Bytes(name, onRoot[name]) ELSE <<>>

\* AAssetManager_open(): a safe name, a regular file, and bytes unless the
\* file is empty.
Open(name, readable) ==
    /\ name \in SafeNames /\ onRoot[name] # NoFile /\ nextAsset <= MaxAssets
    /\ LET bytes == ReadAssetFile(name, readable)
       IN  /\ bytes # <<>> \/ onRoot[name].length = 0
           /\ assets' = With(assets, nextAsset, [bytes |-> bytes, offset |-> 0])
           /\ mine' = With(mine, nextAsset, [file |-> Bytes(name, onRoot[name]), pos |-> 0])
    /\ nextAsset' = nextAsset + 1
    /\ UNCHANGED <<onRoot, answer, replaced>>

\* Mutant: the offset moves before the bytes are written.
ReadAdvancing(h, count, writes) ==
    LET asset == assets[h]
        left == Len(asset.bytes) - asset.offset
        n == IF count < left THEN count ELSE left
    IN  /\ assets' = [assets EXCEPT ![h].offset = @ + n]
        /\ IF n > 0 /\ ~writes THEN UNCHANGED <<answer, mine>>
           ELSE /\ answer' = [handle |-> h, at |-> mine[h].pos,
                              bytes |-> SubSeq(asset.bytes, asset.offset + 1, asset.offset + n)]
                /\ mine' = [mine EXCEPT ![h].pos = @ + n]
        /\ UNCHANGED <<onRoot, nextAsset, replaced>>
\* AAsset_read(): as many bytes as there are; -1, and nothing moved, when
\* guest memory does not take them.
Read(h, count, writes) ==
    LET asset == assets[h]
        left == Len(asset.bytes) - asset.offset
        n == IF count < left THEN count ELSE left
    IN  IF n > 0 /\ ~writes THEN UNCHANGED vars
        ELSE /\ assets' = [assets EXCEPT ![h].offset = @ + n]
             /\ answer' = [handle |-> h, at |-> mine[h].pos,
                           bytes |-> SubSeq(asset.bytes, asset.offset + 1, asset.offset + n)]
             /\ mine' = [mine EXCEPT ![h].pos = @ + n]
             /\ UNCHANGED <<onRoot, nextAsset, replaced>>

\* AAsset_getRemainingLength().
Remaining(h) == Len(assets[h].bytes) - assets[h].offset

\* AAsset_seek(): from the start, the offset or the end; anywhere in the
\* asset or just behind it.
Seek(h, offset, whence) ==
    LET asset == assets[h]
        base == [set |-> 0, cur |-> asset.offset, end |-> Len(asset.bytes)]
        to == base[whence] + offset
    IN  /\ to \in 0 .. Len(asset.bytes)
        /\ assets' = [assets EXCEPT ![h].offset = to]
        /\ mine' = [mine EXCEPT ![h].pos = to]
        /\ UNCHANGED <<onRoot, nextAsset, answer, replaced>>

\* AAsset_close().
Close(h) ==
    /\ assets' = Without(assets, h)
    /\ mine' = Without(mine, h)
    /\ UNCHANGED <<onRoot, nextAsset, answer, replaced>>

\* The application is installed again while the guest runs.
Replace(name, length) ==
    /\ replaced < MaxReplaced
    /\ replaced' = replaced + 1
    /\ onRoot' = [onRoot EXCEPT ![name] = File(length, replaced + 1)]
    /\ UNCHANGED <<assets, nextAsset, mine, answer>>

Next ==
    \/ \E name \in AssetNames, readable \in BOOLEAN : Open(name, readable)
    \/ \E h \in DOMAIN assets :
        \/ \E count \in Counts, writes \in BOOLEAN : Read(h, count, writes)
        \/ \E offset \in -1 .. 1, whence \in {"set", "cur", "end"} : Seek(h, offset, whence)
        \/ Close(h)
    \/ \E name \in AssetNames, length \in Sizes : Replace(name, length)

Spec == Init /\ [][Next]_vars

----
\* An open asset is the file as it was when it was opened: each read returns
\* that file's bytes from the place the guest is at, and the length left
\* agrees with it, although files are replaced, other assets are opened and
\* closed, and reads fail halfway.
AssetsAreSnapshots ==
    /\ \A h \in DOMAIN assets : Remaining(h) = Len(mine[h].file) - mine[h].pos
    /\ answer.handle \in DOMAIN mine =>
          \A i \in DOMAIN answer.bytes :
             answer.bytes[i] = mine[answer.handle].file[answer.at + i]
=============================================================================
