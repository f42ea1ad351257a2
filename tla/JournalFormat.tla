--------------------------- MODULE JournalFormat ---------------------------
(***************************************************************************)
(* The JSON of the journals: SerializeOperation and DeserializeOperation.  *)
(* Both are written out by hand for every kind of operation, and the       *)
(* reader takes the members in one order only: what the writer says has to *)
(* be what the reader expects, member by member.                           *)
(*                                                                         *)
(* A JSON object is the sequence of its members.  The members bear the     *)
(* names of the model's fields; a value that holds no object (an           *)
(* identifier, a text, a time, a flag) stands for what is written of it.   *)
(***************************************************************************)
EXTENDS Operations

-----------------------------------------------------------------------------
(* Writing. *)

Member(name, value) == <<[name |-> name, value |-> value]>>

\* The fields of r, in the order of names.
Write(r, names) ==
    [i \in DOMAIN names |-> [name |-> names[i], value |-> r[names[i]]]]

WriteIf(test, r, names) == IF test THEN Write(r, names) ELSE <<>>

\* An array of objects, and an object or null.
WriteList(name, list, names) ==
    Member(name, [i \in DOMAIN list |-> Write(list[i], names)])
WriteObject(name, r, names) ==
    Member(name, IF DOMAIN r = {} THEN <<>> ELSE Write(r, names))

WriteExactPositions(exact) ==
    LET ids == SetToSeq(DOMAIN exact)
    IN  Member("exact", [i \in DOMAIN ids |->
            Write([clip |-> ids[i], tin |-> exact[ids[i]]], <<"clip", "tin">>)])

WriteClipEffects(fx) ==
    Member("fx", [i \in DOMAIN fx |-> Write([id |-> fx[i]], <<"id">>)])

\* What a recorded track keeps of a clip: the link, its reference, the
\* caption style and the text when there are any; the audio processing is not
\* written.
WriteExactClip(c) ==
    Write(c, <<"id", "src", "sin", "dur", "tin", "audio">>) \o
    WriteIf(c.group # None, c, <<"group">>) \o
    WriteIf(c.anchor # None, c, <<"anchor", "delta">>) \o
    WriteClipEffects(c.fx) \o
    WriteIf(c.style # None, c, <<"style">>) \o
    WriteIf(c.text # "", c, <<"text">>) \o
    Write(c, <<"opacity">>)

WriteExactTracks(exact) ==
    Member("exact", [t \in DOMAIN exact |->
        [i \in DOMAIN exact[t] |-> WriteExactClip(exact[t][i])]])

\* Clips put in, taken out and copied.
WriteClipsOperation(op) ==
    CASE op.kind = "InsertClip" ->
           Write(op, <<"track", "src", "sin", "dur", "tin", "clip">>) \o
           WriteExactPositions(op.exact)
      [] op.kind = "RemoveClip" ->
           Write(op, <<"clip", "sync">>) \o WriteExactPositions(op.exact)
      [] op.kind \in {"ClearClip", "ClearClips"} ->
           Write(op, <<"clips">>) \o WriteExactTracks(op.exact)
      [] op.kind = "PasteClips" ->
           WriteList("items", op.items,
               <<"copied", "track", "src", "sin", "dur", "tin", "group",
                 "anchor", "delta">>) \o
           WriteExactTracks(op.exact) \o Write(op, <<"overwrite">>)

\* Clips trimmed and moved, alone or with those linked to them.
WriteMoveOperation(op) ==
    CASE op.kind = "TrimClip" ->
           Write(op, <<"clip", "edge", "delta">>) \o
           WriteObject("exact", op.exact, <<"sin", "dur", "tin">>)
      [] op.kind = "MoveClip" ->
           Write(op, <<"clip", "track", "tin">>) \o WriteExactTracks(op.exact)
      [] op.kind = "MoveClips" ->
           WriteList("moves", op.moves, <<"clip", "track", "tin">>) \o
           WriteExactTracks(op.exact)
      [] op.kind = "MoveLinkedClips" ->
           Write(op, <<"group">>) \o
           WriteList("moves", op.moves, <<"clip", "track", "tin">>) \o
           WriteExactTracks(op.exact)
      [] op.kind = "TrimLinkedClips" ->
           Write(op, <<"group">>) \o
           WriteList("trims", op.trims, <<"clip", "edge", "delta">>) \o
           WriteExactTracks(op.exact)

\* Ripple, roll and slip.
WriteTrimOperation(op) ==
    CASE op.kind = "RippleTrim" ->
           Write(op, <<"clip", "edge", "delta", "linked", "sync">>) \o
           WriteExactTracks(op.exact)
      [] op.kind = "TrimBoundaryAir" ->
           WriteList("trims", op.trims, <<"clip", "edge", "delta", "linked">>) \o
           Write(op, <<"sync">>) \o WriteExactTracks(op.exact)
      [] op.kind = "RollEdit" ->
           WriteList("pairs", op.pairs, <<"left", "right">>) \o
           Write(op, <<"delta">>) \o WriteExactTracks(op.exact)
      [] op.kind = "SlipEdit" ->
           Write(op, <<"clips", "delta">>) \o WriteExactTracks(op.exact)

\* Linked clips taken out, cuts, and gaps closed.
WriteCutOperation(op) ==
    CASE op.kind = "RemoveLinkedClips" ->
           Write(op, <<"group", "clips", "sync">>) \o WriteExactTracks(op.exact)
      [] op.kind = "ClearLinkedClips" ->
           Write(op, <<"group", "clips">>) \o WriteExactTracks(op.exact)
      [] op.kind = "SplitClip" -> Write(op, <<"clip", "at", "right", "rightFx">>)
      [] op.kind = "SplitLinkedClips" ->
           Write(op, <<"group", "clips", "at", "leftGroup", "rightGroup",
                       "rights", "sync">>) \o
           WriteExactTracks(op.exact)
      [] op.kind = "DeleteGap" ->
           Write(op, <<"track", "start", "dur">>) \o
           WriteIf(op.linked # <<>>, op, <<"linked">>) \o
           WriteExactTracks(op.exact)
      [] op.kind = "DetachAudio" ->
           Write(op, <<"clip", "track", "audio">>) \o WriteExactTracks(op.exact)

\* A track is written with its settings, and with its clips when it has any.
WriteAddTrack(op) ==
    Write(op, <<"track">>) \o
    Write(op.state, <<"kind", "index", "locked", "sync", "output">>) \o
    (IF op.state.clips = <<>> THEN <<>>
     ELSE WriteExactTracks([t \in {op.track} |-> op.state.clips]))

\* Tracks, the sequence and the bins.
WriteSettingOperation(op) ==
    CASE op.kind = "AddTrack" -> WriteAddTrack(op)
      [] op.kind = "RemoveTrack" -> Write(op, <<"track">>)
      [] op.kind \in {"SetTrackLock", "SetTrackSyncLock", "SetTrackOutput"} ->
           Write(op, <<"track", "value">>)
      [] op.kind \in {"UpdateSequence", "SetColorManagement"} ->
           Write(op, <<"value">>)
      [] op.kind \in {"AddBin", "RemoveBin"} ->
           Write(op, <<"bin", "name", "parent">>)
      [] op.kind = "RenameBin" -> Write(op, <<"bin", "name">>)
      [] op.kind = "MoveBin" -> Write(op, <<"bin", "parent">>)
      [] op.kind = "SetMediaBin" -> Write(op, <<"media", "bin">>)

\* Markers, transitions and links.
WriteListOperation(op) ==
    CASE op.kind = "AddMarker" ->
           WriteObject("item", op.item, <<"id", "name", "time">>) \o
           Write(op, <<"at">>)
      [] op.kind = "UpdateMarker" -> Write(op.item, <<"id", "name", "time">>)
      [] op.kind \in {"RemoveMarker", "RemoveTransition"} -> Write(op, <<"id">>)
      [] op.kind = "AddTransition" ->
           WriteObject("item", op.item,
               <<"id", "track", "left", "right", "dur", "align">>) \o
           Write(op, <<"at">>)
      [] op.kind = "UpdateTransition" -> Write(op, <<"id", "dur", "align">>)
      [] op.kind = "SetClipLink" ->
           Write(op, <<"first", "second", "group">>) \o
           WriteList("exact", op.exact, <<"group", "anchor", "delta">>)

WriteAngles(group) ==
    Write(group, <<"id">>) \o WriteList("angles", group.angles, <<"id", "clip">>) \o
    Write(group, <<"active">>)

\* What one clip carries, caption styles and multicam groups.
WriteClipSetting(op) ==
    CASE op.kind = "SetClipEffects" -> Write(op, <<"clip">>) \o WriteClipEffects(op.fx)
      [] op.kind = "SetClipOpacity" -> Write(op, <<"clip", "opacity">>)
      [] op.kind = "SetClipAudio" -> Write(op, <<"clip", "gain", "fin", "fout">>)
      [] op.kind = "AddCaptionStyle" ->
           WriteObject("item", op.item, <<"id">>) \o Write(op, <<"at">>)
      [] op.kind \in {"RemoveCaptionStyle", "RemoveMulticamGroup"} ->
           Write(op, <<"id">>)
      [] op.kind = "SetClipCaption" -> Write(op, <<"clip", "style", "text">>)
      [] op.kind = "AddMulticamGroup" ->
           Member("item", WriteAngles(op.item)) \o Write(op, <<"at">>)
      [] op.kind = "SetMulticamActiveAngle" -> Write(op, <<"id", "active">>)

\* Several cuts, words taken out, and the inverse of a cut.
WriteWordsOperation(op) ==
    CASE op.kind = "SplitClipAtPositions" ->
           Write(op, <<"clip", "positions">>) \o WriteExactTracks(op.exact)
      [] op.kind = "RemoveWords" ->
           Write(op, <<"clip">>) \o
           WriteList("ranges", op.ranges, <<"from", "to">>) \o
           Write(op, <<"gap", "linked", "sync">>) \o WriteExactTracks(op.exact)
      [] op.kind = "JoinClip" ->
           Write(op, <<"left", "right">>) \o
           WriteObject("times", op.times, <<"sin", "dur", "tin">>)

OfClips == {"InsertClip", "RemoveClip", "ClearClip", "ClearClips", "PasteClips"}
OfMoves == {"TrimClip", "MoveClip", "MoveClips", "MoveLinkedClips",
            "TrimLinkedClips"}
OfTrims == {"RippleTrim", "TrimBoundaryAir", "RollEdit", "SlipEdit"}
OfCuts == {"RemoveLinkedClips", "ClearLinkedClips", "SplitClip",
           "SplitLinkedClips", "DeleteGap", "DetachAudio"}
OfSettings == {"AddTrack", "RemoveTrack", "SetTrackLock", "SetTrackSyncLock",
               "SetTrackOutput", "UpdateSequence", "SetColorManagement",
               "AddBin", "RemoveBin", "RenameBin", "MoveBin", "SetMediaBin"}
OfLists == {"AddMarker", "UpdateMarker", "RemoveMarker", "AddTransition",
            "RemoveTransition", "UpdateTransition", "SetClipLink"}
OfWords == {"SplitClipAtPositions", "RemoveWords", "JoinClip"}
OfClipSettings == {"SetClipEffects", "SetClipOpacity", "SetClipAudio",
                   "AddCaptionStyle", "RemoveCaptionStyle", "SetClipCaption",
                   "AddMulticamGroup", "RemoveMulticamGroup",
                   "SetMulticamActiveAngle"}

SerializeOperation(op) ==
    [type |-> op.kind,
     members |-> CASE op.kind \in OfClips -> WriteClipsOperation(op)
                   [] op.kind \in OfMoves -> WriteMoveOperation(op)
                   [] op.kind \in OfTrims -> WriteTrimOperation(op)
                   [] op.kind \in OfCuts -> WriteCutOperation(op)
                   [] op.kind \in OfSettings -> WriteSettingOperation(op)
                   [] op.kind \in OfLists -> WriteListOperation(op)
                   [] op.kind \in OfWords -> WriteWordsOperation(op)
                   [] op.kind \in OfClipSettings -> WriteClipSetting(op)]

-----------------------------------------------------------------------------
(* Reading.  A grammar is the sequence of the members the reader expects;  *)
(* how says what the value of a member has to be, of what it is made of.   *)

Expected(name, how, of) ==
    [name |-> name, how |-> how, of |-> of, when |-> {}, default |-> 0]

Must(names) == [i \in DOMAIN names |-> Expected(names[i], "value", <<>>)]

\* Members that older journals lack, or that are written only when they say
\* something: they are expected when the member "when" is there.
With(expected, when, default) ==
    [expected EXCEPT !.when = {when}, !.default = default]
May(name, default) == <<With(Expected(name, "value", <<>>), name, default)>>

OneOf(name, words) == <<Expected(name, "word", words)>>
Each(name, grammar) == <<Expected(name, "list", grammar)>>
Object(name, grammar) == <<Expected(name, "object", grammar)>>

Edge == OneOf("edge", {"head", "tail"})
Alignment == OneOf("align", {"center", "start_at_cut", "end_at_cut"})
ExactTimes == Must(<<"sin", "dur", "tin">>)

ReadExactPositions == Each("exact", Must(<<"clip", "tin">>))
ReadClipEffects == Each("fx", Must(<<"id">>))

\* Opacity is optional: snapshots written before it existed are opaque.
ReadExactClip ==
    Must(<<"id", "src", "sin", "dur", "tin">>) \o May("audio", TRUE) \o
    May("group", None) \o May("anchor", None) \o
    <<With(Expected("delta", "value", <<>>), "anchor", 0)>> \o
    ReadClipEffects \o May("style", None) \o May("text", "") \o May("opacity", 1)

ReadExactTracks == <<Expected("exact", "tracks", ReadExactClip)>>
MayReadExactTracks == <<With(ReadExactTracks[1], "exact", Nothing)>>

ReadClipsOperation(type) ==
    CASE type = "InsertClip" ->
           Must(<<"track", "src", "sin", "dur", "tin", "clip">>) \o
           ReadExactPositions
      [] type = "RemoveClip" ->
           Must(<<"clip">>) \o May("sync", {}) \o ReadExactPositions
      [] type \in {"ClearClip", "ClearClips"} ->
           Must(<<"clips">>) \o ReadExactTracks
      [] type = "PasteClips" ->
           Each("items", Must(<<"copied", "track", "src", "sin", "dur", "tin",
                                "group", "anchor", "delta">>)) \o
           ReadExactTracks \o May("overwrite", FALSE)

ReadMoveOperation(type) ==
    CASE type = "TrimClip" ->
           Must(<<"clip">>) \o Edge \o Must(<<"delta">>) \o
           Object("exact", ExactTimes)
      [] type = "MoveClip" ->
           Must(<<"clip", "track", "tin">>) \o MayReadExactTracks
      [] type = "MoveClips" ->
           Each("moves", Must(<<"clip", "track", "tin">>)) \o ReadExactTracks
      [] type = "MoveLinkedClips" ->
           Must(<<"group">>) \o Each("moves", Must(<<"clip", "track", "tin">>)) \o
           ReadExactTracks
      [] type = "TrimLinkedClips" ->
           Must(<<"group">>) \o
           Each("trims", Must(<<"clip">>) \o Edge \o Must(<<"delta">>)) \o
           ReadExactTracks

ReadTrimOperation(type) ==
    CASE type = "RippleTrim" ->
           Must(<<"clip">>) \o Edge \o Must(<<"delta", "linked", "sync">>) \o
           ReadExactTracks
      [] type = "TrimBoundaryAir" ->
           Each("trims", Must(<<"clip">>) \o Edge \o Must(<<"delta", "linked">>)) \o
           Must(<<"sync">>) \o ReadExactTracks
      [] type = "RollEdit" ->
           Each("pairs", Must(<<"left", "right">>)) \o Must(<<"delta">>) \o
           ReadExactTracks
      [] type = "SlipEdit" -> Must(<<"clips", "delta">>) \o ReadExactTracks

ReadCutOperation(type) ==
    CASE type = "RemoveLinkedClips" ->
           Must(<<"group", "clips">>) \o May("sync", {}) \o ReadExactTracks
      [] type = "ClearLinkedClips" ->
           Must(<<"group", "clips">>) \o ReadExactTracks
      [] type = "SplitClip" ->
           Must(<<"clip", "at", "right">>) \o May("rightFx", <<>>)
      [] type = "SplitLinkedClips" ->
           Must(<<"group", "clips", "at", "leftGroup", "rightGroup", "rights">>) \o
           May("sync", {}) \o ReadExactTracks
      [] type = "DeleteGap" ->
           Must(<<"track", "start", "dur">>) \o May("linked", <<>>) \o
           ReadExactTracks
      [] type = "DetachAudio" ->
           Must(<<"clip", "track", "audio">>) \o ReadExactTracks

ReadAddTrack ==
    Must(<<"track", "kind", "index">>) \o May("locked", FALSE) \o
    May("sync", TRUE) \o May("output", "on") \o
    MayReadExactTracks

ReadSettingOperation(type) ==
    CASE type = "AddTrack" -> ReadAddTrack
      [] type = "RemoveTrack" -> Must(<<"track">>)
      [] type \in {"SetTrackLock", "SetTrackSyncLock", "SetTrackOutput"} ->
           Must(<<"track", "value">>)
      [] type \in {"UpdateSequence", "SetColorManagement"} -> Must(<<"value">>)
      [] type \in {"AddBin", "RemoveBin"} ->
           Must(<<"bin", "name">>) \o May("parent", None)
      [] type = "RenameBin" -> Must(<<"bin", "name">>)
      [] type = "MoveBin" -> Must(<<"bin", "parent">>)
      [] type = "SetMediaBin" -> Must(<<"media", "bin">>)

ReadListOperation(type) ==
    CASE type = "AddMarker" ->
           Object("item", Must(<<"id", "name", "time">>)) \o Must(<<"at">>)
      [] type = "UpdateMarker" -> Must(<<"id", "name", "time">>)
      [] type \in {"RemoveMarker", "RemoveTransition"} -> Must(<<"id">>)
      [] type = "AddTransition" ->
           Object("item", Must(<<"id", "track", "left", "right", "dur">>) \o
                          Alignment) \o
           Must(<<"at">>)
      [] type = "UpdateTransition" -> Must(<<"id", "dur">>) \o Alignment
      [] type = "SetClipLink" ->
           Must(<<"first", "second", "group">>) \o
           <<With(Each("exact", Must(<<"group", "anchor", "delta">>))[1],
                  "exact", Nothing)>>

ReadClipSetting(type) ==
    CASE type = "JoinClip" ->
           Must(<<"left", "right">>) \o Object("times", ExactTimes)
      [] type = "SetClipEffects" -> Must(<<"clip">>) \o ReadClipEffects
      [] type = "SetClipOpacity" -> Must(<<"clip", "opacity">>)
      [] type = "SetClipAudio" -> Must(<<"clip", "gain", "fin", "fout">>)
      [] type = "AddCaptionStyle" -> Object("item", Must(<<"id">>)) \o Must(<<"at">>)
      [] type \in {"RemoveCaptionStyle", "RemoveMulticamGroup"} -> Must(<<"id">>)
      [] type = "SetClipCaption" -> Must(<<"clip", "style", "text">>)
      [] type = "AddMulticamGroup" ->
           Object("item", Must(<<"id">>) \o Each("angles", Must(<<"id", "clip">>)) \o
                          Must(<<"active">>)) \o
           Must(<<"at">>)
      [] type = "SetMulticamActiveAngle" -> Must(<<"id", "active">>)

ReadWordsOperation(type) ==
    CASE type = "SplitClipAtPositions" ->
           Must(<<"clip", "positions">>) \o ReadExactTracks
      [] type = "RemoveWords" ->
           Must(<<"clip">>) \o Each("ranges", Must(<<"from", "to">>)) \o
           Must(<<"gap">>) \o May("linked", <<>>) \o Must(<<"sync">>) \o
           ReadExactTracks

Grammar(type) ==
    CASE type \in OfClips -> ReadClipsOperation(type)
      [] type \in OfMoves -> ReadMoveOperation(type)
      [] type \in OfTrims -> ReadTrimOperation(type)
      [] type \in OfCuts -> ReadCutOperation(type)
      [] type \in OfSettings -> ReadSettingOperation(type)
      [] type \in OfLists -> ReadListOperation(type)
      [] type \in OfWords \ {"JoinClip"} -> ReadWordsOperation(type)
      [] type \in OfClipSettings \cup {"JoinClip"} -> ReadClipSetting(type)

\* The types the reader knows; another one is a parse error.
Types == OfClips \cup OfMoves \cup OfTrims \cup OfCuts \cup OfSettings \cup
         OfLists \cup OfWords \cup OfClipSettings
Grammars == [type \in Types |-> Grammar(type)]

-----------------------------------------------------------------------------
(* The reader itself. *)

Names(members) == [i \in DOMAIN members |-> members[i].name]

\* The members the reader goes through when those named are there.
Present(names, grammar) ==
    SelectSeq(grammar, LAMBDA m : m.when = {} \/ m.when \subseteq names)

RECURSIVE Reads(_, _), Fields(_, _)

\* Reader::Expect and Finish: every member in its place, and none left over.
Reads(object, grammar) ==
    LET names == Range(Names(object))
        m == Present(names, grammar)
        accepts(e, v) ==
            CASE e.how = "word" -> v \in e.of
              [] e.how = "object" -> v # <<>> => Reads(v, e.of)
              [] e.how = "list" -> \A i \in DOMAIN v : Reads(v[i], e.of)
              [] e.how = "tracks" ->
                   \A t \in DOMAIN v : \A i \in DOMAIN v[t] : Reads(v[t][i], e.of)
              [] OTHER -> TRUE
    IN  /\ Names(object) = Names(m)
        /\ \A i \in DOMAIN object : accepts(m[i], object[i].value)

\* The audio processing of a clip in a recorded track is that of a new clip.
ExactClip(fields) ==
    [gain |-> 0, fin |-> 0, fout |-> 0] @@
    [fields EXCEPT !.fx = [i \in DOMAIN @ |-> @[i].id]]

\* What an object that was read says, missing members by their defaults.
Fields(object, grammar) ==
    LET value(e, v) ==
            CASE e.how = "object" -> IF v = <<>> THEN Nothing ELSE Fields(v, e.of)
              [] e.how = "list" -> [i \in DOMAIN v |-> Fields(v[i], e.of)]
              [] e.how = "tracks" ->
                   [t \in DOMAIN v |->
                       [i \in DOMAIN v[t] |-> ExactClip(Fields(v[t][i], e.of))]]
              [] OTHER -> v
        at(name) == CHOOSE i \in DOMAIN object : object[i].name = name
        entry(name) == grammar[CHOOSE i \in DOMAIN grammar : grammar[i].name = name]
    IN  [name \in Range(Names(grammar)) |->
            IF name \in Range(Names(object))
            THEN value(entry(name), object[at(name)].value)
            ELSE entry(name).default]

ParseError == [kind |-> "ParseError"]

\* The track of an AddTrack with the clips read for it.
MadeTrack(f) ==
    [track |-> f.track,
     state |-> [kind |-> f.kind, index |-> f.index, locked |-> f.locked,
                sync |-> f.sync, output |-> f.output,
                clips |-> IF DOMAIN f.exact = {} THEN <<>> ELSE f.exact[f.track]]]

MadePositions(list) ==
    [id \in {x.clip : x \in Range(list)} |->
        (CHOOSE x \in Range(list) : x.clip = id).tin]

\* The operation that the members read make.
Made(type, f) ==
    CASE type = "AddTrack" -> MadeTrack(f)
      [] type \in OfPositions -> [f EXCEPT !.exact = MadePositions(@)]
      [] type = "SetClipEffects" ->
           [f EXCEPT !.fx = [i \in DOMAIN @ |-> @[i].id]]
      [] type = "UpdateMarker" -> [item |-> f]
      [] OTHER -> f

\* The recorded clips of an AddTrack are those of its track.
ItsOwnTrack(type, f) ==
    type = "AddTrack" => DOMAIN f.exact \subseteq {f.track}

DeserializeOperation(json) ==
    LET f == Fields(json.members, Grammars[json.type])
    IN  IF /\ json.type \in Types
           /\ Reads(json.members, Grammars[json.type])
           /\ ItsOwnTrack(json.type, f)
        THEN [kind |-> json.type] @@ Made(json.type, f)
        ELSE ParseError

=============================================================================
