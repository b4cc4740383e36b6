------------------------------ MODULE MCSetup ------------------------------
(***************************************************************************)
(* Setup for TLC: two hooks of the user, h1 and h2.                        *)
(***************************************************************************)
EXTENDS Setup

CONSTANTS page, line   \* the two processes

Swap == Permutations({page, line})

File(stop) == [NoConfig("config") EXCEPT !.stop = stop]

(* A hook of another; one and the rmb hook in a group; a hook and an empty *)
(* group; what is no list; no JSON.                                        *)
Common == { NoConfig("bad"),
            File(<< <<"h1">> >>),
            [File(<< <<"h1">>, <<"h2", "rmb">> >>) EXCEPT !.on = TRUE],
            File(<< <<"h1">>, <<>> >>),
            [NoConfig("config") EXCEPT !.odd = {"h1"}] }

MCConfigs == [a \in Agents |->
  CASE a = "cursor" -> {NoConfig("absent"), File(<< <<"h1">> >>), File(<< <<"h1">>, <<"rmb">> >>)}
    [] a = "codex" -> Common \cup
         { [NoConfig("config") EXCEPT !.legacy = << <<"h2">>, <<"rmb">> >>, !.bare = TRUE],
           [File(<< <<"h1">> >>) EXCEPT !.legacy = << <<"h2">> >>] }
    [] a = "zcode" -> { File(<< <<"h1">>, <<"rmb">> >>),
                        [NoConfig("config") EXCEPT !.prompt = << <<"h2">>, <<>> >>] }
    [] a = "opencode" -> { NoConfig("bad"), File(<< <<"h1">> >>) }
    [] OTHER -> Common]

MCNotes == { NoNote("absent"), [NoNote("config") EXCEPT !.text = {"h1"}, !.block = "old"] }
=============================================================================
