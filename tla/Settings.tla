------------------------------ MODULE Settings ------------------------------
(***************************************************************************)
(* The options of the facade (jsonx/options.go, jsonx.go 49-50): the list   *)
(* of options that a function is given, resolved to one record.             *)
(***************************************************************************)
EXTENDS Integers, Sequences, SequencesExt

Flags == {"EscapeHTML", "SortKeys", "DisallowUnknown", "RequireFields", "NoCoerce",
          "AllowComments", "NumberAsFloat64", "RejectDuplicateKeys"}

DefaultDepth == 512
Defaults == [flag |-> [f \in Flags |-> f \in {"EscapeHTML", "NumberAsFloat64"}], MaxDepth |-> DefaultDepth]

(* An option sets one field, or all of them (WithOptions), or is nil. *)
Setting(what, on, depth, all) == [what |-> what, on |-> on, depth |-> depth, all |-> all]
Set(flag, on)  == Setting(flag, on, 0, Defaults)
MaxDepth(n)    == Setting("MaxDepth", FALSE, n, Defaults)
WithOptions(o) == Setting("all", FALSE, 0, o)
NilOption      == Setting("nil", FALSE, 0, Defaults)

Records == [flag : [Flags -> BOOLEAN], MaxDepth : Int]
Option  == [what : Flags \cup {"nil", "all", "MaxDepth"}, on : BOOLEAN, depth : Int, all : Records]

Positive(o) == IF o.MaxDepth <= 0 THEN [o EXCEPT !.MaxDepth = DefaultDepth] ELSE o

Apply(o, option) ==
  CASE option.what = "nil"      -> o
    [] option.what = "all"      -> Positive(option.all)
    [] option.what = "MaxDepth" -> [o EXCEPT !.MaxDepth = option.depth]
    [] OTHER                    -> [o EXCEPT !.flag[option.what] = option.on]

Resolve(options) == Positive(FoldLeft(Apply, Defaults, options))

(* DecodeStrict() puts these before its caller's options. *)
Strict == <<Set("DisallowUnknown", TRUE), Set("RequireFields", TRUE), Set("NoCoerce", TRUE)>>

-----------------------------------------------------------------------------
(* What resolve() should give: the value of an option is what the last      *)
(* option says that speaks of it.                                           *)
Speakers(options, what) == {i \in 1..Len(options) : options[i].what \in {what, "all"}}

FlagOf(option, flag) == IF option.what = "all" THEN option.all.flag[flag] ELSE option.on
DepthOf(option)      == IF option.what = "all" THEN option.all.MaxDepth ELSE option.depth

LastWord(options, flag) ==
  LET speakers == Speakers(options, flag)
  IN IF speakers = {} THEN Defaults.flag[flag] ELSE FlagOf(options[Max(speakers)], flag)

LastDepth(options) ==
  LET speakers == Speakers(options, "MaxDepth")
      said     == DepthOf(options[Max(speakers)])
  IN IF speakers = {} \/ said <= 0 THEN DefaultDepth ELSE said

=============================================================================
