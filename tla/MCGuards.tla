----------------------------- MODULE MCGuards --------------------------------
(***************************************************************************)
(* What must not leak and what must not count unapproved, checked side by  *)
(* side: a behaviour is one part's, and the others stay at rest.  The      *)
(* parts that compute one result do so for every input of the sets here.   *)
(***************************************************************************)
EXTENDS SecretVault, HistoryPins, InstallKey, SecretFindings, RedactWalk, WireBody,
        PolicyTrust, SettingsSave, TuiControls, SessionPins, SessionMirrors,
        SideThread, SideForks, SideMarks, UsageLimits

VARIABLE part

Parts == {"vault", "pins", "key", "findings", "walk", "wire", "policy", "save", "controls", "models",
          "mirrors", "thread", "forks", "marks", "limits"}

\* One secret, in a form that depends on a keyword, bare, and behind too much.
VaultTexts == {<<1, "gated">>, <<1, "bare">>, <<1, "heavy">>}
VaultEnv == {<<2, "b">>}
PeerAdds == {<<1, "b">>}

\* A follow-up; or an opening next to a beat, of a session that is kept.
SidePlans == {[exchanges |-> 2, beats |-> 0, opens |-> 0, keeps |-> FALSE]}
                \cup {[exchanges |-> 1, beats |-> 1, opens |-> 1, keeps |-> TRUE]}

\* Two records of one account, and one that shows none.
AccountsOf == [a1 |-> "a", a2 |-> "a", u |-> "unknown"]
AllSignedIn == viewed = "s1" /\ serverHas = [s1 |-> "a1", s2 |-> "a2"] /\ storeHas = "a1"

OneRoute == [s \in {1, 2} |-> {"x"}]

-----------------------------------------------------------------------------
(* What is walked: two values side by side, each a string or a pair, under     *)
(* names with and without a keyword, and names that are secrets.               *)

WalkStrings == {Str(s) : s \in {"clear", "token", "weak", "heavy", "password"}}
WalkNames == {"clear", "token", "weak", "password"}
Items == WalkStrings \cup {Lst(<<a, Str("weak")>>) : a \in WalkStrings}
             \cup {Obj(<<<<n, Str("weak")>>>>) : n \in WalkNames}
WalkDocuments ==
    {Obj(<<<<n, a>>, <<m, b>>>>) : n \in WalkNames, m \in {"clear", "weak"}, a \in Items, b \in Items}
        \cup {Lst(<<a, b>>) : a \in Items, b \in Items}
DistinctNames(d) == d.is = "object" => d.of[1][1] # d.of[2][1]

PartHead(type) == <<<<"id", Str("clear")>>, <<"type", Str(type)>>>>
FileParts == {Part(PartHead("file") \o <<<<"url", a>>>>) : a \in WalkStrings}
ToolParts ==
    {Part(PartHead("tool") \o <<<<"state", Obj(<<<<"status", Str("weak")>>, <<"attachments", Lst(<<f, g>>)>>,
                                              <<"output", a>>>>)>>>>) :
        a \in {Str("weak"), Str("token")}, f \in FileParts, g \in FileParts}
TextParts ==
    {Part(PartHead("text") \o <<<<"text", a>>,
                            <<"metadata", Obj(<<<<n, Obj(<<<<"ciphertext", b>>, <<m, b>>>>)>>>>)>>>>) :
        a \in {Str("weak"), Str("token")}, b \in WalkStrings, n \in {"clear", "password"}, m \in {"clear", "password"}}
MessageParts == {Lst(<<p>>) : p \in ToolParts} \cup {Lst(<<p, q>>) : p \in FileParts, q \in TextParts}
                    \cup {Lst(<<p, q>>) : p \in TextParts, q \in FileParts \cup TextParts}
WalkInputs == {d \in WalkDocuments : DistinctNames(d)}

-----------------------------------------------------------------------------

\* A part at rest.
IKRest == keyFile = Missing /\ keyLock = 0 /\ lockStale = FALSE /\ excused = FALSE
          /\ doing = [p \in Starts |-> "off"] /\ took = [p \in Starts |-> 0]
SFRest == content = <<>> /\ already = {} /\ context = FALSE /\ result = None
RWRest == input = [value |-> Str("clear"), names |-> <<>>, parts |-> FALSE]
          /\ walked = Unwalked /\ restored = Unwalked.value
WBRest == outgoing = NotYet /\ outcome = NotYet
UsualConfigs == configs["early"].kind \in {"missing", "own"} /\ configs["late"].kind # "plain"
SSRest == configs = [p \in ConfigPlaces |-> Nothing] /\ locked = [p \in ConfigPlaces |-> {}]
          /\ save = [s \in Savers |-> NotSaving] /\ edited = 0

Init ==
    /\ part \in Parts
    /\ SVInit /\ HPInit
    /\ IF part = "key" THEN IKInit ELSE IKRest
    /\ IF part = "findings" THEN SFInit ELSE SFRest
    /\ IF part = "walk" THEN RWInit ELSE RWRest
    /\ IF part = "wire" THEN WBInit ELSE WBRest
    /\ PTInit
    /\ IF part = "save" THEN SSInit /\ UsualConfigs ELSE SSRest
    /\ TCInit /\ (part # "controls" => local = {})
    /\ SPInit
    /\ SMInit
    /\ STInit /\ (part # "thread" => plan.exchanges = 2)
    /\ FKInit
    /\ MKInit /\ (part # "marks" => isFork)
    /\ ULInit /\ AllSignedIn

\* The variables of redact-secrets, of approve-for-me, and of the terminals of btw
\* and of the usage limits.
secrets == <<svVars, hpVars, ikVars, sfVars, rwVars, wbVars>>
settings == <<ptVars, ssVars, tcVars, spVars, smVars>>
sides == <<stVars, fkVars, mkVars, ulVars>>

Next ==
    /\ UNCHANGED part
    /\ \/ part = "vault" /\ SVNext /\ UNCHANGED <<hpVars, ikVars, sfVars, rwVars, wbVars, settings, sides>>
       \/ part = "pins" /\ HPNext /\ UNCHANGED <<svVars, ikVars, sfVars, rwVars, wbVars, settings, sides>>
       \/ part = "key" /\ IKNext /\ UNCHANGED <<svVars, hpVars, sfVars, rwVars, wbVars, settings, sides>>
       \/ part = "findings" /\ RedactContent /\ UNCHANGED <<svVars, hpVars, ikVars, rwVars, wbVars, settings, sides>>
       \/ part = "walk" /\ RedactInput /\ UNCHANGED <<svVars, hpVars, ikVars, sfVars, wbVars, settings, sides>>
       \/ part = "wire" /\ Inspect /\ UNCHANGED <<svVars, hpVars, ikVars, sfVars, rwVars, settings, sides>>
       \/ part = "policy" /\ PTNext /\ UNCHANGED <<ssVars, tcVars, spVars, smVars, secrets, sides>>
       \/ part = "save" /\ SSNext /\ UNCHANGED <<ptVars, tcVars, spVars, smVars, secrets, sides>>
       \/ part = "controls" /\ TCNext /\ UNCHANGED <<ptVars, ssVars, spVars, smVars, secrets, sides>>
       \/ part = "models" /\ SPNext /\ UNCHANGED <<ptVars, ssVars, tcVars, smVars, secrets, sides>>
       \/ part = "mirrors" /\ SMNext /\ UNCHANGED <<ptVars, ssVars, tcVars, spVars, secrets, sides>>
       \/ part = "thread" /\ STNext /\ UNCHANGED <<fkVars, mkVars, ulVars, secrets, settings>>
       \/ part = "forks" /\ FKNext /\ UNCHANGED <<stVars, mkVars, ulVars, secrets, settings>>
       \/ part = "marks" /\ MKNext /\ UNCHANGED <<stVars, fkVars, ulVars, secrets, settings>>
       \/ part = "limits" /\ ULNext /\ UNCHANGED <<stVars, fkVars, mkVars, secrets, settings>>

Spec == Init /\ [][Next]_<<part, secrets, settings, sides>>

-----------------------------------------------------------------------------
\* No secret gets out in a form redact-secrets knows: what is looked up is looked
\* up afresh, what is scanned, walked and inspected last leaves nothing readable,
\* and what was masked can be told again.
SecretsStayInside == VaultIsSound /\ SecretsAreMasked /\ WalkIsSound /\ NothingReadableLeaves
=============================================================================
