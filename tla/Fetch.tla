-------------------------------- MODULE Fetch --------------------------------
(***************************************************************************)
(* AkshareClient of src/aquant/data/akshare_client.py.  fetch_batch gets   *)
(* the daily bars of a list of instruments: the ETFs first, then the       *)
(* stocks, and a group that fails at its primary provider is fetched       *)
(* again, whole, from the fallback provider.  fetch_corporate_actions gets *)
(* the dividends of one instrument, from one provider.  One action is one  *)
(* call of the provider library, which answers with a frame, with an empty *)
(* one, or raises.  Every call is logged in attempts.                      *)
(***************************************************************************)
EXTENDS Integers, SequencesExt

CONSTANTS Instruments,
          KindOf         \* Instruments -> {"etf", "stock"}

VARIABLES
    what,           \* "bars" or "actions"
    request,        \* the instruments asked for
    group,          \* the group being fetched; after the last one, all are
    provider,       \* of the group
    results,        \* of the group, so far: a set of results
    bySymbol,       \* of the groups that are done: a set with one for each instrument
    attempts,
    fetchReply, answer   \* "pending", "returned" or the code of a FetchError; the results

fetchVars == <<what, request, group, provider, results, bySymbol, attempts, fetchReply, answer>>

Groups == <<"etf", "stock">>

\* The positions of a group's instruments in the request.
Members(g) == {p \in DOMAIN request : KindOf[request[p]] = Groups[g]}

FetchInit ==
    /\ what \in {"bars", "actions"}
    /\ request \in {s \in SeqOf(Instruments, Cardinality(Instruments)) : IsInjective(s)}
    /\ what = "actions" => Len(request) = 1
    /\ group = 1 /\ provider = "eastmoney"
    /\ results = {} /\ bySymbol = {} /\ attempts = <<>>
    /\ fetchReply = "pending" /\ answer = <<>>

Attempt(instrument, from, ok) == [instrument |-> instrument, provider |-> from, ok |-> ok]

-----------------------------------------------------------------------------
(* fetch_batch *)

Fetching == what = "bars" /\ fetchReply = "pending" /\ group <= Len(Groups)
Missing  == {p \in Members(group) : \A r \in results : r.instrument # request[p]}
Called   == request[Min(Missing)]
Result   == [instrument |-> Called, provider |-> provider, call |-> Len(attempts) + 1]

SkipEmptyGroup ==
    /\ Fetching /\ Members(group) = {}
    /\ group' = group + 1
    /\ UNCHANGED <<what, request, provider, results, bySymbol, attempts, fetchReply, answer>>

CallSucceeds ==
    /\ Fetching /\ Members(group) # {}
    /\ attempts' = Append(attempts, Attempt(Called, provider, TRUE))
    /\ \/ /\ \E p \in Missing : request[p] # Called
          /\ results' = results \cup {Result} /\ UNCHANGED <<group, provider, bySymbol>>
       \/ /\ \A p \in Missing : request[p] = Called
          /\ bySymbol' = bySymbol \cup results \cup {Result}
          /\ group' = group + 1 /\ provider' = "eastmoney" /\ results' = {}
    /\ UNCHANGED <<what, request, fetchReply, answer>>

\* An exception or an empty frame gives the whole group up at this provider.
CallFailsResume ==           \* mutation: the fallback fetches only what is missing
    /\ Fetching /\ Members(group) # {}
    /\ attempts' = Append(attempts, Attempt(Called, provider, FALSE))
    /\ \/ provider = "eastmoney" /\ provider' = "sina" /\ UNCHANGED <<fetchReply, results>>
       \/ /\ provider = "sina" /\ fetchReply' = "source_group_failed" /\ results' = {}
          /\ UNCHANGED provider
    /\ UNCHANGED <<what, request, group, bySymbol, answer>>
CallFails ==
    /\ Fetching /\ Members(group) # {}
    /\ attempts' = Append(attempts, Attempt(Called, provider, FALSE))
    /\ results' = {}
    /\ \/ provider = "eastmoney" /\ provider' = "sina" /\ UNCHANGED fetchReply
       \/ provider = "sina" /\ fetchReply' = "source_group_failed" /\ UNCHANGED provider
    /\ UNCHANGED <<what, request, group, bySymbol, answer>>

Return ==
    /\ what = "bars" /\ fetchReply = "pending" /\ group > Len(Groups)
    /\ fetchReply' = "returned"
    /\ answer' = [p \in DOMAIN request |-> CHOOSE r \in bySymbol : r.instrument = request[p]]
    /\ UNCHANGED <<what, request, group, provider, results, bySymbol, attempts>>

-----------------------------------------------------------------------------
(* fetch_corporate_actions *)

ActionsFrom == IF KindOf[request[1]] = "stock" THEN "cninfo" ELSE "sina"

\* The library or the detail page fails; or both answer, and normalisation,
\* Dividends of this project, refuses or accepts what they say.
FetchActions ==
    /\ what = "actions" /\ fetchReply = "pending"
    /\ \/ /\ attempts' = <<Attempt(request[1], ActionsFrom, FALSE)>>
          /\ fetchReply' = "corporate_action_source_failed" /\ UNCHANGED answer
       \/ /\ attempts' = <<Attempt(request[1], ActionsFrom, TRUE),
                           Attempt(request[1], ActionsFrom, FALSE)>>
          /\ fetchReply' = "corporate_action_source_failed" /\ UNCHANGED answer
       \/ /\ attempts' = <<Attempt(request[1], ActionsFrom, TRUE)>>
          /\ fetchReply' = "returned"
          /\ answer' = <<[instrument |-> request[1], provider |-> ActionsFrom, call |-> 1]>>
    /\ UNCHANGED <<what, request, group, provider, results, bySymbol>>

FetchNext == SkipEmptyGroup \/ CallSucceeds \/ CallFails \/ Return \/ FetchActions
FetchSpec == FetchInit /\ [][FetchNext]_fetchVars

-----------------------------------------------------------------------------
(* Properties *)

\* The providers measure volume in different units and slice dates differently,
\* so whatever calls fail a batch that is returned holds each instrument asked
\* for, in that order, and every group of it comes from one provider, from
\* calls that all succeeded after the group's last failure; the fallback only
\* serves a group whose primary failed.  A batch that is refused shows a group
\* that failed at both, and the last call logged is the one that ended it.
FailedAt(g, from) ==
    {c \in DOMAIN attempts : /\ KindOf[attempts[c].instrument] = g
                             /\ attempts[c].provider = from /\ ~attempts[c].ok}
Backed(r) ==
    /\ attempts[r.call] = Attempt(r.instrument, r.provider, TRUE)
    /\ \A from \in {"eastmoney", "sina"} :
          \A c \in FailedAt(KindOf[r.instrument], from) : c < r.call
    /\ r.provider = "sina" /\ what = "bars" => FailedAt(KindOf[r.instrument], "eastmoney") # {}
BatchesAreConsistent ==
    /\ fetchReply = "returned" =>
          /\ Len(answer) = Len(request)
          /\ \A i \in DOMAIN answer : answer[i].instrument = request[i] /\ Backed(answer[i])
          /\ \A i, j \in DOMAIN answer :
                KindOf[request[i]] = KindOf[request[j]] => answer[i].provider = answer[j].provider
    /\ fetchReply = "source_group_failed" =>
          \E g \in ToSet(Groups) : FailedAt(g, "eastmoney") # {} /\ FailedAt(g, "sina") # {}
    /\ fetchReply \notin {"pending", "returned"} => ~Last(attempts).ok

=============================================================================
