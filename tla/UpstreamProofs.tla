----------------------------- MODULE UpstreamProofs -----------------------------
(***************************************************************************)
(* What comes from the backends: ModelsCache, the lists of models, and     *)
(* ResponseStream, the responses.                                          *)
(*                                                                         *)
(* ModelsCache is proved for any number of backends, URLs and requests and *)
(* for every lifetime and timeout: each list is kept for its own backend,  *)
(* and none is served that is too old or from before a switch.             *)
(*                                                                         *)
(* ResponseStream is proved for every set of responses and every way the   *)
(* network may cut them.  Lines, Joined and Read are recursions along a    *)
(* sequence, so their laws come first: Lines of two texts are glued        *)
(* (LinesAreGlued), Joined undoes Lines (JoinedLines), what a client reads *)
(* of a text it reads of the text that goes on (SeenExtends), and of a     *)
(* whole response it reads all events (WholeRead).  StreamInv then says    *)
(* that what the client has and what is still to come are the response,    *)
(* but for the marks of who named the model (Plain), and that every line   *)
(* the client has is good.                                                 *)
(***************************************************************************)
EXTENDS ModelsCache, ResponseStream, BackendStateProofs, SequenceLemmas

-----------------------------------------------------------------------------
(* ModelsCache: the invariant. *)

\* A list was made while its backend was being asked, and stored since the cache
\* was last cleared.
WellStored(e) ==
    /\ e.made <= e.fetched_at /\ e.fetched_at <= e.made + FetchTimeout
    /\ cleared_at <= e.fetched_at /\ e.fetched_at <= now

\* A request knows its key, and the attempt it waits for has not timed out.
WellAsked(r) ==
    /\ r.at # "idle" => r.key \in Backends \X Urls
    /\ r.at = "fetch" => r.since <= now /\ now <= r.since + FetchTimeout

CacheInv ==
    /\ BackendInv
    /\ CacheHoldsOwnLists
    /\ cleared_at <= now
    /\ \A k \in DOMAIN cache : WellStored(cache[k])
    /\ \A h \in Handlers : WellAsked(handler[h])

RequestType ==
    [at : {"idle", "lookup", "fetch"}, key : Keys, paths : 0..2, since : Nat]

LEMMA CacheInitInv == ModelsInit => CacheInv
<1> SUFFICES ASSUME ModelsInit PROVE CacheInv
    OBVIOUS
<1>1. BackendInv
    BY BackendInitInv DEF ModelsInit
<1>2. Waiting \in RequestType
    BY DEF Waiting, RequestType, Keys
<1>3. ModelsTypeOK
    BY <1>1, <1>2 DEF ModelsInit, BackendInv, ModelsTypeOK, RequestType
<1> QED
    BY <1>1, <1>3 DEF ModelsInit, CacheInv, CacheHoldsOwnLists, WellAsked, Waiting

\* The invariant looks at the backend table only for its own sake.
LEMMA ConfigurationKeepsInv ==
    ASSUME CacheInv, BackendInv', base_url' \in [Backends -> Urls], clearing' \in Nat,
           UNCHANGED <<cache, handler, now, cleared_at>>
    PROVE  CacheInv'
BY DEF CacheInv, CacheHoldsOwnLists, ModelsTypeOK, BackendInv, WellStored, WellAsked

LEMMA SwitchKeepsInv ==
    ASSUME CacheInv, NEW b \in Backends, Switch(b)
    PROVE  CacheInv'
<1>1. BackendInv'
    BY SwitchBackendInv DEF CacheInv, Switch
<1> QED
    BY <1>1, ConfigurationKeepsInv DEF CacheInv, CacheHoldsOwnLists, ModelsTypeOK, Switch

LEMMA EditKeepsInv ==
    ASSUME CacheInv, Edit
    PROVE  CacheInv'
<1>1. BackendInv'
    BY PutConfigInv DEF CacheInv, Edit
<1>2. base_url' \in [Backends -> Urls]
    BY DEF CacheInv, CacheHoldsOwnLists, ModelsTypeOK, Edit
<1> QED
    BY <1>1, <1>2, ConfigurationKeepsInv
    DEF CacheInv, CacheHoldsOwnLists, ModelsTypeOK, Edit

LEMMA InvalidateKeepsInv ==
    ASSUME CacheInv, InvalidateCache
    PROVE  CacheInv'
<1>1. BackendInv'
    BY DEF CacheInv, InvalidateCache, BackendInv, BackendTypeOK, ActiveIsConfigured,
           HasBackend, backendVars
<1>2. DOMAIN cache' = {}
    BY DEF InvalidateCache
<1>3. clearing' \in Nat /\ cleared_at' = now /\ UNCHANGED <<base_url, handler, now>>
    BY DEF CacheInv, CacheHoldsOwnLists, ModelsTypeOK, InvalidateCache
<1> QED
    BY <1>1, <1>2, <1>3
    DEF CacheInv, CacheHoldsOwnLists, ModelsTypeOK, BackendInv, WellAsked

LEMMA TimeKeepsInv ==
    ASSUME CacheInv, TimePasses
    PROVE  CacheInv'
<1>1. BackendInv'
    BY DEF CacheInv, TimePasses, BackendInv, BackendTypeOK, ActiveIsConfigured,
           HasBackend, backendVars
<1>2. /\ now \in Nat /\ now' = now + 1 /\ cleared_at \in Nat
      /\ UNCHANGED <<base_url, cache, clearing, handler, cleared_at>>
    BY DEF CacheInv, CacheHoldsOwnLists, ModelsTypeOK, TimePasses
<1>3. ModelsTypeOK' /\ CacheHoldsOwnLists'
    BY <1>1, <1>2 DEF CacheInv, CacheHoldsOwnLists, ModelsTypeOK, BackendInv
<1>4. ASSUME NEW k \in DOMAIN cache' PROVE WellStored(cache[k])'
    <2>1. cache[k] \in EntryType /\ WellStored(cache[k])
        BY <1>2 DEF CacheInv, CacheHoldsOwnLists, ModelsTypeOK
    <2> QED
        BY <1>2, <2>1 DEF WellStored, EntryType
<1>5. ASSUME NEW h \in Handlers PROVE WellAsked(handler[h])'
    <2>1. handler[h] \in RequestType /\ WellAsked(handler[h])
        BY DEF CacheInv, CacheHoldsOwnLists, ModelsTypeOK, RequestType
    <2>2. handler[h].at = "fetch" => now - handler[h].since < FetchTimeout
        BY DEF TimePasses
    <2> QED
        BY <1>2, <2>1, <2>2, TimesAssumption DEF WellAsked, RequestType
<1> QED
    BY <1>1, <1>2, <1>3, <1>4, <1>5 DEF CacheInv

\* A request that moves on, the cache staying as it is.
LEMMA RequestKeepsInv ==
    ASSUME CacheInv, NEW h \in Handlers, NEW r \in RequestType, WellAsked(r),
           handler' = [handler EXCEPT ![h] = r],
           UNCHANGED <<backendVars, base_url, cache, clearing, now, cleared_at>>
    PROVE  CacheInv'
<1>1. BackendInv'
    BY DEF CacheInv, BackendInv, BackendTypeOK, ActiveIsConfigured, HasBackend, backendVars
<1>2. handler' \in [Handlers -> RequestType]
    BY DEF CacheInv, CacheHoldsOwnLists, ModelsTypeOK, RequestType
<1>3. CacheHoldsOwnLists'
    BY <1>1, <1>2
    DEF CacheInv, CacheHoldsOwnLists, ModelsTypeOK, RequestType, BackendInv
<1>4. \A i \in Handlers : WellAsked(handler[i])'
    BY DEF CacheInv, CacheHoldsOwnLists, ModelsTypeOK, WellAsked
<1> QED
    BY <1>1, <1>3, <1>4 DEF CacheInv, WellStored

LEMMA StartKeepsInv ==
    ASSUME CacheInv, NEW h \in Handlers, Start(h)
    PROVE  CacheInv'
<1> DEFINE k == Key(active_backend, base_url[active_backend])
           r == [at |-> "lookup", key |-> k, paths |-> 0, since |-> 0]
<1>1. k \in Backends \X Urls
    BY DEF CacheInv, CacheHoldsOwnLists, ModelsTypeOK, BackendTypeOK, Key
<1>2. r \in RequestType /\ WellAsked(r)
    <2> HIDE DEF k
    <2> QED
        BY <1>1 DEF RequestType, Keys, WellAsked
<1>3. /\ handler' = [handler EXCEPT ![h] = r]
      /\ UNCHANGED <<backendVars, base_url, cache, clearing, now, cleared_at>>
    BY DEF Start
<1> HIDE DEF r
<1> QED
    BY <1>2, <1>3, RequestKeepsInv

LEMMA WaitingWell == Waiting \in RequestType /\ WellAsked(Waiting)
BY DEF Waiting, RequestType, Keys, WellAsked

LEMMA LookupKeepsInv ==
    ASSUME CacheInv, NEW h \in Handlers, Lookup(h)
    PROVE  CacheInv'
<1>1. UNCHANGED <<backendVars, base_url, cache, clearing, now, cleared_at>>
    BY DEF Lookup
<1>2. CASE handler' = [handler EXCEPT ![h] = Waiting]
    BY <1>1, <1>2, WaitingWell, RequestKeepsInv
<1>3. ASSUME NEW n \in {1, 2},
             handler' = [handler EXCEPT ![h] = [at |-> "fetch", key |-> handler[h].key,
                                                paths |-> n, since |-> now]]
      PROVE  CacheInv'
    <2> DEFINE r == [at |-> "fetch", key |-> handler[h].key, paths |-> n, since |-> now]
    <2>1. handler[h] \in RequestType /\ WellAsked(handler[h]) /\ now \in Nat
        BY DEF CacheInv, CacheHoldsOwnLists, ModelsTypeOK, RequestType
    <2>2. handler[h].key \in Backends \X Urls
        BY <2>1 DEF Lookup, WellAsked
    <2>3. r \in RequestType /\ WellAsked(r)
        BY <2>1, <2>2, TimesAssumption DEF RequestType, WellAsked, Keys
    <2> QED
        BY <1>1, <1>3, <2>3, RequestKeepsInv
<1> QED
    BY <1>2, <1>3 DEF Lookup

LEMMA FetchFailsKeepsInv ==
    ASSUME CacheInv, NEW h \in Handlers, FetchFails(h)
    PROVE  CacheInv'
<1>1. UNCHANGED <<backendVars, base_url, cache, clearing, now, cleared_at>>
    BY DEF FetchFails
<1>2. CASE handler' = [handler EXCEPT ![h] = Waiting]
    BY <1>1, <1>2, WaitingWell, RequestKeepsInv
<1>3. CASE handler' = [handler EXCEPT ![h] = [at |-> "fetch", key |-> handler[h].key,
                                              paths |-> 1, since |-> now]]
    <2> DEFINE r == [at |-> "fetch", key |-> handler[h].key, paths |-> 1, since |-> now]
    <2>1. handler[h] \in RequestType /\ WellAsked(handler[h]) /\ now \in Nat
        BY DEF CacheInv, CacheHoldsOwnLists, ModelsTypeOK, RequestType
    <2>2. handler[h].key \in Backends \X Urls
        BY <2>1 DEF FetchFails, WellAsked
    <2>3. r \in RequestType /\ WellAsked(r)
        BY <2>1, <2>2, TimesAssumption DEF RequestType, WellAsked, Keys
    <2> QED
        BY <1>1, <1>3, <2>3, RequestKeepsInv
<1> QED
    BY <1>2, <1>3 DEF FetchFails

LEMMA FetchSucceedsKeepsInv ==
    ASSUME CacheInv, NEW h \in Handlers, FetchSucceeds(h)
    PROVE  CacheInv'
<1> DEFINE k == handler[h].key
<1>1. PICK made \in handler[h].since..now :
        cache' = [i \in DOMAIN cache \cup {k} |->
                    IF i = k THEN Entry(k, made) ELSE cache[i]]
    BY DEF FetchSucceeds, KeyToStore
<1>2. /\ handler[h] \in RequestType /\ WellAsked(handler[h]) /\ handler[h].at = "fetch"
      /\ now \in Nat /\ cleared_at \in Nat /\ cleared_at <= now
    BY DEF CacheInv, CacheHoldsOwnLists, ModelsTypeOK, RequestType, FetchSucceeds
<1>3. UNCHANGED <<backendVars, base_url, clearing, now, cleared_at>>
    BY DEF FetchSucceeds
<1>4. k \in Backends \X Urls /\ k \in Keys
    BY <1>2 DEF WellAsked, Keys
<1>5. made \in Nat
    BY <1>2 DEF RequestType
<1>6. made <= now /\ now <= made + FetchTimeout
    BY <1>2, <1>5, TimesAssumption DEF RequestType, WellAsked
<1>7. Entry(k, made) \in EntryType /\ Entry(k, made).of = k /\ WellStored(Entry(k, made))
    BY <1>2, <1>4, <1>5, <1>6 DEF Entry, EntryType, WellStored
<1>8. BackendInv'
    BY <1>3 DEF CacheInv, BackendInv, BackendTypeOK, ActiveIsConfigured, HasBackend,
                backendVars
<1>9. /\ handler' \in [Handlers -> RequestType]
      /\ \A i \in Handlers : WellAsked(handler[i])'
    BY <1>3, WaitingWell
    DEF CacheInv, CacheHoldsOwnLists, ModelsTypeOK, RequestType, FetchSucceeds, WellAsked
<1>10. \A i \in DOMAIN cache' :
         cache'[i] \in EntryType /\ cache'[i].of = i /\ WellStored(cache[i])'
    <2> SUFFICES ASSUME NEW i \in DOMAIN cache'
                 PROVE  cache'[i] \in EntryType /\ cache'[i].of = i /\ WellStored(cache[i])'
        OBVIOUS
    <2>1. CASE i = k
        <3>1. cache'[i] = Entry(k, made)
            BY <1>1, <2>1
        <3> QED
            BY <1>3, <1>7, <2>1, <3>1 DEF WellStored
    <2>2. CASE i # k
        <3>1. i \in DOMAIN cache /\ cache'[i] = cache[i]
            BY <1>1, <2>2
        <3> QED
            BY <1>3, <3>1
            DEF CacheInv, CacheHoldsOwnLists, ModelsTypeOK, WellStored
    <2> QED
        BY <2>1, <2>2
<1>11. DOMAIN cache' \subseteq Backends \X Urls
    BY <1>1, <1>4 DEF CacheInv, CacheHoldsOwnLists, ModelsTypeOK
<1>12. CacheHoldsOwnLists'
    BY <1>3, <1>8, <1>9, <1>10, <1>11
    DEF CacheInv, CacheHoldsOwnLists, ModelsTypeOK, RequestType, BackendInv
<1> QED
    BY <1>2, <1>3, <1>8, <1>9, <1>10, <1>12 DEF CacheInv

LEMMA CacheNextInv == CacheInv /\ [ModelsNext]_modelsVars => CacheInv'
<1> SUFFICES ASSUME CacheInv, [ModelsNext]_modelsVars PROVE CacheInv'
    OBVIOUS
<1>1. CASE UNCHANGED modelsVars
    BY <1>1
    DEF modelsVars, backendVars, cacheVars, CacheInv, BackendInv, BackendTypeOK, HasBackend,
        ActiveIsConfigured, CacheHoldsOwnLists, ModelsTypeOK, WellStored, WellAsked
<1>2. ASSUME NEW h \in Handlers, Request(h)
      PROVE  CacheInv'
    BY <1>2, StartKeepsInv, LookupKeepsInv, FetchSucceedsKeepsInv, FetchFailsKeepsInv
    DEF Request
<1> QED
    BY <1>1, <1>2, SwitchKeepsInv, InvalidateKeepsInv, EditKeepsInv, TimeKeepsInv
    DEF ModelsNext

LEMMA CacheInvariant == ModelsSpec => []CacheInv
<1> QED
    BY CacheInitInv, CacheNextInv, PTL DEF ModelsSpec

-----------------------------------------------------------------------------

\* For any number of backends that move, are switched and dropped while their
\* lists are fetched, each list is kept under the name and URL it came from.
THEOREM CacheAlwaysHoldsOwnLists == ModelsSpec => []CacheHoldsOwnLists
<1>1. CacheInv => CacheHoldsOwnLists
    BY DEF CacheInv
<1> QED
    BY <1>1, CacheInvariant, PTL

\* What a request is answered with out of the cache is fresh and well stored.
LEMMA ServedWell ==
    ASSUME CacheInv, [ModelsNext]_modelsVars, NEW h \in Handlers, Served(h)
    PROVE  LET e == cache[handler[h].key]
           IN  e \in EntryType /\ WellStored(e) /\ now - e.fetched_at < CacheTtl
<1> DEFINE k == handler[h].key
<1>1. handler \in [Handlers -> RequestType]
    BY DEF CacheInv, CacheHoldsOwnLists, ModelsTypeOK, RequestType
<1>2. handler[h].at = "lookup" /\ handler'[h].at = "idle"
    BY DEF Served
<1>3. Lookup(h)
    <2>1. UNCHANGED handler => FALSE
        BY <1>2
    <2>2. ASSUME NEW i \in Handlers, Request(i)
          PROVE  Lookup(h)
        <3>1. CASE i # h
            <4>1. handler'[h] = handler[h]
                BY <1>1, <2>2, <3>1 DEF Request, Start, Lookup, FetchSucceeds, FetchFails
            <4> QED
                BY <1>2, <4>1
        <3>2. CASE i = h
            BY <1>2, <2>2, <3>2 DEF Request, Start, FetchSucceeds, FetchFails
        <3> QED
            BY <3>1, <3>2
    <2> QED
        BY <2>1, <2>2
        DEF ModelsNext, Switch, InvalidateCache, Edit, TimePasses, modelsVars, cacheVars
<1>4. k \in DOMAIN cache /\ IsFresh(k)
    <2>1. CASE ~(k \in DOMAIN cache /\ IsFresh(k))
        <3>1. handler'[h].at = "fetch"
            BY <1>1, <1>3, <2>1 DEF Lookup
        <3> QED
            BY <1>2, <3>1
    <2> QED
        BY <2>1
<1> QED
    BY <1>4 DEF CacheInv, CacheHoldsOwnLists, ModelsTypeOK, IsFresh

\* However slow the backends and however the configuration moves, a list out of
\* the cache was made within the lifetime of an entry and one attempt.
THEOREM ServedAlwaysRecent == ModelsSpec => ServedIsRecent
<1>1. ASSUME CacheInv, [ModelsNext]_modelsVars, NEW h \in Handlers, Served(h)
      PROVE  now - MadeAt(h) < CacheTtl + FetchTimeout
    <2> DEFINE e == cache[handler[h].key]
    <2>1. e \in EntryType /\ WellStored(e) /\ now - e.fetched_at < CacheTtl
        BY <1>1, ServedWell
    <2>2. /\ e.made \in Nat /\ e.fetched_at \in Nat /\ now \in Nat
          /\ e.fetched_at <= e.made + FetchTimeout
        BY <1>1, <2>1 DEF EntryType, WellStored, CacheInv, CacheHoldsOwnLists, ModelsTypeOK
    <2>3. MadeAt(h) = e.made
        BY DEF MadeAt
    <2> HIDE DEF e
    <2> QED
        BY <2>1, <2>2, <2>3, TimesAssumption
<1>2. CacheInv /\ [ModelsNext]_modelsVars
        => [\A h \in Handlers : Served(h) =>
              now - MadeAt(h) < CacheTtl + FetchTimeout]_modelsVars
    BY <1>1
<1> QED
    BY <1>2, CacheInvariant, PTL DEF ModelsSpec, ServedIsRecent

\* Nothing that was stored before a switch is served after its call of
\* invalidate_cache.
THEOREM ServedAlwaysSinceSwitch == ModelsSpec => ServedSinceSwitch
<1>1. ASSUME CacheInv, [ModelsNext]_modelsVars, NEW h \in Handlers, Served(h)
      PROVE  MadeAt(h) + FetchTimeout >= cleared_at
    <2> DEFINE e == cache[handler[h].key]
    <2>1. e \in EntryType /\ WellStored(e)
        BY <1>1, ServedWell
    <2>2. /\ e.made \in Nat /\ e.fetched_at \in Nat /\ cleared_at \in Nat
          /\ e.fetched_at <= e.made + FetchTimeout /\ cleared_at <= e.fetched_at
        BY <1>1, <2>1 DEF EntryType, WellStored, CacheInv, CacheHoldsOwnLists, ModelsTypeOK
    <2>3. MadeAt(h) = e.made
        BY DEF MadeAt
    <2> HIDE DEF e
    <2> QED
        BY <2>2, <2>3, TimesAssumption
<1>2. CacheInv /\ [ModelsNext]_modelsVars
        => [\A h \in Handlers : Served(h) =>
              MadeAt(h) + FetchTimeout >= cleared_at]_modelsVars
    BY <1>1
<1> QED
    BY <1>2, CacheInvariant, PTL DEF ModelsSpec, ServedSinceSwitch

-----------------------------------------------------------------------------
(* ResponseStream: the invariant. *)

\* A text without the marks of who named the model.
PlainToken(t) == [t EXCEPT !.original = FALSE]

Plain(s) == [i \in DOMAIN s |-> PlainToken(s[i])]

IsStart(t) == t.part = "head" /\ response[t.event].kind = "message_start"

WireToken(t) ==
    /\ t \in TokenType /\ ~t.original /\ ~t.damaged
    /\ IF t.part = "newline" THEN t = NL ELSE t.event \in DOMAIN response

\* A text that has come from the backend and was not touched.
OnWire(s) ==
    /\ s \in Seq(TokenType)
    /\ \A i \in DOMAIN s : WireToken(s[i])
    /\ \A i \in DOMAIN s :
         s[i].part = "head" => i < Len(s) /\ s[i + 1] = Token("tail", s[i].event)
    /\ \A i, j \in DOMAIN s : IsStart(s[i]) /\ IsStart(s[j]) => i = j

\* A data line is of one event and, unless that is in C, has the client's name for
\* the model exactly if it should.
GoodLineBut(l, C) ==
    IsDataLine(l) =>
        /\ l[1].event = l[2].event /\ l[1].event \in DOMAIN response
        /\ mapping /\ l[1].event \notin C => (l[2].original <=> NamesModel(l))

GoodLine(l) == GoodLineBut(l, cut)

\* Half a data line is followed by the other half.
Hanging ==
    LET l == Last(Lines(delivered)) IN
    Len(l) = 1 /\ l[1].part = "head" =>
        /\ source # <<>> /\ source[1] = Token("tail", l[1].event)
        /\ l[1].event \in cut

StreamInv ==
    /\ StreamTypeOK
    /\ OnWire(source)
    /\ mapping /\ anthropic_done => \A i \in DOMAIN source : ~IsStart(source[i])
    /\ \A i \in DOMAIN Lines(delivered) : GoodLine(Lines(delivered)[i])
    /\ Hanging
    /\ on_complete => response_buffer = delivered
    /\ ended = "done" => source = <<>>
    /\ ~torn => Plain(delivered) \o source = Whole(response)

-----------------------------------------------------------------------------
(* Lines, Joined and Read, a step of their recursion at a time. *)

\* Texts, and texts taken apart into lines.
Texts == Seq(TokenType)

Pages == {x \in Seq(Texts) : x # <<>>}

NoNewline(line) == \A i \in DOMAIN line : line[i].part # "newline"

LEMMA LinesWithType ==
    ASSUME NEW ls \in Pages, NEW t \in TokenType
    PROVE  LinesWith(ls, t) \in Pages
<1>1. ls \in Seq(Texts) /\ ls # <<>>
    BY DEF Pages
<1>2. Front(ls) \in Seq(Texts) /\ Last(ls) \in Texts
    <2> HIDE DEF Texts
    <2> QED
        BY <1>1, FrontAndLast
<1>3. <<>> \in Texts /\ Append(Last(ls), t) \in Texts
    BY <1>2 DEF Texts
<1>4. \A a \in Texts, x \in Seq(Texts) : Append(x, a) \in Seq(Texts) /\ Append(x, a) # <<>>
    BY AppendProperties
<1> QED
    BY <1>1, <1>2, <1>3, <1>4 DEF LinesWith, Pages

\* The function of Lines.
LinesBy(f, s) ==
    f = [n \in 0..Len(s) |->
            IF n = 0 THEN << <<>> >> ELSE LinesWith(f[n - 1], s[n])]

LEMMA LinesRun ==
    ASSUME NEW s \in Texts
    PROVE  LET h == CHOOSE f : LinesBy(f, s)
           IN  /\ h \in [0..Len(s) -> Pages] /\ h[0] = << <<>> >>
               /\ \A n \in 1..Len(s) : h[n] = LinesWith(h[n - 1], s[n])
<1> DEFINE len == Len(s)
           v == << <<>> >>
           G == [n \in 1..len |-> [x \in Pages |-> LinesWith(x, s[n])]]
           h == CHOOSE f : LinesBy(f, s)
<1>1. len \in Nat /\ \A n \in 1..len : s[n] \in TokenType
    BY DEF Texts
<1>2. v \in Pages
    BY DEF Pages, Texts
<1>3. G \in [1..len -> [Pages -> Pages]]
    BY <1>1, LinesWithType
<1>4. \A n \in 1..len : \A x \in Pages : G[n][x] = LinesWith(x, s[n])
    OBVIOUS
<1> HIDE DEF G, v, len
<1>5. ASSUME NEW f, f \in [0..len -> Pages]
      PROVE  Recurs(f, len, v, G) <=> LinesBy(f, s)
    <2>1. ASSUME NEW i \in 0..len
          PROVE  (IF i = 0 THEN v ELSE G[i][f[i - 1]])
                 = (IF i = 0 THEN << <<>> >> ELSE LinesWith(f[i - 1], s[i]))
        <3>1. i # 0 => i \in 1..len /\ f[i - 1] \in Pages
            BY <1>1, <1>5
        <3> QED
            BY <1>4, <3>1 DEF v
    <2> QED
        BY <2>1 DEF LinesBy, len, Recurs
<1>6. PICK f : Recurs(f, len, v, G)
    BY <1>1, <1>2, <1>3, RecursionExists
<1>7. f \in [0..len -> Pages] /\ Iterates(f, len, v, G)
    BY <1>1, <1>2, <1>3, <1>6, RecursionIterates
<1>8. LinesBy(h, s)
    <2>1. LinesBy(f, s)
        BY <1>5, <1>6, <1>7
    <2> QED
        BY <2>1
<1> HIDE DEF h
<1>9. h[0] = v /\ \A n \in 1..len : h[n] = LinesWith(h[n - 1], s[n])
    <2>1. 0 \in 0..len /\ \A n \in 1..len : n \in 0..len /\ n # 0
        BY <1>1
    <2> QED
        BY <1>8, <2>1 DEF LinesBy, len, v
<1>10. f[0] = v /\ \A n \in 1..len : f[n] = G[n][f[n - 1]]
    BY <1>7 DEF Iterates
<1>11. ASSUME NEW n \in 0..len PROVE h[n] = f[n]
    <2>1. \A i \in 1..n : h[i - 1] = f[i - 1] => h[i] = f[i]
        <3> SUFFICES ASSUME NEW i \in 1..n, h[i - 1] = f[i - 1]
                     PROVE  h[i] = f[i]
            OBVIOUS
        <3>1. i \in 1..len /\ f[i - 1] \in Pages
            BY <1>1, <1>7
        <3> QED
            BY <1>4, <1>9, <1>10, <3>1
    <2> QED
        BY <1>1, <1>9, <1>10, <2>1, RecursionsAgree
<1>12. h \in [0..len -> Pages]
    <2>1. h = [n \in 0..len |-> h[n]]
        BY <1>8 DEF LinesBy, len
    <2> QED
        BY <1>7, <1>11, <2>1
<1> QED
    BY <1>9, <1>12 DEF h, len, v

LEMMA LinesOfEmpty == Lines(<<>>) = << <<>> >> /\ <<>> \in Texts
<1> DEFINE h == CHOOSE f : LinesBy(f, <<>>)
<1>1. <<>> \in Texts /\ Len(<<>>) = 0
    BY DEF Texts
<1>2. h[0] = << <<>> >>
    BY <1>1, LinesRun
<1>3. Lines(<<>>) = h[0]
    BY <1>1 DEF Lines, LinesBy
<1> QED
    BY <1>1, <1>2, <1>3

LEMMA LinesOfAppend ==
    ASSUME NEW s \in Texts, NEW t \in TokenType
    PROVE  /\ Append(s, t) \in Texts /\ Lines(s) \in Pages
           /\ Lines(Append(s, t)) = LinesWith(Lines(s), t)
<1> DEFINE w == Append(s, t)
           len == Len(s)
           h == CHOOSE f : LinesBy(f, s)
           g == CHOOSE f : LinesBy(f, w)
<1>1. /\ len \in Nat /\ w \in Texts /\ Len(w) = len + 1 /\ w[len + 1] = t
      /\ \A i \in 1..len : w[i] = s[i]
    BY DEF Texts
<1>2. Lines(s) = h[len] /\ Lines(w) = g[len + 1]
    BY <1>1 DEF Lines, LinesBy
<1> HIDE DEF w
<1>3. /\ h \in [0..len -> Pages] /\ h[0] = << <<>> >>
      /\ \A n \in 1..len : h[n] = LinesWith(h[n - 1], s[n])
    BY LinesRun
<1>4. g[0] = << <<>> >> /\ \A n \in 1..(len + 1) : g[n] = LinesWith(g[n - 1], w[n])
    BY <1>1, LinesRun
<1> HIDE DEF h, g, len
<1>5. h[len] = g[len]
    <2>1. \A i \in 1..len : h[i - 1] = g[i - 1] => h[i] = g[i]
        <3>1. \A i \in 1..len : i \in 1..(len + 1)
            BY <1>1
        <3> QED
            BY <1>1, <1>3, <1>4, <3>1
    <2>2. len \in Nat /\ h[0] = g[0]
        BY <1>1, <1>3, <1>4
    <2> QED
        BY <2>1, <2>2, RecursionsAgree, Zenon
<1>6. len + 1 \in 1..(len + 1) /\ (len + 1) - 1 = len /\ len \in 0..len
    BY <1>1
<1> QED
    BY <1>1, <1>2, <1>3, <1>4, <1>5, <1>6 DEF w

LEMMA LinesType ==
    ASSUME NEW s \in Texts
    PROVE  Lines(s) \in Pages
<1>1. \A t \in TokenType : Append(s, t) \in Texts /\ Lines(s) \in Pages
    BY LinesOfAppend
<1>2. \E t : t \in TokenType
    <2>1. [part |-> "newline", event |-> 0, original |-> FALSE, damaged |-> FALSE] \in TokenType
        BY DEF TokenType
    <2> QED
        BY <2>1
<1> QED
    BY <1>1, <1>2

LEMMA JoinedWithType ==
    ASSUME NEW text \in Texts, NEW line \in Texts
    PROVE  JoinedWith(text, line) \in Texts
<1>1. <<NL>> \in Seq(TokenType)
    BY DEF NL, Token, TokenType
<1> QED
    BY <1>1, ConcatProperties DEF JoinedWith, Texts

\* The function of Joined.
JoinedBy(f, s) ==
    f = [n \in 0..Len(s) |->
            IF n = 0 THEN <<>> ELSE JoinedWith(f[n - 1], s[n])]

LEMMA JoinedRun ==
    ASSUME NEW s \in Seq(Texts)
    PROVE  LET h == CHOOSE f : JoinedBy(f, s)
           IN  /\ h \in [0..Len(s) -> Texts] /\ h[0] = <<>>
               /\ \A n \in 1..Len(s) : h[n] = JoinedWith(h[n - 1], s[n])
<1> DEFINE len == Len(s)
           v == <<>>
           G == [n \in 1..len |-> [x \in Texts |-> JoinedWith(x, s[n])]]
           h == CHOOSE f : JoinedBy(f, s)
<1>1. len \in Nat /\ \A n \in 1..len : s[n] \in Texts
    BY LenProperties, ElementOfSeq
<1>2. v \in Texts
    BY DEF Texts
<1>3. G \in [1..len -> [Texts -> Texts]]
    BY <1>1, JoinedWithType
<1>4. \A n \in 1..len : \A x \in Texts : G[n][x] = JoinedWith(x, s[n])
    OBVIOUS
<1> HIDE DEF G, v, len
<1>5. ASSUME NEW f, f \in [0..len -> Texts]
      PROVE  Recurs(f, len, v, G) <=> JoinedBy(f, s)
    <2>1. ASSUME NEW i \in 0..len
          PROVE  (IF i = 0 THEN v ELSE G[i][f[i - 1]])
                 = (IF i = 0 THEN <<>> ELSE JoinedWith(f[i - 1], s[i]))
        <3>1. i # 0 => i \in 1..len /\ f[i - 1] \in Texts
            BY <1>1, <1>5
        <3> QED
            BY <1>4, <3>1 DEF v
    <2> QED
        BY <2>1 DEF JoinedBy, len, Recurs
<1>6. PICK f : Recurs(f, len, v, G)
    BY <1>1, <1>2, <1>3, RecursionExists
<1>7. f \in [0..len -> Texts] /\ Iterates(f, len, v, G)
    BY <1>1, <1>2, <1>3, <1>6, RecursionIterates
<1>8. JoinedBy(h, s)
    <2>1. JoinedBy(f, s)
        BY <1>5, <1>6, <1>7
    <2> QED
        BY <2>1
<1> HIDE DEF h
<1>9. h[0] = v /\ \A n \in 1..len : h[n] = JoinedWith(h[n - 1], s[n])
    <2>1. 0 \in 0..len /\ \A n \in 1..len : n \in 0..len /\ n # 0
        BY <1>1
    <2> QED
        BY <1>8, <2>1 DEF JoinedBy, len, v
<1>10. f[0] = v /\ \A n \in 1..len : f[n] = G[n][f[n - 1]]
    BY <1>7 DEF Iterates
<1>11. ASSUME NEW n \in 0..len PROVE h[n] = f[n]
    <2>1. \A i \in 1..n : h[i - 1] = f[i - 1] => h[i] = f[i]
        <3> SUFFICES ASSUME NEW i \in 1..n, h[i - 1] = f[i - 1]
                     PROVE  h[i] = f[i]
            OBVIOUS
        <3>1. i \in 1..len /\ f[i - 1] \in Texts
            BY <1>1, <1>7
        <3> QED
            BY <1>4, <1>9, <1>10, <3>1
    <2> QED
        BY <1>1, <1>9, <1>10, <2>1, RecursionsAgree
<1>12. h \in [0..len -> Texts]
    <2>1. h = [n \in 0..len |-> h[n]]
        BY <1>8 DEF JoinedBy, len
    <2> QED
        BY <1>7, <1>11, <2>1
<1> QED
    BY <1>9, <1>12 DEF h, len, v

LEMMA JoinedOfEmpty == Joined(<<>>) = <<>> /\ <<>> \in Seq(Texts)
<1> DEFINE h == CHOOSE f : JoinedBy(f, <<>>)
<1>1. <<>> \in Seq(Texts) /\ Len(<<>>) = 0
    BY EmptySeq
<1>2. h[0] = <<>>
    BY <1>1, JoinedRun
<1>3. Joined(<<>>) = h[0]
    BY <1>1 DEF Joined, JoinedBy
<1> QED
    BY <1>1, <1>2, <1>3

LEMMA JoinedOfAppend ==
    ASSUME NEW s \in Seq(Texts), NEW t \in Texts
    PROVE  /\ Append(s, t) \in Seq(Texts) /\ Joined(s) \in Texts
           /\ Joined(Append(s, t)) = JoinedWith(Joined(s), t)
<1> DEFINE w == Append(s, t)
           len == Len(s)
           h == CHOOSE f : JoinedBy(f, s)
           g == CHOOSE f : JoinedBy(f, w)
<1>1. /\ len \in Nat /\ w \in Seq(Texts) /\ Len(w) = len + 1 /\ w[len + 1] = t
      /\ \A i \in 1..len : w[i] = s[i]
    BY AppendProperties, LenProperties
<1>2. Joined(s) = h[len] /\ Joined(w) = g[len + 1]
    BY <1>1 DEF Joined, JoinedBy
<1> HIDE DEF w
<1>3. /\ h \in [0..len -> Texts] /\ h[0] = <<>>
      /\ \A n \in 1..len : h[n] = JoinedWith(h[n - 1], s[n])
    BY JoinedRun
<1>4. g[0] = <<>> /\ \A n \in 1..(len + 1) : g[n] = JoinedWith(g[n - 1], w[n])
    BY <1>1, JoinedRun
<1> HIDE DEF h, g, len
<1>5. h[len] = g[len]
    <2>1. \A i \in 1..len : h[i - 1] = g[i - 1] => h[i] = g[i]
        <3>1. \A i \in 1..len : i \in 1..(len + 1)
            BY <1>1
        <3> QED
            BY <1>1, <1>3, <1>4, <3>1
    <2>2. len \in Nat /\ h[0] = g[0]
        BY <1>1, <1>3, <1>4
    <2> QED
        BY <2>1, <2>2, RecursionsAgree, Zenon
<1>6. len + 1 \in 1..(len + 1) /\ (len + 1) - 1 = len /\ len \in 0..len
    BY <1>1
<1> QED
    BY <1>1, <1>2, <1>3, <1>4, <1>5, <1>6 DEF w

\* What a client can have read.
DispatchType == [event : Nat, original : BOOLEAN, damaged : BOOLEAN]

Readings == [data : Seq(Texts), events : Seq(DispatchType)]

Unread == [data |-> <<>>, events |-> <<>>]

LEMMA ReadWithType ==
    ASSUME NEW read \in Readings, NEW line \in Texts
    PROVE  ReadWith(read, line) \in Readings
<1>1. read.data \in Seq(Texts) /\ read.events \in Seq(DispatchType)
    BY DEF Readings
<1>2. Append(read.data, line) \in Seq(Texts)
    BY <1>1, AppendProperties
<1>3. Dispatched(read.data) \in DispatchType
    <2>1. Garbage \in DispatchType
        BY DEF Garbage, DispatchType
    <2>2. CASE Len(read.data) = 1 /\ IsDataLine(read.data[1])
        <3> DEFINE l == read.data[1]
        <3>1. l \in Texts
            BY <1>1, <2>2, ElementOfSeq
        <3>2. l[1] \in TokenType /\ l[2] \in TokenType
            <4>1. Len(l) = 2
                BY <2>2 DEF IsDataLine
            <4> HIDE DEF l
            <4> QED
                BY <3>1, <4>1 DEF Texts
        <3> HIDE DEF l
        <3>3. /\ l[2].event \in Nat /\ l[2].original \in BOOLEAN
              /\ l[1].damaged \in BOOLEAN /\ l[2].damaged \in BOOLEAN
            BY <3>2 DEF TokenType
        <3> QED
            BY <2>2, <3>3 DEF Dispatched, DispatchType, l
    <2> QED
        BY <2>1, <2>2 DEF Dispatched
<1>4. Append(read.events, Dispatched(read.data)) \in Seq(DispatchType)
    BY <1>1, <1>3, AppendProperties
<1>5. <<>> \in Seq(Texts)
    BY EmptySeq
<1> QED
    BY <1>1, <1>2, <1>4, <1>5 DEF ReadWith, Readings

\* The function of Read.
ReadBy(f, s) ==
    f = [n \in 0..Len(s) |->
            IF n = 0 THEN [data |-> <<>>, events |-> <<>>] ELSE ReadWith(f[n - 1], s[n])]

LEMMA ReadRun ==
    ASSUME NEW s \in Seq(Texts)
    PROVE  LET h == CHOOSE f : ReadBy(f, s)
           IN  /\ h \in [0..Len(s) -> Readings] /\ h[0] = Unread
               /\ \A n \in 1..Len(s) : h[n] = ReadWith(h[n - 1], s[n])
<1> DEFINE len == Len(s)
           v == Unread
           G == [n \in 1..len |-> [x \in Readings |-> ReadWith(x, s[n])]]
           h == CHOOSE f : ReadBy(f, s)
<1>1. len \in Nat /\ \A n \in 1..len : s[n] \in Texts
    BY LenProperties, ElementOfSeq
<1>2. v \in Readings
    BY EmptySeq DEF Readings, Unread
<1>3. G \in [1..len -> [Readings -> Readings]]
    BY <1>1, ReadWithType
<1>4. \A n \in 1..len : \A x \in Readings : G[n][x] = ReadWith(x, s[n])
    OBVIOUS
<1> HIDE DEF G, v, len
<1>5. ASSUME NEW f, f \in [0..len -> Readings]
      PROVE  Recurs(f, len, v, G) <=> ReadBy(f, s)
    <2>1. ASSUME NEW i \in 0..len
          PROVE  (IF i = 0 THEN v ELSE G[i][f[i - 1]])
                 = (IF i = 0 THEN [data |-> <<>>, events |-> <<>>] ELSE ReadWith(f[i - 1], s[i]))
        <3>1. i # 0 => i \in 1..len /\ f[i - 1] \in Readings
            BY <1>1, <1>5
        <3> QED
            BY <1>4, <3>1 DEF v, Unread
    <2> QED
        BY <2>1 DEF ReadBy, len, Recurs
<1>6. PICK f : Recurs(f, len, v, G)
    BY <1>1, <1>2, <1>3, RecursionExists
<1>7. f \in [0..len -> Readings] /\ Iterates(f, len, v, G)
    BY <1>1, <1>2, <1>3, <1>6, RecursionIterates
<1>8. ReadBy(h, s)
    <2>1. ReadBy(f, s)
        BY <1>5, <1>6, <1>7
    <2> QED
        BY <2>1
<1> HIDE DEF h
<1>9. h[0] = v /\ \A n \in 1..len : h[n] = ReadWith(h[n - 1], s[n])
    <2>1. 0 \in 0..len /\ \A n \in 1..len : n \in 0..len /\ n # 0
        BY <1>1
    <2> QED
        BY <1>8, <2>1 DEF ReadBy, len, v, Unread
<1>10. f[0] = v /\ \A n \in 1..len : f[n] = G[n][f[n - 1]]
    BY <1>7 DEF Iterates
<1>11. ASSUME NEW n \in 0..len PROVE h[n] = f[n]
    <2>1. \A i \in 1..n : h[i - 1] = f[i - 1] => h[i] = f[i]
        <3> SUFFICES ASSUME NEW i \in 1..n, h[i - 1] = f[i - 1]
                     PROVE  h[i] = f[i]
            OBVIOUS
        <3>1. i \in 1..len /\ f[i - 1] \in Readings
            BY <1>1, <1>7
        <3> QED
            BY <1>4, <1>9, <1>10, <3>1
    <2> QED
        BY <1>1, <1>9, <1>10, <2>1, RecursionsAgree
<1>12. h \in [0..len -> Readings]
    <2>1. h = [n \in 0..len |-> h[n]]
        BY <1>8 DEF ReadBy, len
    <2> QED
        BY <1>7, <1>11, <2>1
<1> QED
    BY <1>9, <1>12 DEF h, len, v

LEMMA ReadOfEmpty == Read(<<>>) = Unread /\ <<>> \in Seq(Texts)
<1> DEFINE h == CHOOSE f : ReadBy(f, <<>>)
<1>1. <<>> \in Seq(Texts) /\ Len(<<>>) = 0
    BY EmptySeq
<1>2. h[0] = Unread
    BY <1>1, ReadRun
<1>3. Read(<<>>) = h[0]
    BY <1>1 DEF Read, ReadBy
<1> QED
    BY <1>1, <1>2, <1>3

LEMMA ReadOfAppend ==
    ASSUME NEW s \in Seq(Texts), NEW t \in Texts
    PROVE  /\ Append(s, t) \in Seq(Texts) /\ Read(s) \in Readings
           /\ Read(Append(s, t)) = ReadWith(Read(s), t)
<1> DEFINE w == Append(s, t)
           len == Len(s)
           h == CHOOSE f : ReadBy(f, s)
           g == CHOOSE f : ReadBy(f, w)
<1>1. /\ len \in Nat /\ w \in Seq(Texts) /\ Len(w) = len + 1 /\ w[len + 1] = t
      /\ \A i \in 1..len : w[i] = s[i]
    BY AppendProperties, LenProperties
<1>2. Read(s) = h[len] /\ Read(w) = g[len + 1]
    BY <1>1 DEF Read, ReadBy
<1> HIDE DEF w
<1>3. /\ h \in [0..len -> Readings] /\ h[0] = Unread
      /\ \A n \in 1..len : h[n] = ReadWith(h[n - 1], s[n])
    BY ReadRun
<1>4. g[0] = Unread /\ \A n \in 1..(len + 1) : g[n] = ReadWith(g[n - 1], w[n])
    BY <1>1, ReadRun
<1> HIDE DEF h, g, len
<1>5. h[len] = g[len]
    <2>1. \A i \in 1..len : h[i - 1] = g[i - 1] => h[i] = g[i]
        <3>1. \A i \in 1..len : i \in 1..(len + 1)
            BY <1>1
        <3> QED
            BY <1>1, <1>3, <1>4, <3>1
    <2>2. len \in Nat /\ h[0] = g[0]
        BY <1>1, <1>3, <1>4
    <2> QED
        BY <2>1, <2>2, RecursionsAgree, Zenon
<1>6. len + 1 \in 1..(len + 1) /\ (len + 1) - 1 = len /\ len \in 0..len
    BY <1>1
<1> QED
    BY <1>1, <1>2, <1>3, <1>4, <1>5, <1>6 DEF w

-----------------------------------------------------------------------------
(* Every line of a text is a part of it. *)

LEMMA PageFacts ==
    ASSUME NEW ls \in Pages
    PROVE  /\ ls \in Seq(Texts) /\ ls # <<>> /\ Len(ls) \in Nat /\ Len(ls) >= 1
           /\ DOMAIN ls = 1..Len(ls)
           /\ Front(ls) \in Seq(Texts) /\ Last(ls) \in Texts /\ Last(ls) = ls[Len(ls)]
           /\ Len(Front(ls)) = Len(ls) - 1
           /\ \A i \in 1..(Len(ls) - 1) : Front(ls)[i] = ls[i]
           /\ Append(Front(ls), Last(ls)) = ls
           /\ \A i \in 1..Len(ls) : ls[i] \in Texts
<1>1. ls \in Seq(Texts) /\ ls # <<>>
    BY DEF Pages
<1>2. Len(ls) \in Nat \ {0} /\ DOMAIN ls = 1..Len(ls)
    BY <1>1, EmptySeq, LenProperties
<1>3. \A i \in 1..Len(ls) : ls[i] \in Texts
    BY <1>1, ElementOfSeq
<1>4. /\ Front(ls) \in Seq(Texts) /\ Last(ls) \in Texts /\ Last(ls) = ls[Len(ls)]
      /\ Len(Front(ls)) = Len(ls) - 1
      /\ \A i \in 1..(Len(ls) - 1) : Front(ls)[i] = ls[i]
      /\ Append(Front(ls), Last(ls)) = ls
    BY <1>1, FrontAndLast
<1> QED
    BY <1>1, <1>2, <1>3, <1>4

LEMMA LinesWithNewline ==
    ASSUME NEW ls \in Pages, NEW t \in TokenType, t.part = "newline"
    PROVE  LET r == LinesWith(ls, t) IN
           /\ r \in Pages /\ Len(r) = Len(ls) + 1
           /\ \A i \in 1..Len(ls) : r[i] = ls[i]
           /\ r[Len(ls) + 1] = <<>> /\ Front(r) = ls /\ Last(r) = <<>>
<1>1. LinesWith(ls, t) = Append(ls, <<>>)
    BY DEF LinesWith
<1>2. ls \in Seq(Texts) /\ <<>> \in Texts
    BY LinesOfEmpty DEF Pages
<1>3. LinesWith(ls, t) \in Pages
    BY LinesWithType
<1> QED
    BY <1>1, <1>2, <1>3, AppendProperties, FrontOfAppend

LEMMA LinesWithOther ==
    ASSUME NEW ls \in Pages, NEW t \in TokenType, t.part # "newline"
    PROVE  LET r == LinesWith(ls, t) IN
           /\ r \in Pages /\ Len(r) = Len(ls)
           /\ \A i \in 1..(Len(ls) - 1) : r[i] = ls[i]
           /\ r[Len(ls)] = Append(ls[Len(ls)], t)
           /\ Front(r) = Front(ls) /\ Last(r) = Append(Last(ls), t)
<1> DEFINE f == Front(ls)
           l == Append(Last(ls), t)
<1>1. LinesWith(ls, t) = Append(f, l)
    BY DEF LinesWith
<1>2. /\ f \in Seq(Texts) /\ Len(f) = Len(ls) - 1 /\ Len(ls) \in Nat
      /\ \A i \in 1..(Len(ls) - 1) : f[i] = ls[i]
      /\ Last(ls) \in Texts /\ Last(ls) = ls[Len(ls)]
    BY PageFacts
<1>3. l \in Texts /\ l = Append(ls[Len(ls)], t)
    BY <1>2 DEF Texts
<1>4. LinesWith(ls, t) \in Pages
    BY LinesWithType
<1> HIDE DEF f, l
<1> DEFINE r == Append(f, l)
<1>5. /\ Len(r) = Len(f) + 1 /\ \A i \in 1..Len(f) : r[i] = f[i]
      /\ r[Len(f) + 1] = l
    BY <1>2, <1>3, AppendProperties
<1>6. Front(r) = f /\ Last(r) = l
    BY <1>2, <1>3, FrontOfAppend
<1> HIDE DEF r
<1>7. /\ Len(r) = Len(ls) /\ \A i \in 1..(Len(ls) - 1) : r[i] = ls[i]
      /\ r[Len(ls)] = l
    BY <1>2, <1>5
<1> QED
    BY <1>1, <1>3, <1>4, <1>6, <1>7 DEF f, l, r

-----------------------------------------------------------------------------
(* Lines are parts of the text. *)

LiesAt(l, s, k) ==
    /\ k + Len(l) <= Len(s)
    /\ \A j \in 1..Len(l) : l[j] = s[k + j] /\ l[j].part # "newline"

Parts(s) ==
    LET ls == Lines(s) IN
    /\ \A i \in 1..Len(ls) : \E k \in Nat : LiesAt(ls[i], s, k)
    /\ Len(Last(ls)) <= Len(s) /\ LiesAt(Last(ls), s, Len(s) - Len(Last(ls)))
    /\ LiesAt(ls[1], s, 0)
    /\ s # <<>> /\ s[1].part # "newline" => ls[1] # <<>>
    /\ Len(ls) = 1 => Len(ls[1]) = Len(s)

\* A text goes on where it was.
LEMMA StillLies ==
    ASSUME NEW s \in Texts, NEW t \in TokenType, NEW l \in Texts, NEW k \in Nat,
           LiesAt(l, s, k)
    PROVE  LiesAt(l, Append(s, t), k)
<1>1. /\ Len(Append(s, t)) = Len(s) + 1 /\ Len(s) \in Nat /\ Len(l) \in Nat
      /\ \A i \in 1..Len(s) : Append(s, t)[i] = s[i]
    BY DEF Texts
<1>2. \A j \in 1..Len(l) : k + j \in 1..Len(s)
    BY <1>1 DEF LiesAt
<1> QED
    BY <1>1, <1>2 DEF LiesAt

LEMMA LongerLies ==
    ASSUME NEW s \in Texts, NEW t \in TokenType, NEW l \in Texts, NEW k \in Nat,
           LiesAt(l, s, k), k + Len(l) = Len(s), t.part # "newline"
    PROVE  LiesAt(Append(l, t), Append(s, t), k)
<1> DEFINE w == Append(s, t)
           m == Append(l, t)
<1>1. /\ Len(w) = Len(s) + 1 /\ Len(s) \in Nat
      /\ \A i \in 1..Len(s) : w[i] = s[i]
      /\ w[Len(s) + 1] = t
    BY DEF Texts
<1>2. /\ Len(m) = Len(l) + 1 /\ Len(l) \in Nat
      /\ \A i \in 1..Len(l) : m[i] = l[i]
      /\ m[Len(l) + 1] = t
    BY DEF Texts
<1> HIDE DEF w, m
<1>3. ASSUME NEW j \in 1..Len(m) PROVE m[j] = w[k + j] /\ m[j].part # "newline"
    <2>1. CASE j = Len(l) + 1
        BY <1>1, <1>2, <2>1
    <2>2. CASE j # Len(l) + 1
        <3>1. j \in 1..Len(l) /\ k + j \in 1..Len(s)
            BY <1>1, <1>2, <2>2
        <3> QED
            BY <1>1, <1>2, <3>1 DEF LiesAt
    <2> QED
        BY <2>1, <2>2
<1>4. k + Len(m) <= Len(w)
    BY <1>1, <1>2
<1> QED
    BY <1>3, <1>4 DEF LiesAt, w, m

LEMMA LinesAreParts ==
    ASSUME NEW text \in Texts
    PROVE  Parts(text)
<1> DEFINE S == {s \in Texts : Parts(s)}
<1>1. <<>> \in S
    <2> DEFINE e == <<>>
    <2>1. e \in Texts /\ Lines(e) = <<e>> /\ Len(e) = 0
        BY LinesOfEmpty
    <2>2. LiesAt(e, e, 0)
        BY DEF LiesAt
    <2>3. Len(<<e>>) = 1 /\ <<e>>[1] = e /\ Last(<<e>>) = e /\ 0 - 0 = 0 /\ 0 \in Nat
        BY DEF Last
    <2> HIDE DEF e
    <2>4. Parts(e)
        BY <2>1, <2>2, <2>3 DEF Parts
    <2> QED
        BY <2>1, <2>4 DEF e
<1>2. ASSUME NEW s \in Texts, NEW t \in TokenType, s \in S PROVE Append(s, t) \in S
    <2> DEFINE w == Append(s, t)
               ls == Lines(s)
               r == Lines(w)
               n == Len(ls)
               k == Len(s) - Len(Last(ls))
    <2>1. /\ w \in Texts /\ ls \in Pages /\ r = LinesWith(ls, t)
        BY LinesOfAppend
    <2>2. /\ Len(s) \in Nat /\ Len(w) = Len(s) + 1
          /\ s # <<>> => w[1] = s[1]
          /\ s = <<>> => w[1] = t
        BY DEF Texts
    <2>3. /\ n \in Nat /\ n >= 1 /\ Last(ls) = ls[n] /\ \A i \in 1..n : ls[i] \in Texts
        BY <2>1, PageFacts
    <2>4. /\ \A i \in 1..n : \E j \in Nat : LiesAt(ls[i], s, j)
          /\ Len(Last(ls)) <= Len(s) /\ LiesAt(Last(ls), s, k)
          /\ LiesAt(ls[1], s, 0)
          /\ s # <<>> /\ s[1].part # "newline" => ls[1] # <<>>
          /\ n = 1 => Len(ls[1]) = Len(s)
        BY <1>2 DEF Parts
    <2> n = Len(ls)
        OBVIOUS
    <2>11. n # 1 => s # <<>>
        BY LinesOfEmpty
    <2>5. Len(Last(ls)) \in Nat /\ k \in Nat /\ k + Len(Last(ls)) = Len(s)
        BY <2>2, <2>3, <2>4 DEF Texts
    <2> HIDE DEF w, ls, r, n, k
    <2>6. /\ \A i \in 1..n : \E j \in Nat : LiesAt(ls[i], w, j)
          /\ LiesAt(ls[1], w, 0)
        BY <2>3, <2>4, StillLies DEF w
    <2>7. ASSUME t.part = "newline" PROVE Parts(w)
        <3>1. /\ Len(r) = n + 1 /\ \A i \in 1..n : r[i] = ls[i]
              /\ r[n + 1] = <<>> /\ Last(r) = <<>>
            BY <2>1, <2>7, LinesWithNewline DEF n
        <3>2. Len(<<>>) = 0 /\ LiesAt(<<>>, w, 0) /\ LiesAt(<<>>, w, Len(w) - 0)
            BY <2>2 DEF LiesAt
        <3>3. \A i \in 1..(n + 1) : \E j \in Nat : LiesAt(r[i], w, j)
            BY <2>3, <2>6, <3>1, <3>2
        <3>4. r[1] = ls[1]
            BY <2>3, <3>1
        <3>5. w # <<>> /\ w[1].part # "newline" => r[1] # <<>>
            BY <2>2, <2>4, <2>7, <3>4
        <3> QED
            BY <2>1, <2>2, <2>3, <2>6, <3>1, <3>2, <3>3, <3>4, <3>5 DEF Parts, r
    <2>8. ASSUME t.part # "newline" PROVE Parts(w)
        <3> DEFINE l == Append(Last(ls), t)
        <3>1. /\ Len(r) = n /\ \A i \in 1..(n - 1) : r[i] = ls[i]
              /\ r[n] = l /\ Last(r) = l
            BY <2>1, <2>3, <2>8, LinesWithOther DEF n
        <3>2. Len(l) = Len(Last(ls)) + 1 /\ l # <<>>
            <4>1. Last(ls) \in Texts
                BY <2>3
            <4> QED
                BY <4>1, AppendProperties DEF Texts
        <3>7. n = 1 => Len(l) = Len(w)
            BY <2>2, <2>3, <2>4, <3>2
        <3>3. LiesAt(l, w, k)
            BY <2>3, <2>4, <2>5, <2>8, LongerLies DEF w
        <3> HIDE DEF l
        <3>4. Len(l) <= Len(w) /\ k = Len(w) - Len(l)
            BY <2>2, <2>4, <2>5, <3>2
        <3>5. \A i \in 1..n : \E j \in Nat : LiesAt(r[i], w, j)
            BY <2>3, <2>5, <2>6, <3>1, <3>3
        <3>6. LiesAt(r[1], w, 0) /\ (w # <<>> /\ w[1].part # "newline" => r[1] # <<>>)
            <4>1. CASE n = 1
                <5>1. k = 0
                    BY <2>2, <2>3, <2>4, <2>5, <4>1
                <5> QED
                    BY <3>1, <3>2, <3>3, <4>1, <5>1
            <4>2. CASE n # 1
                <5>1. r[1] = ls[1]
                    BY <2>3, <3>1, <4>2
                <5>2. s # <<>>
                    BY <2>11, <4>2
                <5> QED
                    BY <2>2, <2>4, <2>6, <5>1, <5>2
            <4> QED
                BY <4>1, <4>2
        <3> QED
            BY <2>1, <2>3, <3>1, <3>3, <3>4, <3>5, <3>6, <3>7 DEF Parts, r
    <2> QED
        BY <2>1, <2>7, <2>8 DEF w
<1> HIDE DEF S
<1>3. Seq(TokenType) \subseteq S
    BY <1>1, <1>2, SeqSetInduction DEF Texts
<1> QED
    BY <1>3 DEF S, Texts

-----------------------------------------------------------------------------
(* The lines of two texts put together. *)

\* c is a, but for its last line, that line and the first of b in one, and b.
Glued(a, b, c) ==
    /\ Len(c) = Len(a) + Len(b) - 1
    /\ \A i \in 1..(Len(a) - 1) : c[i] = a[i]
    /\ c[Len(a)] = a[Len(a)] \o b[1]
    /\ \A i \in 2..Len(b) : c[Len(a) + i - 1] = b[i]

LEMMA GluedNewline ==
    ASSUME NEW a \in Pages, NEW b \in Pages, NEW c \in Pages, Glued(a, b, c),
           NEW t \in TokenType, t.part = "newline"
    PROVE  Glued(a, LinesWith(b, t), LinesWith(c, t))
<1> DEFINE d == LinesWith(b, t)
           e == LinesWith(c, t)
           n == Len(a)
           m == Len(b)
           p == Len(c)
<1>1. n \in Nat /\ n >= 1 /\ m \in Nat /\ m >= 1 /\ p \in Nat /\ p >= 1
    BY PageFacts
<1>2. Len(d) = m + 1 /\ (\A i \in 1..m : d[i] = b[i]) /\ d[m + 1] = <<>>
    BY LinesWithNewline
<1>3. Len(e) = p + 1 /\ (\A i \in 1..p : e[i] = c[i]) /\ e[p + 1] = <<>>
    BY LinesWithNewline
<1>4. /\ p = n + m - 1 /\ \A i \in 1..(n - 1) : c[i] = a[i]
      /\ c[n] = a[n] \o b[1] /\ \A i \in 2..m : c[n + i - 1] = b[i]
    BY DEF Glued
<1> HIDE DEF d, e, n, m, p
<1>5. d[1] = b[1] /\ e[n] = c[n]
    <2>1. 1 \in 1..m /\ n \in 1..p
        BY <1>1, <1>4
    <2> QED
        BY <1>2, <1>3, <2>1
<1>6. \A i \in 1..(n - 1) : e[i] = a[i]
    BY <1>1, <1>3, <1>4
<1>7. ASSUME NEW i \in 2..(m + 1) PROVE e[n + i - 1] = d[i]
    <2>1. CASE i = m + 1
        BY <1>1, <1>2, <1>3, <1>4, <2>1
    <2>2. CASE i # m + 1
        <3>1. i \in 2..m /\ n + i - 1 \in 1..p
            BY <1>1, <1>4, <2>2
        <3> QED
            BY <1>2, <1>3, <1>4, <3>1
    <2> QED
        BY <2>1, <2>2
<1>8. Len(e) = n + Len(d) - 1
    BY <1>1, <1>2, <1>3, <1>4
<1> QED
    BY <1>2, <1>4, <1>5, <1>6, <1>7, <1>8 DEF Glued, d, e, n

LEMMA GluedOther ==
    ASSUME NEW a \in Pages, NEW b \in Pages, NEW c \in Pages, Glued(a, b, c),
           NEW t \in TokenType, t.part # "newline"
    PROVE  Glued(a, LinesWith(b, t), LinesWith(c, t))
<1> DEFINE d == LinesWith(b, t)
           e == LinesWith(c, t)
           n == Len(a)
           m == Len(b)
           p == Len(c)
<1>1. n \in Nat /\ n >= 1 /\ m \in Nat /\ m >= 1 /\ p \in Nat /\ p >= 1
    BY PageFacts
<1>2. Len(d) = m /\ (\A i \in 1..(m - 1) : d[i] = b[i]) /\ d[m] = Append(b[m], t)
    BY LinesWithOther
<1>3. Len(e) = p /\ (\A i \in 1..(p - 1) : e[i] = c[i]) /\ e[p] = Append(c[p], t)
    BY LinesWithOther
<1>4. /\ p = n + m - 1 /\ \A i \in 1..(n - 1) : c[i] = a[i]
      /\ c[n] = a[n] \o b[1] /\ \A i \in 2..m : c[n + i - 1] = b[i]
    BY DEF Glued
<1>5. a[n] \in Texts /\ b[1] \in Texts
    BY <1>1, PageFacts
<1> HIDE DEF d, e, n, m, p
<1>6. e[n] = a[n] \o d[1]
    <2>1. CASE m = 1
        <3>1. a[n] \o Append(b[1], t) = Append(a[n] \o b[1], t)
            <4> DEFINE u == a[n]
                       v == b[1]
            <4>1. u \in Seq(TokenType) /\ v \in Seq(TokenType)
                BY <1>5 DEF Texts
            <4> HIDE DEF u, v
            <4>2. u \o Append(v, t) = Append(u \o v, t)
                BY <4>1, ConcatAppend
            <4> QED
                BY <4>2 DEF u, v
        <3>2. p = n
            BY <1>1, <1>4, <2>1
        <3>3. d[1] = Append(b[1], t) /\ e[n] = Append(c[n], t)
            BY <1>2, <1>3, <2>1, <3>2
        <3> QED
            BY <1>4, <3>1, <3>3
    <2>2. CASE m # 1
        <3>1. 1 \in 1..(m - 1) /\ n \in 1..(p - 1)
            BY <1>1, <1>4, <2>2
        <3> QED
            BY <1>2, <1>3, <1>4, <3>1
    <2> QED
        BY <2>1, <2>2
<1>7. \A i \in 1..(n - 1) : e[i] = a[i]
    BY <1>1, <1>3, <1>4
<1>8. ASSUME NEW i \in 2..m PROVE e[n + i - 1] = d[i]
    <2>1. CASE i = m
        <3>1. n + i - 1 = p /\ c[p] = b[m]
            BY <1>1, <1>4, <2>1
        <3> QED
            BY <1>2, <1>3, <2>1, <3>1
    <2>2. CASE i # m
        <3>1. i \in 2..m /\ i \in 1..(m - 1) /\ n + i - 1 \in 1..(p - 1)
            BY <1>1, <1>4, <2>2
        <3> QED
            BY <1>2, <1>3, <1>4, <3>1
    <2> QED
        BY <2>1, <2>2
<1> QED
    BY <1>2, <1>3, <1>4, <1>6, <1>7, <1>8 DEF Glued, d, e, n

LEMMA LinesAreGlued ==
    ASSUME NEW x \in Texts, NEW y \in Texts
    PROVE  x \o y \in Texts /\ Glued(Lines(x), Lines(y), Lines(x \o y))
<1> DEFINE S == {s \in Texts : Glued(Lines(x), Lines(s), Lines(x \o s))}
           a == Lines(x)
           n == Len(a)
<1>0. \A s \in Texts : x \o s \in Texts
    BY ConcatProperties DEF Texts
<1>1. <<>> \in S
    <2> DEFINE e == <<>>
               b == <<e>>
    <2>1. e \in Texts /\ Lines(e) = b /\ x \o e = x
        <3>1. x \o <<>> = x
            BY DEF Texts
        <3> QED
            BY <3>1, LinesOfEmpty
    <2>2. a \in Pages /\ n \in Nat /\ n >= 1 /\ a[n] \in Texts
        <3>1. a \in Pages
            BY LinesType
        <3>2. n \in Nat /\ n >= 1 /\ \A i \in 1..n : a[i] \in Texts
            BY <3>1, PageFacts
        <3> HIDE DEF a, n
        <3> QED
            BY <3>1, <3>2
    <2>3. a[n] \o e = a[n]
        BY <2>2, ConcatEmptySeq DEF Texts
    <2>4. Len(b) = 1 /\ b[1] = e
        OBVIOUS
    <2> HIDE DEF b, a, e
    <2>5. Glued(a, b, a)
        BY <2>2, <2>3, <2>4 DEF Glued, n
    <2>6. Glued(a, Lines(e), Lines(x \o e))
        BY <2>1, <2>5 DEF a
    <2> QED
        BY <2>1, <2>6 DEF e, a
<1>2. ASSUME NEW s \in Texts, NEW t \in TokenType, s \in S PROVE Append(s, t) \in S
    <2>1. x \o Append(s, t) = Append(x \o s, t)
        BY ConcatAppend DEF Texts
    <2>2. Append(s, t) \in Texts /\ Lines(Append(s, t)) = LinesWith(Lines(s), t)
        BY LinesOfAppend
    <2>3. Lines(Append(x \o s, t)) = LinesWith(Lines(x \o s), t)
        BY <1>0, LinesOfAppend
    <2>4. Lines(x) \in Pages /\ Lines(s) \in Pages /\ Lines(x \o s) \in Pages
        BY <1>0, LinesType
    <2>5. Glued(Lines(x), Lines(s), Lines(x \o s))
        BY <1>2
    <2>6. Glued(Lines(x), LinesWith(Lines(s), t), LinesWith(Lines(x \o s), t))
        <3>1. CASE t.part = "newline"
            BY <2>4, <2>5, <3>1, GluedNewline
        <3>2. CASE t.part # "newline"
            BY <2>4, <2>5, <3>2, GluedOther
        <3> QED
            BY <3>1, <3>2
    <2> QED
        BY <2>1, <2>2, <2>3, <2>6
<1> HIDE DEF S
<1>3. Seq(TokenType) \subseteq S
    BY <1>1, <1>2, SeqSetInduction DEF Texts
<1> QED
    BY <1>0, <1>3 DEF S, Texts

\* A line without a newline goes on with the last line of a text.
LEMMA OneLine ==
    ASSUME NEW l \in Texts, NoNewline(l)
    PROVE  Lines(l) = <<l>>
<1> DEFINE S == {s \in Texts : NoNewline(s) => Lines(s) = <<s>>}
<1>1. <<>> \in S
    BY LinesOfEmpty
<1>2. ASSUME NEW s \in Texts, NEW t \in TokenType, s \in S PROVE Append(s, t) \in S
    <2> DEFINE w == Append(s, t)
    <2>1. /\ w \in Texts /\ Lines(s) \in Pages /\ Lines(w) = LinesWith(Lines(s), t)
        BY LinesOfAppend
    <2>2. /\ Len(s) \in Nat /\ DOMAIN s = 1..Len(s) /\ DOMAIN w = 1..(Len(s) + 1)
          /\ w[Len(s) + 1] = t /\ \A i \in 1..Len(s) : w[i] = s[i]
        BY DEF Texts
    <2> HIDE DEF w
    <2> SUFFICES ASSUME NoNewline(w) PROVE Lines(w) = <<w>>
        BY <2>1 DEF w
    <2>3. NoNewline(s) /\ t.part # "newline"
        BY <2>2 DEF NoNewline
    <2> DEFINE ls == Lines(s)
    <2>4. ls = <<s>>
        BY <1>2, <2>3
    <2>5. Len(ls) = 1 /\ ls[1] = s
        BY <2>4
    <2> HIDE DEF ls
    <2>6. Len(Lines(w)) = 1 /\ Lines(w)[1] = w
        BY <2>1, <2>3, <2>5, LinesWithOther DEF w, ls
    <2>7. Lines(w) \in Seq(Texts) /\ <<w>> \in Seq(Texts) /\ Len(<<w>>) = 1 /\ <<w>>[1] = w
        <3>1. Lines(w) \in Pages
            BY <2>1, LinesType
        <3> QED
            BY <2>1, <3>1 DEF Pages
    <2> QED
        BY <2>6, <2>7, SeqEqual
<1> HIDE DEF S
<1>3. Seq(TokenType) \subseteq S
    BY <1>1, <1>2, SeqSetInduction DEF Texts
<1> QED
    BY <1>3 DEF S, Texts

-----------------------------------------------------------------------------
(* Lines put together and taken apart again. *)

TextLines == {l \in Texts : NoNewline(l)}

LEMMA NLType == NL \in TokenType /\ <<NL>> \in Texts /\ NL.part = "newline" /\ ~NL.original
BY DEF NL, Token, TokenType, Texts

LEMMA LineAdded ==
    ASSUME NEW s \in Texts, NEW l \in TextLines
    PROVE  /\ (s \o <<NL>>) \o l \in Texts
           /\ Lines((s \o <<NL>>) \o l) = Append(Lines(s), l)
<1> DEFINE w == Append(s, NL)
           a == Lines(w)
           b == Lines(l)
           c == Lines(w \o l)
           ls == Lines(s)
           n == Len(ls)
<1>1. w \in Texts /\ ls \in Pages /\ a = LinesWith(ls, NL) /\ w = s \o <<NL>>
    BY NLType, LinesOfAppend, AppendIsConcat DEF Texts
<1>2. l \in Texts /\ b = <<l>>
    BY OneLine DEF TextLines
<1>3. w \o l \in Texts /\ Glued(a, b, c)
    BY <1>1, <1>2, LinesAreGlued
<1>4. n \in Nat /\ n >= 1 /\ ls \in Seq(Texts)
    BY <1>1, PageFacts
<1>5. /\ Len(a) = n + 1 /\ \A i \in 1..n : a[i] = ls[i]
      /\ a[n + 1] = <<>>
    BY <1>1, NLType, LinesWithNewline
<1>6. Len(b) = 1 /\ b[1] = l /\ <<>> \o l = l
    BY <1>2, ConcatEmptySeq DEF Texts
<1>7. c \in Seq(Texts)
    BY <1>3, LinesType DEF Pages
<1>8. w \o l = (s \o <<NL>>) \o l
    BY <1>1
<1> HIDE DEF w, a, b, c, ls, n
<1>9. Len(c) = n + 1 /\ (\A i \in 1..n : c[i] = ls[i]) /\ c[n + 1] = l
    <2>1. Len(c) = n + 1
        BY <1>3, <1>4, <1>5, <1>6 DEF Glued
    <2>2. \A i \in 1..n : c[i] = ls[i]
        BY <1>3, <1>4, <1>5 DEF Glued
    <2>3. c[n + 1] = l
        BY <1>3, <1>5, <1>6 DEF Glued
    <2> QED
        BY <2>1, <2>2, <2>3
<1> DEFINE d == Append(ls, l)
<1>10. d \in Seq(Texts) /\ Len(d) = n + 1 /\ (\A i \in 1..n : d[i] = ls[i]) /\ d[n + 1] = l
    BY <1>2, <1>4, AppendProperties DEF n
<1> HIDE DEF d
<1>11. \A i \in 1..(n + 1) : c[i] = d[i]
    <2>1. \A i \in 1..(n + 1) : i \in 1..n \/ i = n + 1
        BY <1>4
    <2> QED
        BY <1>9, <1>10, <2>1
<1>12. c = d
    BY <1>7, <1>9, <1>10, <1>11, SeqEqual
<1> QED
    BY <1>3, <1>8, <1>12 DEF c, d, ls

\* What becomes of lines that are put together and taken apart again.
Again(ls) ==
    LET p == Lines(Joined(ls)) IN
    /\ \A i \in 1..Len(p) : p[i] = <<>> \/ \E j \in 1..Len(ls) : p[i] = ls[j]
    /\ ls # <<>> => Last(p) = ls[Len(ls)]
    /\ ls # <<>> /\ ls[1] # <<>> => p = ls

LEMMA LinesAgain ==
    ASSUME NEW lines \in Seq(TextLines)
    PROVE  Joined(lines) \in Texts /\ Again(lines)
<1> DEFINE S == {ls \in Seq(TextLines) : Again(ls)}
<1>0. \A ls \in Seq(TextLines) : ls \in Seq(Texts)
    BY SeqMonotonic DEF TextLines
<1>1. <<>> \in S
    <2> DEFINE p == << <<>> >>
               e == <<>>
    <2>1. Lines(Joined(e)) = p
        BY JoinedOfEmpty, LinesOfEmpty
    <2>2. Len(p) = 1 /\ p[1] = <<>>
        OBVIOUS
    <2>3. e \in Seq(TextLines)
        BY EmptySeq
    <2>4. e = <<>>
        OBVIOUS
    <2> HIDE DEF e, p
    <2>5. Again(e)
        BY <2>1, <2>2, <2>4 DEF Again
    <2> QED
        BY <2>3, <2>4, <2>5
<1>2. ASSUME NEW ls \in Seq(TextLines), NEW l \in TextLines, ls \in S
      PROVE  Append(ls, l) \in S
    <2> DEFINE ms == Append(ls, l)
               n == Len(ls)
               J == Joined(ls)
               K == Joined(ms)
               p == Lines(J)
    <2>1. ls \in Seq(Texts) /\ l \in Texts /\ l \in TextLines
        BY <1>0 DEF TextLines
    <2>2. J \in Texts /\ K = JoinedWith(J, l)
        BY <2>1, JoinedOfAppend
    <2>3. /\ ms \in Seq(TextLines) /\ n \in Nat /\ Len(ms) = n + 1 /\ ms[n + 1] = l /\ ms # <<>>
          /\ \A i \in 1..n : ms[i] = ls[i]
          /\ ls = <<>> <=> n = 0
        BY AppendProperties, LenProperties, EmptySeq
    <2>4. /\ \A i \in 1..Len(p) : p[i] = <<>> \/ \E j \in 1..n : p[i] = ls[j]
          /\ ls # <<>> => Last(p) = ls[n]
          /\ ls # <<>> /\ ls[1] # <<>> => p = ls
        BY <1>2 DEF Again
    <2>5. ms = Append(ls, l)
        OBVIOUS
    <2>6. p \in Seq(Texts) /\ Len(p) \in Nat
        BY <2>2, LinesType, PageFacts
    <2>11. J = <<>> => p = << <<>> >>
        BY LinesOfEmpty
    <2>12. ls = <<>> => J = <<>>
        BY JoinedOfEmpty
    <2> HIDE DEF ms, J, K, p, n
    <2>7. ASSUME J = <<>> PROVE Again(ms)
        <3>1. Lines(K) = <<l>>
            BY <2>1, <2>2, <2>7, OneLine DEF JoinedWith, TextLines
        <3>2. Len(<<l>>) = 1 /\ <<l>>[1] = l /\ Last(<<l>>) = l
            BY DEF Last
        <3>3. n + 1 \in 1..(n + 1)
            BY <2>3
        <3>4. ASSUME ms[1] # <<>> PROVE <<l>> = ms
            <4>1. ls = <<>>
                <5>1. SUFFICES ASSUME ls # <<>> PROVE FALSE
                    OBVIOUS
                <5>2. 1 \in 1..n
                    BY <2>3, <5>1
                <5>3. ls[1] # <<>>
                    BY <2>3, <3>4, <5>2
                <5>4. ls = << <<>> >>
                    BY <2>4, <2>7, <2>11, <5>1, <5>3
                <5> QED
                    BY <5>3, <5>4
            <4>2. Append(<<>>, l) = <<l>>
                OBVIOUS
            <4> QED
                BY <2>5, <4>1, <4>2
        <3> DEFINE q == <<l>>
        <3> HIDE DEF q
        <3>5. Lines(K) = q /\ Len(q) = 1 /\ q[1] = l /\ Last(q) = l
            BY <3>1, <3>2 DEF q
        <3>6. ms[1] # <<>> => q = ms
            BY <3>4 DEF q
        <3> QED
            BY <2>3, <3>3, <3>5, <3>6 DEF Again, K
    <2>8. ASSUME J # <<>> PROVE Again(ms)
        <3>1. K = (J \o <<NL>>) \o l
            BY <2>2, <2>8 DEF JoinedWith
        <3> DEFINE q == Append(p, l)
        <3>2. Lines(K) = q
            BY <2>1, <2>2, <3>1, LineAdded DEF p
        <3>3. /\ Len(q) = Len(p) + 1 /\ q[Len(p) + 1] = l
              /\ \A i \in 1..Len(p) : q[i] = p[i]
            BY <2>1, <2>6, AppendProperties
        <3>4. Last(q) = l
            BY <3>3 DEF Last
        <3>5. ASSUME ms[1] # <<>> PROVE q = ms
            <4>1. ls # <<>> /\ n # 0
                BY <2>3, <2>8, <2>12
            <4>2. 1 \in 1..n
                BY <2>3, <4>1
            <4> QED
                BY <2>3, <2>4, <2>5, <3>5, <4>1, <4>2
        <3> HIDE DEF q
        <3>6. ASSUME NEW i \in 1..Len(q)
              PROVE  q[i] = <<>> \/ \E j \in 1..(n + 1) : q[i] = ms[j]
            <4>1. CASE i = Len(p) + 1
                <5>1. n + 1 \in 1..(n + 1)
                    BY <2>3
                <5> QED
                    BY <2>3, <3>3, <4>1, <5>1
            <4>2. CASE i \in 1..Len(p)
                <5>1. \A j \in 1..n : j \in 1..(n + 1)
                    BY <2>3
                <5> QED
                    BY <2>3, <2>4, <3>3, <4>2, <5>1
            <4> QED
                BY <2>6, <3>3, <4>1, <4>2
        <3> QED
            BY <2>3, <3>2, <3>4, <3>5, <3>6 DEF Again, K
    <2>9. Again(ms)
        BY <2>7, <2>8
    <2> QED
        BY <2>3, <2>9 DEF ms
<1> HIDE DEF S
<1>3. Seq(TextLines) \subseteq S
    BY <1>1, <1>2, SeqSetInduction
<1>4. \E l : l \in Texts
    BY LinesOfEmpty
<1>5. Joined(lines) \in Texts
    BY <1>0, <1>4, JoinedOfAppend
<1> QED
    BY <1>3, <1>5 DEF S

\* One token more in the last line is one more in the text.
LEMMA JoinedWithMore ==
    ASSUME NEW s \in Texts, NEW l \in Texts, NEW t \in TokenType
    PROVE  JoinedWith(s, Append(l, t)) = Append(JoinedWith(s, l), t)
<1>1. s \o <<NL>> \in Texts
    BY NLType, ConcatProperties DEF Texts
<1>2. (s \o <<NL>>) \o Append(l, t) = Append((s \o <<NL>>) \o l, t)
    BY <1>1, ConcatAppend DEF Texts
<1> QED
    BY <1>2 DEF JoinedWith

\* The newlines of a text are like those that Joined puts in.
WireNewlines(s) == \A i \in DOMAIN s : s[i].part = "newline" => s[i] = NL

StartsInLine(s) == s # <<>> => s[1].part # "newline"

LEMMA JoinedLines ==
    ASSUME NEW text \in Texts, WireNewlines(text), StartsInLine(text)
    PROVE  Joined(Lines(text)) = text
<1> DEFINE Holds(s) == WireNewlines(s) /\ StartsInLine(s) => Joined(Lines(s)) = s
           S == {s \in Texts : Holds(s)}
<1>1. <<>> \in S
    <2> DEFINE e == <<>>
    <2>1. e \in Texts /\ Append(<<>>, e) = <<e>>
        BY LinesOfEmpty
    <2>2. Joined(Append(<<>>, e)) = JoinedWith(<<>>, e)
        BY <2>1, JoinedOfEmpty, JoinedOfAppend
    <2>3. Joined(Lines(e)) = e
        BY <2>1, <2>2, LinesOfEmpty DEF JoinedWith
    <2> QED
        BY <2>1, <2>3
<1>2. ASSUME NEW s \in Texts, NEW t \in TokenType, s \in S PROVE Append(s, t) \in S
    <2> DEFINE w == Append(s, t)
               ls == Lines(s)
    <2>1. /\ w \in Texts /\ ls \in Pages /\ Lines(w) = LinesWith(ls, t)
        BY LinesOfAppend
    <2>2. /\ Len(s) \in Nat /\ DOMAIN s = 1..Len(s) /\ DOMAIN w = 1..(Len(s) + 1)
          /\ w[Len(s) + 1] = t /\ \A i \in 1..Len(s) : w[i] = s[i]
          /\ s = <<>> => w[1] = t
          /\ s # <<>> => Len(s) >= 1
          /\ w # <<>>
        BY DEF Texts
    <2>3. w = s \o <<t>>
        BY AppendIsConcat DEF Texts
    <2> HIDE DEF w, ls
    <2> SUFFICES ASSUME WireNewlines(w), StartsInLine(w) PROVE Joined(Lines(w)) = w
        BY <2>1 DEF w
    <2>4. WireNewlines(s) /\ StartsInLine(s)
        <3>1. s # <<>> => w[1] = s[1]
            BY <2>2
        <3>2. \A i \in 1..Len(s) : i \in 1..(Len(s) + 1)
            BY <2>2
        <3> QED
            BY <2>2, <3>1, <3>2 DEF WireNewlines, StartsInLine
    <2>5. Joined(ls) = s
        BY <1>2, <2>4 DEF ls
    <2>6. CASE t.part = "newline"
        <3>1. s # <<>> /\ t = NL
            <4>1. Len(s) + 1 \in 1..(Len(s) + 1)
                BY <2>2
            <4> QED
                BY <2>2, <2>6, <4>1 DEF WireNewlines, StartsInLine
        <3>2. ls \in Seq(Texts) /\ <<>> \in Texts
            BY <2>1, LinesOfEmpty, PageFacts
        <3>3. Lines(w) = Append(ls, <<>>)
            BY <2>1, <2>6 DEF LinesWith
        <3>4. Joined(Lines(w)) = JoinedWith(s, <<>>)
            BY <2>5, <3>2, <3>3, JoinedOfAppend
        <3>5. s \o <<NL>> \o <<>> = s \o <<NL>>
            <4>1. s \o <<NL>> \in Seq(TokenType)
                BY NLType, ConcatProperties DEF Texts
            <4> QED
                BY <4>1, ConcatEmptySeq
        <3> QED
            BY <2>3, <3>1, <3>4, <3>5 DEF JoinedWith
    <2>7. CASE t.part # "newline"
        <3> DEFINE f == Front(ls)
                   l == Last(ls)
                   j == Joined(f)
        <3>1. f \in Seq(Texts) /\ l \in Texts /\ Append(f, l) = ls
            BY <2>1, PageFacts
        <3>2. Append(l, t) \in Texts
            BY <3>1, AppendProperties DEF Texts
        <3>3. Lines(w) = Append(f, Append(l, t))
            BY <2>1, <2>7 DEF LinesWith
        <3> HIDE DEF f, l, j
        <3>4. j \in Texts /\ Joined(ls) = JoinedWith(j, l)
            BY <3>1, JoinedOfAppend DEF j
        <3>5. Joined(Lines(w)) = JoinedWith(j, Append(l, t))
            BY <3>1, <3>2, <3>3, JoinedOfAppend DEF j
        <3>6. JoinedWith(j, Append(l, t)) = Append(JoinedWith(j, l), t)
            BY <3>1, <3>4, JoinedWithMore
        <3> QED
            BY <2>5, <3>4, <3>5, <3>6 DEF w
    <2> QED
        BY <2>6, <2>7
<1> HIDE DEF S
<1>3. Seq(TokenType) \subseteq S
    BY <1>1, <1>2, SeqSetInduction DEF Texts
<1> QED
    BY <1>3 DEF S, Texts

-----------------------------------------------------------------------------
(* The marks change nothing else. *)

LEMMA PlainTokenFacts ==
    ASSUME NEW t \in TokenType
    PROVE  /\ PlainToken(t) \in TokenType /\ PlainToken(t).part = t.part
           /\ PlainToken(t).event = t.event /\ PlainToken(t).damaged = t.damaged
           /\ PlainToken(t).original = FALSE
           /\ ~t.original => PlainToken(t) = t
BY DEF PlainToken, TokenType

LEMMA PlainFacts ==
    ASSUME NEW s \in Texts
    PROVE  /\ Plain(s) \in Texts /\ Len(Plain(s)) = Len(s) /\ Len(s) \in Nat
           /\ DOMAIN s = 1..Len(s)
           /\ \A i \in 1..Len(s) : s[i] \in TokenType /\ Plain(s)[i] = PlainToken(s[i])
<1> DEFINE n == Len(s)
           p == [i \in 1..n |-> PlainToken(s[i])]
<1>1. n \in Nat /\ DOMAIN s = 1..n /\ \A i \in 1..n : s[i] \in TokenType
    BY DEF Texts
<1>2. \A i \in 1..n : PlainToken(s[i]) \in TokenType
    BY <1>1, PlainTokenFacts
<1>3. Plain(s) = p
    BY <1>1 DEF Plain
<1> HIDE DEF n
<1>4. p \in Seq(TokenType) /\ Len(p) = n /\ \A i \in 1..n : p[i] = PlainToken(s[i])
    BY <1>1, <1>2
<1> QED
    BY <1>1, <1>3, <1>4 DEF n, Texts

\* Two texts of the same tokens, but for the marks.
LEMMA PlainSame ==
    ASSUME NEW s \in Texts, \A i \in 1..Len(s) : ~s[i].original
    PROVE  Plain(s) = s
<1>1. ASSUME NEW i \in 1..Len(s) PROVE Plain(s)[i] = s[i]
    <2> DEFINE t == s[i]
    <2>1. t \in TokenType /\ ~t.original /\ Plain(s)[i] = PlainToken(t)
        BY PlainFacts
    <2> HIDE DEF t
    <2>2. PlainToken(t) = t
        BY <2>1, PlainTokenFacts
    <2> QED
        BY <2>1, <2>2 DEF t
<1> QED
    BY <1>1, PlainFacts, SeqEqual DEF Texts

LEMMA PlainOfEmpty == Plain(<<>>) = <<>>
<1>1. <<>> \in Texts /\ Len(<<>>) = 0
    BY LinesOfEmpty
<1> QED
    BY <1>1, PlainSame

LEMMA PlainOfConcat ==
    ASSUME NEW s \in Texts, NEW t \in Texts
    PROVE  Plain(s \o t) = Plain(s) \o Plain(t)
<1> DEFINE w == s \o t
           p == Plain(s)
           q == Plain(t)
           u == p \o q
           n == Len(s)
           m == Len(t)
<1>1. /\ n \in Nat /\ m \in Nat /\ Len(p) = n /\ Len(q) = m /\ p \in Texts /\ q \in Texts
      /\ \A i \in 1..n : p[i] = PlainToken(s[i])
      /\ \A i \in 1..m : q[i] = PlainToken(t[i])
    BY PlainFacts
<1>2. /\ w \in Texts /\ Len(w) = n + m
      /\ \A i \in 1..(n + m) : w[i] = IF i <= n THEN s[i] ELSE t[i - n]
    BY ConcatProperties DEF Texts
<1>3. /\ u \in Texts /\ Len(u) = Len(p) + Len(q)
      /\ \A i \in 1..(Len(p) + Len(q)) : u[i] = IF i <= Len(p) THEN p[i] ELSE q[i - Len(p)]
    <2>1. p \in Seq(TokenType) /\ q \in Seq(TokenType)
        BY <1>1 DEF Texts
    <2> HIDE DEF p, q
    <2> QED
        BY <2>1, ConcatProperties DEF Texts
<1> HIDE DEF w, u, p, q, n, m
<1>4. /\ Plain(w) \in Texts /\ Len(Plain(w)) = n + m
      /\ \A i \in 1..(n + m) : Plain(w)[i] = PlainToken(w[i])
    BY <1>2, PlainFacts
<1>5. ASSUME NEW i \in 1..(n + m) PROVE Plain(w)[i] = u[i]
    <2>1. CASE i <= n
        <3>1. i \in 1..n
            BY <1>1, <2>1
        <3> QED
            BY <1>1, <1>2, <1>3, <1>4, <2>1, <3>1
    <2>2. CASE ~(i <= n)
        <3>1. i - n \in 1..m
            BY <1>1, <2>2
        <3> QED
            BY <1>1, <1>2, <1>3, <1>4, <2>2, <3>1
    <2> QED
        BY <2>1, <2>2
<1>6. Plain(w) = u
    BY <1>1, <1>3, <1>4, <1>5, SeqEqual DEF Texts
<1> QED
    BY <1>6 DEF w, u, p, q

LEMMA PlainOfAppend ==
    ASSUME NEW s \in Texts, NEW t \in TokenType
    PROVE  Plain(Append(s, t)) = Append(Plain(s), PlainToken(t))
<1>1. <<t>> \in Texts /\ Len(<<t>>) = 1 /\ <<t>>[1] = t
    BY DEF Texts
<1> DEFINE u == <<t>>
           v == <<PlainToken(t)>>
<1>2. Plain(u) = v
    <2>1. u \in Texts /\ Len(u) = 1 /\ u[1] = t
        BY <1>1
    <2>2. v \in Texts /\ Len(v) = 1 /\ v[1] = PlainToken(t)
        <3>1. PlainToken(t) \in TokenType
            BY PlainTokenFacts
        <3> QED
            BY <3>1 DEF Texts
    <2> HIDE DEF u, v
    <2>3. Plain(u) \in Texts /\ Len(Plain(u)) = 1 /\ Plain(u)[1] = PlainToken(t)
        BY <2>1, PlainFacts
    <2> QED
        BY <2>2, <2>3, SeqEqual DEF Texts
<1>3. Append(s, t) = s \o <<t>>
    BY AppendIsConcat DEF Texts
<1>4. Plain(s) \in Texts /\ PlainToken(t) \in TokenType
    BY PlainFacts, PlainTokenFacts
<1>5. Append(Plain(s), PlainToken(t)) = Plain(s) \o <<PlainToken(t)>>
    BY <1>4, AppendIsConcat DEF Texts
<1>6. Plain(s \o <<t>>) = Plain(s) \o Plain(<<t>>)
    BY <1>1, PlainOfConcat
<1> QED
    BY <1>2, <1>3, <1>5, <1>6

-----------------------------------------------------------------------------
(* Plain lines. *)

PlainLines(ls) == [i \in DOMAIN ls |-> Plain(ls[i])]

LEMMA PlainLinesFacts ==
    ASSUME NEW ls \in Seq(Texts)
    PROVE  /\ PlainLines(ls) \in Seq(Texts) /\ Len(PlainLines(ls)) = Len(ls) /\ Len(ls) \in Nat
           /\ \A i \in 1..Len(ls) : ls[i] \in Texts /\ PlainLines(ls)[i] = Plain(ls[i])
           /\ PlainLines(ls) = <<>> <=> ls = <<>>
<1> DEFINE n == Len(ls)
           p == [i \in 1..n |-> Plain(ls[i])]
<1>1. n \in Nat /\ DOMAIN ls = 1..n
    BY LenProperties
<1>5. \A i \in 1..n : ls[i] \in Texts
    BY ElementOfSeq
<1>2. \A i \in 1..n : Plain(ls[i]) \in Texts
    BY <1>5, PlainFacts
<1>3. PlainLines(ls) = p
    BY <1>1 DEF PlainLines
<1> DEFINE T == Texts
<1> HIDE DEF n, T
<1>4. p \in Seq(T) /\ Len(p) = n /\ \A i \in 1..n : p[i] = Plain(ls[i])
    <2>1. \A i \in 1..n : Plain(ls[i]) \in T
        BY <1>2 DEF T
    <2> QED
        BY <1>1, <2>1
<1>6. ls = <<>> <=> n = 0
    BY EmptySeq DEF n
<1> HIDE DEF p
<1>7. p = <<>> <=> n = 0
    BY <1>4
<1> QED
    BY <1>1, <1>3, <1>4, <1>5, <1>6, <1>7 DEF n, T

LEMMA PlainLinesOfAppend ==
    ASSUME NEW ls \in Seq(Texts), NEW l \in Texts
    PROVE  PlainLines(Append(ls, l)) = Append(PlainLines(ls), Plain(l))
<1> DEFINE w == Append(ls, l)
           p == PlainLines(w)
           u == Append(PlainLines(ls), Plain(l))
           n == Len(ls)
<1>1. /\ n \in Nat /\ w \in Seq(Texts) /\ Len(w) = n + 1 /\ w[n + 1] = l
      /\ \A i \in 1..n : w[i] = ls[i]
    BY AppendProperties, LenProperties
<1>2. /\ p \in Seq(Texts) /\ Len(p) = n + 1
      /\ \A i \in 1..(n + 1) : p[i] = Plain(w[i])
    BY <1>1, PlainLinesFacts
<1>3. Plain(l) \in Texts
    BY PlainFacts
<1>4. /\ PlainLines(ls) \in Seq(Texts) /\ Len(PlainLines(ls)) = n
      /\ \A i \in 1..n : PlainLines(ls)[i] = Plain(ls[i])
    BY PlainLinesFacts
<1>5. /\ u \in Seq(Texts) /\ Len(u) = n + 1 /\ u[n + 1] = Plain(l)
      /\ \A i \in 1..n : u[i] = PlainLines(ls)[i]
    BY <1>3, <1>4, AppendProperties
<1> HIDE DEF w, p, u, n
<1>6. \A i \in 1..(n + 1) : p[i] = u[i]
    <2>1. \A i \in 1..(n + 1) : i = n + 1 \/ i \in 1..n
        BY <1>1
    <2> QED
        BY ZenonT(60), <1>1, <1>2, <1>4, <1>5, <2>1
<1>7. p = u
    BY <1>2, <1>5, <1>6, SeqEqual
<1> QED
    BY <1>7 DEF p, u, w

\* Marks make no difference to how a text is taken apart and put together.
LEMMA PlainJoined ==
    ASSUME NEW lines \in Seq(Texts)
    PROVE  Plain(Joined(lines)) = Joined(PlainLines(lines))
<1> DEFINE S == {ls \in Seq(Texts) : Plain(Joined(ls)) = Joined(PlainLines(ls))}
<1>1. <<>> \in S
    <2>1. <<>> \in Seq(Texts) /\ Joined(<<>>) = <<>>
        BY JoinedOfEmpty
    <2>2. PlainLines(<<>>) = <<>>
        BY <2>1, PlainLinesFacts
    <2> QED
        BY <2>1, <2>2, PlainOfEmpty
<1>2. ASSUME NEW ls \in Seq(Texts), NEW l \in Texts, ls \in S PROVE Append(ls, l) \in S
    <2> DEFINE J == Joined(ls)
               q == PlainLines(ls)
    <2>1. J \in Texts /\ Joined(Append(ls, l)) = JoinedWith(J, l) /\ Append(ls, l) \in Seq(Texts)
        BY JoinedOfAppend
    <2>2. q \in Seq(Texts) /\ Plain(l) \in Texts
        BY PlainLinesFacts, PlainFacts
    <2>3. PlainLines(Append(ls, l)) = Append(q, Plain(l))
        BY PlainLinesOfAppend
    <2>4. Joined(Append(q, Plain(l))) = JoinedWith(Plain(J), Plain(l))
        <3>1. Joined(Append(q, Plain(l))) = JoinedWith(Joined(q), Plain(l))
            BY <2>2, JoinedOfAppend
        <3>2. Joined(q) = Plain(J)
            BY <1>2
        <3> QED
            BY <3>1, <3>2
    <2> HIDE DEF J, q
    <2>5. Plain(JoinedWith(J, l)) = JoinedWith(Plain(J), Plain(l))
        <3>1. J = <<>> <=> Plain(J) = <<>>
            BY <2>1, PlainFacts DEF Texts
        <3>2. ASSUME J # <<>>
              PROVE  Plain(J \o <<NL>> \o l) = Plain(J) \o <<NL>> \o Plain(l)
            <4>1. <<NL>> \in Texts /\ Plain(<<NL>>) = <<NL>>
                <5> DEFINE u == <<NL>>
                <5>1. u \in Texts /\ Len(u) = 1 /\ u[1] = NL
                    BY NLType
                <5> HIDE DEF u
                <5>2. Plain(u) = u
                    BY <5>1, NLType, PlainSame
                <5> QED
                    BY <5>1, <5>2 DEF u
            <4>2. J \o <<NL>> \in Texts
                BY <2>1, <4>1, ConcatProperties DEF Texts
            <4>3. Plain(J \o <<NL>>) = Plain(J) \o <<NL>>
                BY ZenonT(60), <2>1, <4>1, PlainOfConcat
            <4> QED
                BY <4>2, <4>3, PlainOfConcat
        <3> QED
            BY <3>1, <3>2 DEF JoinedWith
    <2> QED
        BY <2>1, <2>3, <2>4, <2>5
<1> HIDE DEF S
<1>3. Seq(Texts) \subseteq S
    BY <1>1, <1>2, SeqSetInduction
<1> QED
    BY <1>3 DEF S

LEMMA PlainLinesParts ==
    ASSUME NEW ls \in Pages
    PROVE  /\ PlainLines(ls) \in Pages
           /\ Front(PlainLines(ls)) = PlainLines(Front(ls))
           /\ Last(PlainLines(ls)) = Plain(Last(ls))
<1> DEFINE f == Front(ls)
           l == Last(ls)
<1>1. ls \in Seq(Texts) /\ ls # <<>> /\ f \in Seq(Texts) /\ l \in Texts /\ Append(f, l) = ls
    BY PageFacts
<1> HIDE DEF f, l
<1>2. PlainLines(ls) = Append(PlainLines(f), Plain(l))
    BY <1>1, PlainLinesOfAppend
<1>3. PlainLines(f) \in Seq(Texts) /\ Plain(l) \in Texts
    BY <1>1, PlainLinesFacts, PlainFacts
<1>4. PlainLines(ls) \in Pages
    BY <1>1, PlainLinesFacts DEF Pages
<1> QED
    BY <1>2, <1>3, <1>4, FrontOfAppend DEF f, l

LEMMA LinesOfPlain ==
    ASSUME NEW text \in Texts
    PROVE  Lines(Plain(text)) = PlainLines(Lines(text))
<1> DEFINE S == {s \in Texts : Lines(Plain(s)) = PlainLines(Lines(s))}
<1>1. <<>> \in S
    <2> DEFINE e == <<>>
    <2>1. e \in Texts /\ Lines(e) = <<e>> /\ Append(<<>>, e) = <<e>> /\ <<>> \in Seq(Texts)
        BY LinesOfEmpty, JoinedOfEmpty
    <2>2. PlainLines(<<>>) = <<>>
        BY <2>1, PlainLinesFacts
    <2>3. PlainLines(Append(<<>>, e)) = Append(<<>>, Plain(e))
        BY <2>1, <2>2, PlainLinesOfAppend
    <2>4. Plain(e) = e
        BY PlainOfEmpty
    <2> QED
        BY <2>1, <2>3, <2>4
<1>2. ASSUME NEW s \in Texts, NEW t \in TokenType, s \in S PROVE Append(s, t) \in S
    <2> DEFINE ls == Lines(s)
               p == PlainLines(ls)
               u == PlainToken(t)
    <2>1. Append(s, t) \in Texts /\ ls \in Pages /\ Lines(Append(s, t)) = LinesWith(ls, t)
        BY LinesOfAppend
    <2>2. u \in TokenType /\ u.part = t.part /\ Plain(s) \in Texts
        BY PlainTokenFacts, PlainFacts
    <2>3. Plain(Append(s, t)) = Append(Plain(s), u)
        BY PlainOfAppend
    <2>4. Lines(Append(Plain(s), u)) = LinesWith(p, u)
        <3>1. Lines(Append(Plain(s), u)) = LinesWith(Lines(Plain(s)), u)
            BY <2>2, LinesOfAppend
        <3>2. Lines(Plain(s)) = p
            BY <1>2
        <3> QED
            BY <3>1, <3>2
    <2>5. PlainLines(LinesWith(ls, t)) = LinesWith(p, u)
        <3>1. CASE t.part = "newline"
            <4>1. PlainLines(Append(ls, <<>>)) = Append(p, Plain(<<>>))
                BY <2>1, LinesOfEmpty, PageFacts, PlainLinesOfAppend
            <4> QED
                BY <2>2, <3>1, <4>1, PlainOfEmpty DEF LinesWith
        <3>2. CASE t.part # "newline"
            <4> DEFINE f == Front(ls)
                       l == Last(ls)
            <4>1. f \in Seq(Texts) /\ l \in Texts
                BY <2>1, PageFacts
            <4>2. Front(p) = PlainLines(f) /\ Last(p) = Plain(l)
                BY <2>1, PlainLinesParts
            <4> HIDE DEF f, l
            <4>3. Append(l, t) \in Texts /\ Plain(Append(l, t)) = Append(Plain(l), u)
                BY <4>1, AppendProperties, PlainOfAppend DEF Texts
            <4>4. PlainLines(Append(f, Append(l, t))) = Append(PlainLines(f), Plain(Append(l, t)))
                BY <4>1, <4>3, PlainLinesOfAppend
            <4>5. LinesWith(ls, t) = Append(f, Append(l, t))
                BY <3>2 DEF LinesWith, f, l
            <4>6. LinesWith(p, u) = Append(PlainLines(f), Append(Plain(l), u))
                BY <2>2, <3>2, <4>2 DEF LinesWith
            <4> QED
                BY <4>3, <4>4, <4>5, <4>6
        <3> QED
            BY <3>1, <3>2
    <2> QED
        BY <2>1, <2>3, <2>4, <2>5
<1> HIDE DEF S
<1>3. Seq(TokenType) \subseteq S
    BY <1>1, <1>2, SeqSetInduction DEF Texts
<1> QED
    BY <1>3 DEF S, Texts

-----------------------------------------------------------------------------
(* What a client reads of a text and of a text that goes on. *)

\* What a client has read of a text.
Reads(s) == Read(Front(Lines(s)))

LEMMA ReadType ==
    ASSUME NEW ls \in Seq(Texts)
    PROVE  /\ Read(ls) \in Readings
           /\ Read(ls).data \in Seq(Texts) /\ Read(ls).events \in Seq(DispatchType)
           /\ Len(Read(ls).data) \in Nat /\ Len(Read(ls).events) \in Nat
<1>1. Read(ls) \in Readings
    BY LinesOfEmpty, ReadOfAppend
<1>2. Read(ls).data \in Seq(Texts) /\ Read(ls).events \in Seq(DispatchType)
    BY <1>1 DEF Readings
<1> QED
    BY <1>1, <1>2, LenProperties

LEMMA ReadsType ==
    ASSUME NEW s \in Texts
    PROVE  /\ Reads(s) \in Readings
           /\ Reads(s).data \in Seq(Texts) /\ Reads(s).events \in Seq(DispatchType)
           /\ Len(Reads(s).data) \in Nat /\ Len(Reads(s).events) \in Nat
           /\ Seen(s) = Reads(s).events /\ Last(Lines(s)) \in Texts
<1>1. Front(Lines(s)) \in Seq(Texts) /\ Last(Lines(s)) \in Texts
    BY LinesType, PageFacts
<1>2. Seen(s) = Reads(s).events
    BY DEF Seen, Reads
<1> QED
    BY <1>1, <1>2, ReadType DEF Reads

LEMMA ReadsOfEmpty == Reads(<<>>) = Unread /\ Last(Lines(<<>>)) = <<>>
<1> DEFINE e == <<>>
           z == <<>>
<1>1. Lines(e) = <<z>> /\ z \in Texts
    BY LinesOfEmpty
<1>2. Append(e, z) = <<z>> /\ e \in Seq(Texts)
    BY JoinedOfEmpty
<1> HIDE DEF e, z
<1>3. Front(<<z>>) = e /\ Last(<<z>>) = z
    BY <1>1, <1>2, FrontOfAppend
<1>4. Reads(e) = Read(e) /\ Last(Lines(e)) = z
    BY <1>1, <1>3 DEF Reads
<1> QED
    BY <1>4, ReadOfEmpty DEF e, z

\* A newline has the last line read; other tokens only make it longer.
LEMMA ReadsOfAppend ==
    ASSUME NEW s \in Texts, NEW t \in TokenType
    PROVE  /\ t.part = "newline" =>
                  /\ Reads(Append(s, t)) = ReadWith(Reads(s), Last(Lines(s)))
                  /\ Last(Lines(Append(s, t))) = <<>>
           /\ t.part # "newline" =>
                  /\ Reads(Append(s, t)) = Reads(s)
                  /\ Last(Lines(Append(s, t))) = Append(Last(Lines(s)), t)
<1> DEFINE ls == Lines(s)
           r == Lines(Append(s, t))
<1>1. ls \in Pages /\ r = LinesWith(ls, t)
    BY LinesOfAppend
<1> HIDE DEF ls, r
<1>2. Front(ls) \in Seq(Texts) /\ Last(ls) \in Texts /\ Append(Front(ls), Last(ls)) = ls
    BY <1>1, PageFacts
<1>3. ASSUME t.part = "newline"
      PROVE  Reads(Append(s, t)) = ReadWith(Reads(s), Last(ls)) /\ Last(r) = <<>>
    <2>1. Front(r) = ls /\ Last(r) = <<>>
        BY <1>1, <1>3, LinesWithNewline
    <2>2. Read(ls) = ReadWith(Read(Front(ls)), Last(ls))
        BY <1>2, ReadOfAppend
    <2> QED
        BY <2>1, <2>2 DEF Reads, r, ls
<1>4. ASSUME t.part # "newline"
      PROVE  Reads(Append(s, t)) = Reads(s) /\ Last(r) = Append(Last(ls), t)
    <2>1. Front(r) = Front(ls) /\ Last(r) = Append(Last(ls), t)
        BY <1>1, <1>4, LinesWithOther
    <2> QED
        BY <2>1 DEF Reads, r, ls
<1> QED
    BY <1>3, <1>4 DEF ls, r

-----------------------------------------------------------------------------
(* What was read stays read. *)

Extends(a, b) == Len(a) <= Len(b) /\ \A i \in 1..Len(a) : b[i] = a[i]

LEMMA ReadWithExtends ==
    ASSUME NEW r \in Readings, NEW l \in Texts
    PROVE  Extends(r.events, ReadWith(r, l).events)
<1> DEFINE a == r.events
           d == Dispatched(r.data)
<1>1. a \in Seq(DispatchType) /\ Len(a) \in Nat
    BY LenProperties DEF Readings
<1>2. ReadWith(r, l) \in Readings
    BY ReadWithType
<1>3. ReadWith(r, l).events = a \/ ReadWith(r, l).events = Append(a, d)
    BY DEF ReadWith
<1> HIDE DEF a, d
<1>4. Len(Append(a, d)) = Len(a) + 1 /\ \A i \in 1..Len(a) : Append(a, d)[i] = a[i]
    BY <1>1
<1> QED
    BY <1>1, <1>3, <1>4 DEF Extends, a

LEMMA SeenExtends ==
    ASSUME NEW x \in Texts, NEW y \in Texts
    PROVE  Extends(Seen(x), Seen(x \o y))
<1> DEFINE S == {s \in Texts : Extends(Seen(x), Seen(x \o s))}
<1>0. \A s \in Texts : x \o s \in Texts
    BY ConcatProperties DEF Texts
<1>1. <<>> \in S
    <2>1. x \o <<>> = x
        BY ConcatEmptySeq DEF Texts
    <2>2. Len(Seen(x)) \in Nat
        BY ReadsType
    <2> QED
        BY <2>1, <2>2, LinesOfEmpty DEF Extends
<1>2. ASSUME NEW s \in Texts, NEW t \in TokenType, s \in S PROVE Append(s, t) \in S
    <2> DEFINE w == x \o s
    <2>1. w \in Texts /\ x \o Append(s, t) = Append(w, t) /\ Append(s, t) \in Texts
        BY <1>0, ConcatAppend, AppendProperties DEF Texts
    <2> HIDE DEF w
    <2>2. Reads(Append(w, t)) = Reads(w) \/ Reads(Append(w, t)) = ReadWith(Reads(w), Last(Lines(w)))
        BY <2>1, ReadsOfAppend
    <2>3. Extends(Seen(w), ReadWith(Reads(w), Last(Lines(w))).events)
        BY <2>1, ReadsType, ReadWithExtends
    <2>4. Append(w, t) \in Texts
        BY <2>1, AppendProperties DEF Texts
    <2>5. Extends(Seen(w), Seen(Append(w, t)))
        <3>1. Seen(w) = Reads(w).events /\ Seen(Append(w, t)) = Reads(Append(w, t)).events
            BY <2>1, <2>4, ReadsType
        <3>2. Len(Seen(w)) \in Nat
            BY <2>1, ReadsType
        <3>3. Extends(Seen(w), Seen(w))
            BY <3>2 DEF Extends
        <3> QED
            BY <2>2, <2>3, <3>1, <3>3
    <2>6. Extends(Seen(x), Seen(w))
        BY <1>2 DEF w
    <2>7. Len(Seen(x)) \in Nat /\ Len(Seen(w)) \in Nat /\ Len(Seen(Append(w, t))) \in Nat
        BY <2>1, <2>4, ReadsType
    <2>8. Extends(Seen(x), Seen(Append(w, t)))
        BY <2>5, <2>6, <2>7 DEF Extends
    <2> QED
        BY <2>1, <2>8
<1> HIDE DEF S
<1>3. Seq(TokenType) \subseteq S
    BY <1>1, <1>2, SeqSetInduction DEF Texts
<1> QED
    BY <1>3 DEF S, Texts

-----------------------------------------------------------------------------
(* Marks make no difference to what is read but for the marks. *)

\* The same events, but for the marks.
SameEvents(a, b) ==
    /\ Len(a) = Len(b)
    /\ \A i \in 1..Len(a) : a[i].event = b[i].event /\ a[i].damaged = b[i].damaged

LEMMA PlainDataLine ==
    ASSUME NEW l \in Texts
    PROVE  /\ IsDataLine(Plain(l)) <=> IsDataLine(l)
           /\ StartsWithData(Plain(l)) <=> StartsWithData(l)
           /\ Plain(l) = <<>> <=> l = <<>>
<1> DEFINE p == Plain(l)
           n == Len(l)
<1>1. /\ p \in Texts /\ Len(p) = n /\ n \in Nat
      /\ \A i \in 1..n : l[i] \in TokenType /\ p[i] = PlainToken(l[i])
    BY PlainFacts
<1>2. \A i \in 1..n : p[i].part = l[i].part
    BY <1>1, PlainTokenFacts
<1>3. (l = <<>> <=> n = 0) /\ (p = <<>> <=> n = 0)
    BY <1>1, EmptySeq DEF Texts
<1> HIDE DEF p
<1>4. n = 2 => p[1].part = l[1].part /\ p[2].part = l[2].part
    BY <1>2
<1>5. n # 0 => p[1].part = l[1].part
    <2>1. n # 0 => 1 \in 1..n
        BY <1>1
    <2> QED
        BY <1>2, <2>1
<1> QED
    BY <1>1, <1>3, <1>4, <1>5 DEF IsDataLine, StartsWithData, p

LEMMA PlainDispatched ==
    ASSUME NEW d \in Seq(Texts)
    PROVE  /\ Dispatched(PlainLines(d)).event = Dispatched(d).event
           /\ Dispatched(PlainLines(d)).damaged = Dispatched(d).damaged
<1> DEFINE p == PlainLines(d)
           l == d[1]
<1>1. Len(p) = Len(d) /\ \A i \in 1..Len(d) : d[i] \in Texts /\ p[i] = Plain(d[i])
    BY PlainLinesFacts
<1>2. CASE Len(d) = 1 /\ IsDataLine(l)
    <2>1. l \in Texts /\ p[1] = Plain(l)
        BY <1>1, <1>2
    <2>2. Len(l) = 2
        BY <1>2 DEF IsDataLine
    <2> HIDE DEF l, p
    <2>3. /\ Plain(l)[1] = PlainToken(l[1]) /\ Plain(l)[2] = PlainToken(l[2])
          /\ l[1] \in TokenType /\ l[2] \in TokenType
        <3>1. 1 \in 1..Len(l) /\ 2 \in 1..Len(l)
            BY <2>2
        <3>2. \A i \in 1..Len(l) : l[i] \in TokenType /\ Plain(l)[i] = PlainToken(l[i])
            BY <2>1, PlainFacts
        <3> QED
            BY <3>1, <3>2
    <2>4. /\ Plain(l)[2].event = l[2].event
          /\ Plain(l)[1].damaged = l[1].damaged /\ Plain(l)[2].damaged = l[2].damaged
        BY <2>3, PlainTokenFacts
    <2>5. IsDataLine(p[1]) /\ Len(p) = 1
        BY <1>1, <1>2, <2>1, PlainDataLine DEF p
    <2>6. /\ Dispatched(p).event = p[1][2].event
          /\ Dispatched(p).damaged = (p[1][1].damaged \/ p[1][2].damaged)
        BY <2>5 DEF Dispatched
    <2>7. /\ Dispatched(d).event = d[1][2].event
          /\ Dispatched(d).damaged = (d[1][1].damaged \/ d[1][2].damaged)
        BY <1>2 DEF Dispatched, l
    <2> QED
        BY <2>1, <2>4, <2>6, <2>7 DEF l, p
<1>3. CASE ~(Len(d) = 1 /\ IsDataLine(l))
    <2>1. ~(Len(p) = 1 /\ IsDataLine(p[1]))
        <3>1. ASSUME Len(d) = 1 PROVE IsDataLine(p[1]) <=> IsDataLine(l)
            <4>1. l \in Texts /\ p[1] = Plain(l)
                BY <1>1, <3>1
            <4> HIDE DEF l, p
            <4> QED
                BY <4>1, PlainDataLine
        <3> QED
            BY <1>1, <1>3, <3>1
    <2>2. Dispatched(p) = Garbage /\ Dispatched(d) = Garbage
        BY <1>3, <2>1 DEF Dispatched
    <2> QED
        BY <2>2
<1> QED
    BY <1>2, <1>3

PlainlyReads(q, r) == q.data = PlainLines(r.data) /\ SameEvents(q.events, r.events)

LEMMA PlainReadWith ==
    ASSUME NEW q \in Readings, NEW r \in Readings, NEW l \in Texts, PlainlyReads(q, r)
    PROVE  PlainlyReads(ReadWith(q, Plain(l)), ReadWith(r, l))
<1>1. r.data \in Seq(Texts) /\ q.events \in Seq(DispatchType) /\ r.events \in Seq(DispatchType)
    BY DEF Readings
<1>2. q.data = PlainLines(r.data) /\ SameEvents(q.events, r.events)
    BY DEF PlainlyReads
<1>3. /\ StartsWithData(Plain(l)) <=> StartsWithData(l)
      /\ Plain(l) = <<>> <=> l = <<>>
      /\ q.data = <<>> <=> r.data = <<>>
    BY <1>1, <1>2, PlainDataLine, PlainLinesFacts
<1>4. CASE StartsWithData(l)
    <2>1. Append(q.data, Plain(l)) = PlainLines(Append(r.data, l))
        BY <1>1, <1>2, PlainLinesOfAppend
    <2> QED
        BY <1>2, <1>3, <1>4, <2>1 DEF ReadWith, PlainlyReads
<1>5. CASE ~StartsWithData(l) /\ l = <<>> /\ r.data # <<>>
    <2> DEFINE a == Dispatched(q.data)
               b == Dispatched(r.data)
               x == q.events
               y == r.events
    <2>1. a.event = b.event /\ a.damaged = b.damaged
        BY <1>1, <1>2, PlainDispatched
    <2>2. /\ Len(x) \in Nat /\ Len(y) = Len(x) /\ x \in Seq(DispatchType) /\ y \in Seq(DispatchType)
          /\ \A i \in 1..Len(x) : x[i].event = y[i].event /\ x[i].damaged = y[i].damaged
        BY <1>1, <1>2, LenProperties DEF SameEvents
    <2>3. /\ ReadWith(q, Plain(l)).data = <<>> /\ ReadWith(r, l).data = <<>>
          /\ ReadWith(q, Plain(l)).events = Append(x, a)
          /\ ReadWith(r, l).events = Append(y, b)
        BY <1>3, <1>5 DEF ReadWith
    <2> HIDE DEF a, b, x, y
    <2>4. /\ Len(Append(x, a)) = Len(x) + 1 /\ Append(x, a)[Len(x) + 1] = a
          /\ \A i \in 1..Len(x) : Append(x, a)[i] = x[i]
        BY <2>2
    <2>5. /\ Len(Append(y, b)) = Len(x) + 1 /\ Append(y, b)[Len(x) + 1] = b
          /\ \A i \in 1..Len(x) : Append(y, b)[i] = y[i]
        BY <2>2
    <2>6. SameEvents(Append(x, a), Append(y, b))
        <3>1. \A i \in 1..(Len(x) + 1) : i = Len(x) + 1 \/ i \in 1..Len(x)
            BY <2>2
        <3> QED
            BY <2>1, <2>2, <2>4, <2>5, <3>1 DEF SameEvents
    <2>7. PlainLines(<<>>) = <<>>
        BY JoinedOfEmpty, PlainLinesFacts
    <2> QED
        BY <2>3, <2>6, <2>7 DEF PlainlyReads
<1>6. CASE ~StartsWithData(l) /\ ~(l = <<>> /\ r.data # <<>>)
    <2>1. ReadWith(q, Plain(l)) = q /\ ReadWith(r, l) = r
        BY <1>3, <1>6 DEF ReadWith
    <2> QED
        BY <2>1
<1> QED
    BY <1>4, <1>5, <1>6

LEMMA PlainRead ==
    ASSUME NEW lines \in Seq(Texts)
    PROVE  PlainlyReads(Read(PlainLines(lines)), Read(lines))
<1> DEFINE S == {ls \in Seq(Texts) : PlainlyReads(Read(PlainLines(ls)), Read(ls))}
<1>1. <<>> \in S
    <2>1. PlainLines(<<>>) = <<>> /\ <<>> \in Seq(Texts)
        BY JoinedOfEmpty, PlainLinesFacts
    <2>2. PlainlyReads(Unread, Unread)
        <3>1. Unread.data = <<>> /\ SameEvents(Unread.events, Unread.events)
            BY DEF Unread, SameEvents
        <3> QED
            BY <2>1, <3>1 DEF PlainlyReads
    <2> QED
        BY <2>1, <2>2, ReadOfEmpty
<1>2. ASSUME NEW ls \in Seq(Texts), NEW l \in Texts, ls \in S PROVE Append(ls, l) \in S
    <2> DEFINE p == PlainLines(ls)
    <2>1. Append(ls, l) \in Seq(Texts) /\ Read(Append(ls, l)) = ReadWith(Read(ls), l)
        BY ReadOfAppend
    <2>2. p \in Seq(Texts) /\ Plain(l) \in Texts /\ PlainLines(Append(ls, l)) = Append(p, Plain(l))
        BY PlainLinesFacts, PlainFacts, PlainLinesOfAppend
    <2>3. PlainlyReads(Read(p), Read(ls))
        BY <1>2
    <2> HIDE DEF p
    <2>4. Read(Append(p, Plain(l))) = ReadWith(Read(p), Plain(l))
        BY <2>2, ReadOfAppend
    <2>5. PlainlyReads(ReadWith(Read(p), Plain(l)), ReadWith(Read(ls), l))
        BY <2>2, <2>3, ReadType, PlainReadWith
    <2> QED
        BY <2>1, <2>2, <2>4, <2>5
<1> HIDE DEF S
<1>3. Seq(Texts) \subseteq S
    BY <1>1, <1>2, SeqSetInduction
<1> QED
    BY <1>3 DEF S

LEMMA PlainSeen ==
    ASSUME NEW s \in Texts
    PROVE  SameEvents(Seen(Plain(s)), Seen(s))
<1> DEFINE ls == Lines(s)
<1>1. ls \in Pages /\ Front(ls) \in Seq(Texts)
    BY LinesType, PageFacts
<1>2. Lines(Plain(s)) = PlainLines(ls) /\ Front(PlainLines(ls)) = PlainLines(Front(ls))
    BY <1>1, LinesOfPlain, PlainLinesParts
<1>3. PlainlyReads(Read(PlainLines(Front(ls))), Read(Front(ls)))
    BY <1>1, PlainRead
<1> QED
    BY <1>2, <1>3 DEF Seen, PlainlyReads

-----------------------------------------------------------------------------
(* Events come from data lines. *)

FromLines(r, ls) ==
    /\ \A i \in 1..Len(r.data) : \E j \in 1..Len(ls) : r.data[i] = ls[j]
    /\ \A i \in 1..Len(r.events) :
         \/ r.events[i] = Garbage
         \/ \E j \in 1..Len(ls) : IsDataLine(ls[j]) /\ r.events[i] = Dispatched(<<ls[j]>>)

LEMMA ReadFromLines ==
    ASSUME NEW lines \in Seq(Texts)
    PROVE  FromLines(Read(lines), lines)
<1> DEFINE S == {ls \in Seq(Texts) : FromLines(Read(ls), ls)}
<1>1. <<>> \in S
    <2>1. Len(Unread.data) = 0 /\ Len(Unread.events) = 0
        BY DEF Unread
    <2>2. FromLines(Unread, <<>>)
        BY <2>1 DEF FromLines
    <2> QED
        BY <2>2, ReadOfEmpty
<1>2. ASSUME NEW ls \in Seq(Texts), NEW l \in Texts, ls \in S PROVE Append(ls, l) \in S
    <2> DEFINE ms == Append(ls, l)
               r == Read(ls)
               q == Read(ms)
               n == Len(ls)
    <2>1. /\ ms \in Seq(Texts) /\ n \in Nat /\ Len(ms) = n + 1 /\ ms[n + 1] = l
          /\ \A i \in 1..n : ms[i] = ls[i]
        BY AppendProperties, LenProperties
    <2>2. q = ReadWith(r, l)
        BY ReadOfAppend
    <2>3. /\ r.data \in Seq(Texts) /\ r.events \in Seq(DispatchType)
          /\ Len(r.data) \in Nat /\ Len(r.events) \in Nat
        BY ReadType
    <2>4. FromLines(r, ls)
        BY <1>2
    <2> HIDE DEF ms, r, q, n
    <2>5. FromLines(r, ms)
        <3>1. \A i \in 1..n : i \in 1..(n + 1)
            BY <2>1
        <3> QED
            BY ZenonT(60), <2>1, <2>4, <3>1 DEF FromLines, n
    <2>6. n + 1 \in 1..Len(ms)
        BY <2>1
    <2>7. ASSUME StartsWithData(l) PROVE FromLines(q, ms)
        <3> DEFINE d == Append(r.data, l)
        <3>1. q.data = d /\ q.events = r.events
            BY <2>2, <2>7 DEF ReadWith
        <3>2. /\ Len(d) = Len(r.data) + 1 /\ d[Len(r.data) + 1] = l
              /\ \A i \in 1..Len(r.data) : d[i] = r.data[i]
            BY <2>3, AppendProperties
        <3> HIDE DEF d
        <3>3. \A i \in 1..Len(d) : i = Len(r.data) + 1 \/ i \in 1..Len(r.data)
            BY <2>3, <3>2
        <3>4. \A i \in 1..Len(d) : \E j \in 1..Len(ms) : d[i] = ms[j]
            BY <2>1, <2>5, <2>6, <3>2, <3>3 DEF FromLines
        <3> QED
            BY <2>5, <3>1, <3>4 DEF FromLines
    <2>8. ASSUME ~StartsWithData(l), l = <<>>, r.data # <<>> PROVE FromLines(q, ms)
        <3> DEFINE x == Dispatched(r.data)
                   d == Append(r.events, x)
        <3>1. q.data = <<>> /\ q.events = d /\ Len(<<>>) = 0
            BY <2>2, <2>8 DEF ReadWith
        <3>2. \/ x = Garbage
              \/ \E j \in 1..Len(ms) : IsDataLine(ms[j]) /\ x = Dispatched(<<ms[j]>>)
            <4>1. CASE Len(r.data) = 1 /\ IsDataLine(r.data[1])
                <5>1. PICK j \in 1..Len(ms) : r.data[1] = ms[j]
                    <6>1. 1 \in 1..Len(r.data)
                        BY <4>1
                    <6> QED
                        BY <2>5, <6>1 DEF FromLines
                <5>2. r.data = <<ms[j]>>
                    <6> DEFINE m == ms[j]
                    <6>1. m \in Texts
                        BY <2>1, ElementOfSeq
                    <6> HIDE DEF m
                    <6>2. <<m>> \in Seq(Texts) /\ Len(<<m>>) = 1 /\ <<m>>[1] = m
                        <7>1. <<m>> = Append(<<>>, m)
                            OBVIOUS
                        <7> QED
                            BY <6>1, <7>1, JoinedOfEmpty, AppendProperties
                    <6>3. r.data[1] = m
                        BY <5>1 DEF m
                    <6>4. \A i \in 1..1 : r.data[i] = <<m>>[i]
                        BY <6>2, <6>3
                    <6>5. r.data = <<m>>
                        BY <2>3, <4>1, <6>2, <6>4, SeqEqual
                    <6> QED
                        BY <6>5 DEF m
                <5> QED
                    BY <4>1, <5>1, <5>2
            <4>2. CASE ~(Len(r.data) = 1 /\ IsDataLine(r.data[1]))
                BY <4>2 DEF Dispatched
            <4> QED
                BY <4>1, <4>2
        <3> HIDE DEF x
        <3>3. /\ Len(d) = Len(r.events) + 1 /\ d[Len(r.events) + 1] = x
              /\ \A i \in 1..Len(r.events) : d[i] = r.events[i]
            BY <2>3
        <3> HIDE DEF d
        <3>4. \A i \in 1..Len(d) : i = Len(r.events) + 1 \/ i \in 1..Len(r.events)
            BY <2>3, <3>3
        <3>5. \A i \in 1..Len(d) :
                  \/ d[i] = Garbage
                  \/ \E j \in 1..Len(ms) : IsDataLine(ms[j]) /\ d[i] = Dispatched(<<ms[j]>>)
            BY <2>5, <3>2, <3>3, <3>4 DEF FromLines
        <3> QED
            BY <3>1, <3>5 DEF FromLines
    <2>9. ASSUME ~StartsWithData(l), ~(l = <<>> /\ r.data # <<>>) PROVE FromLines(q, ms)
        <3>1. q = r
            BY <2>2, <2>9 DEF ReadWith
        <3> QED
            BY <2>5, <3>1
    <2>10. FromLines(q, ms)
        BY <2>7, <2>8, <2>9
    <2> QED
        BY <2>1, <2>10 DEF q, ms
<1> HIDE DEF S
<1>3. Seq(Texts) \subseteq S
    BY <1>1, <1>2, SeqSetInduction
<1> QED
    BY <1>3 DEF S

\* What a client has read comes from a data line of the text.
LEMMA SeenFromLines ==
    ASSUME NEW s \in Texts, NEW i \in 1..Len(Seen(s))
    PROVE  \/ Seen(s)[i].event = 0
           \/ \E j \in 1..Len(Lines(s)) :
                 LET l == Lines(s)[j] IN
                 /\ IsDataLine(l) /\ Seen(s)[i].event = l[2].event
                 /\ Seen(s)[i].original = l[2].original
<1> DEFINE ls == Lines(s)
           f == Front(ls)
           e == Seen(s)[i]
<1>1. /\ f \in Seq(Texts) /\ Len(f) = Len(ls) - 1 /\ Len(ls) \in Nat
      /\ \A j \in 1..(Len(ls) - 1) : f[j] = ls[j]
    BY LinesType, PageFacts
<1>2. Seen(s) = Read(f).events /\ FromLines(Read(f), f)
    BY <1>1, ReadFromLines DEF Seen
<1>3. \/ e = Garbage
      \/ \E j \in 1..Len(f) : IsDataLine(f[j]) /\ e = Dispatched(<<f[j]>>)
    BY <1>2 DEF FromLines
<1> HIDE DEF e, f, ls
<1>4. CASE e = Garbage
    BY <1>4 DEF Garbage, e
<1>5. ASSUME NEW j \in 1..Len(f), IsDataLine(f[j]), e = Dispatched(<<f[j]>>)
      PROVE  LET l == ls[j] IN
             /\ j \in 1..Len(ls) /\ IsDataLine(l)
             /\ e.event = l[2].event /\ e.original = l[2].original
    <2>1. j \in 1..Len(ls) /\ f[j] = ls[j]
        BY <1>1
    <2> DEFINE l == f[j]
    <2>2. Len(<<l>>) = 1 /\ <<l>>[1] = l
        OBVIOUS
    <2>3. IsDataLine(l) /\ e = Dispatched(<<l>>)
        BY <1>5
    <2> HIDE DEF l
    <2>4. e.event = l[2].event /\ e.original = l[2].original
        BY <2>2, <2>3 DEF Dispatched
    <2> QED
        BY <2>1, <2>3, <2>4 DEF l
<1> QED
    BY <1>3, <1>4, <1>5 DEF e, ls

-----------------------------------------------------------------------------
(* What a client reads of a whole response. *)

LEMMA TokenIn ==
    ASSUME NEW part \in {"newline", "name", "head", "tail"}, NEW e \in Nat
    PROVE  /\ Token(part, e) \in TokenType /\ Token(part, e).part = part
           /\ Token(part, e).event = e /\ ~Token(part, e).original /\ ~Token(part, e).damaged
BY DEF Token, TokenType

\* The data line of an event, with the newlines after it.
Body(e) == <<Token("head", e), Token("tail", e), NL, NL>>

Named(e) == <<Token("name", e), NL>>

LEMMA BodyFacts ==
    ASSUME NEW e \in Nat
    PROVE  /\ Body(e) \in Texts /\ Len(Body(e)) = 4
           /\ Body(e)[1] = Token("head", e) /\ Body(e)[2] = Token("tail", e)
           /\ Body(e)[3] = NL /\ Body(e)[4] = NL
           /\ Named(e) \in Texts /\ Len(Named(e)) = 2
           /\ Named(e)[1] = Token("name", e) /\ Named(e)[2] = NL
<1> DEFINE h == Token("head", e)
           t == Token("tail", e)
           m == Token("name", e)
           z == NL
           T == TokenType
<1>1. h \in T /\ t \in T /\ m \in T /\ z \in T
    BY TokenIn, NLType
<1> HIDE DEF h, t, m, z, T
<1> DEFINE b == <<h, t, z, z>>
           c == <<m, z>>
<1>2. b \in Seq(T) /\ c \in Seq(T)
    BY <1>1
<1>3. Len(b) = 4 /\ b[1] = h /\ b[2] = t /\ b[3] = z /\ b[4] = z
    OBVIOUS
<1>4. Len(c) = 2 /\ c[1] = m /\ c[2] = z
    OBVIOUS
<1>5. b = Body(e) /\ c = Named(e)
    BY DEF Body, Named, h, t, m, z
<1> HIDE DEF b, c
<1> QED
    BY <1>2, <1>3, <1>4, <1>5 DEF h, t, m, z, T, Texts

LEMMA TokensSplit ==
    ASSUME NEW e \in Nat
    PROVE  TokensOf(e) = IF IsNamed(e) THEN Named(e) \o Body(e) ELSE Body(e)
<1>1. Body(e) \in Seq(TokenType)
    BY BodyFacts DEF Texts
<1>2. <<>> \o Body(e) = Body(e)
    BY <1>1, ConcatEmptySeq
<1> QED
    BY <1>2 DEF TokensOf, Named, Body

-----------------------------------------------------------------------------
(* What is read of an event. *)

\* Nothing is half read.
BetweenEvents(s) == s \in Texts /\ Reads(s).data = <<>> /\ Last(Lines(s)) = <<>>

LEMMA AppendTwo ==
    ASSUME NEW A, NEW s \in Seq(A), NEW a \in A, NEW b \in A
    PROVE  s \o <<a, b>> = Append(Append(s, a), b)
<1>1. <<a>> \in Seq(A) /\ Append(<<a>>, b) = <<a, b>> /\ Append(s, a) \in Seq(A)
    BY AppendToOne
<1>2. s \o Append(<<a>>, b) = Append(s \o <<a>>, b)
    BY <1>1, ConcatAppend
<1>3. s \o <<a>> = Append(s, a)
    BY AppendIsConcat
<1> QED
    BY <1>1, <1>2, <1>3

LEMMA AppendFour ==
    ASSUME NEW A, NEW s \in Seq(A), NEW a \in A, NEW b \in A, NEW c \in A, NEW d \in A
    PROVE  s \o <<a, b, c, d>> = Append(Append(Append(Append(s, a), b), c), d)
<1>1. <<a, b>> \in Seq(A) /\ <<a, b, c>> \in Seq(A)
    OBVIOUS
<1>2. Append(<<a, b>>, c) = <<a, b, c>>
    BY AppendToTwo
<1>3. Append(<<a, b, c>>, d) = <<a, b, c, d>>
    BY AppendToThree
<1>4. s \o Append(<<a, b>>, c) = Append(s \o <<a, b>>, c)
    BY <1>1, ConcatAppend
<1>5. s \o Append(<<a, b, c>>, d) = Append(s \o <<a, b, c>>, d)
    BY <1>1, ConcatAppend
<1> QED
    BY <1>2, <1>3, <1>4, <1>5, AppendTwo

\* The first line of a named event means nothing to the client.
LEMMA NameRead ==
    ASSUME NEW s, BetweenEvents(s), NEW e \in Nat
    PROVE  BetweenEvents(s \o Named(e)) /\ Reads(s \o Named(e)) = Reads(s)
<1> DEFINE m == Token("name", e)
           w == Append(s, m)
           z == Append(w, NL)
           l == Append(<<>>, m)
<1>1. s \in Texts /\ m \in TokenType /\ NL \in TokenType /\ NL.part = "newline" /\ m.part = "name"
    BY TokenIn, NLType DEF BetweenEvents
<1>2. s \o Named(e) = z /\ w \in Texts /\ z \in Texts
    BY <1>1, AppendTwo, AppendProperties DEF Named, Texts
<1>3. Reads(w) = Reads(s) /\ Last(Lines(w)) = l
    BY <1>1, ReadsOfAppend DEF BetweenEvents
<1>4. Len(l) = 1 /\ l[1] = m
    OBVIOUS
<1>5. Reads(z) = ReadWith(Reads(w), l) /\ Last(Lines(z)) = <<>>
    BY <1>1, <1>2, <1>3, ReadsOfAppend
<1> HIDE DEF l, w, z, m
<1>6. ~StartsWithData(l) /\ l # <<>>
    BY <1>1, <1>4 DEF StartsWithData
<1>7. Reads(z) = Reads(s)
    BY <1>3, <1>5, <1>6 DEF ReadWith
<1> QED
    BY <1>2, <1>5, <1>7 DEF BetweenEvents

LEMMA BodyRead ==
    ASSUME NEW s, BetweenEvents(s), NEW e \in Nat
    PROVE  LET d == [event |-> e, original |-> FALSE, damaged |-> FALSE] IN
           /\ BetweenEvents(s \o Body(e))
           /\ Reads(s \o Body(e)).events = Append(Reads(s).events, d)
<1> DEFINE h == Token("head", e)
           t == Token("tail", e)
           w1 == Append(s, h)
           w2 == Append(w1, t)
           w3 == Append(w2, NL)
           w4 == Append(w3, NL)
           l == <<h, t>>
           d == [event |-> e, original |-> FALSE, damaged |-> FALSE]
<1>1. /\ s \in Texts /\ h \in TokenType /\ t \in TokenType /\ NL \in TokenType
      /\ NL.part = "newline" /\ h.part = "head" /\ t.part = "tail"
      /\ h.event = e /\ t.event = e /\ h.damaged = FALSE /\ t.damaged = FALSE
      /\ t.original = FALSE
    BY NLType DEF BetweenEvents, Token, TokenType
<1>2. w1 \in Texts /\ w2 \in Texts /\ w3 \in Texts /\ w4 \in Texts
    <2>1. \A x \in Texts, a \in TokenType : Append(x, a) \in Texts
        BY AppendProperties DEF Texts
    <2> QED
        BY <1>1, <2>1
<1>3. s \o Body(e) = w4
    BY <1>1, AppendFour DEF Body, Texts
<1>4. Len(l) = 2 /\ l[1] = h /\ l[2] = t /\ Append(Append(<<>>, h), t) = l
    <2>1. Append(<<>>, h) = <<h>>
        OBVIOUS
    <2> QED
        BY <2>1, AppendToOne
<1> HIDE DEF l, h, t
<1>5. Reads(w1) = Reads(s) /\ Last(Lines(w1)) = Append(<<>>, h)
    BY <1>1, ReadsOfAppend DEF BetweenEvents
<1>6. Reads(w2) = Reads(s) /\ Last(Lines(w2)) = l
    <2> HIDE DEF w1
    <2> QED
        BY <1>1, <1>2, <1>4, <1>5, ReadsOfAppend
<1>7. Reads(w3) = ReadWith(Reads(s), l) /\ Last(Lines(w3)) = <<>>
    <2> HIDE DEF w2
    <2> QED
        BY <1>1, <1>2, <1>6, ReadsOfAppend
<1>8. Reads(w4) = ReadWith(Reads(w3), <<>>) /\ Last(Lines(w4)) = <<>>
    <2> HIDE DEF w3
    <2> QED
        BY <1>1, <1>2, <1>7, ReadsOfAppend
<1> HIDE DEF w1, w2, w3, w4
<1>9. IsDataLine(l) /\ StartsWithData(l)
    BY <1>1, <1>4 DEF IsDataLine, StartsWithData
<1> DEFINE r == Reads(w3)
<1>10. r.data = <<l>> /\ r.events = Reads(s).events
    <2>1. Append(<<>>, l) = <<l>>
        OBVIOUS
    <2> QED
        BY <1>7, <1>9, <2>1 DEF ReadWith, BetweenEvents
<1>11. Dispatched(<<l>>) = d
    <2>1. Len(<<l>>) = 1 /\ <<l>>[1] = l
        OBVIOUS
    <2> QED
        BY <1>1, <1>4, <1>9, <2>1 DEF Dispatched
<1> HIDE DEF r, d
<1>12. ~StartsWithData(<<>>) /\ <<l>> # <<>>
    BY DEF StartsWithData
<1>13. Reads(w4).data = <<>> /\ Reads(w4).events = Append(Reads(s).events, d)
    BY <1>8, <1>10, <1>11, <1>12 DEF ReadWith, r
<1> QED
    BY <1>2, <1>3, <1>8, <1>13 DEF BetweenEvents, d

\* The client has read the first n events, and nothing else.
ReadUpTo(s, n) ==
    /\ BetweenEvents(s)
    /\ LET events == Reads(s).events IN
       /\ Len(events) = n
       /\ \A i \in 1..n : events[i].event = i /\ ~events[i].damaged

LEMMA EventRead ==
    ASSUME NEW s, NEW n \in Nat, ReadUpTo(s, n)
    PROVE  ReadUpTo(s \o TokensOf(n + 1), n + 1)
<1> DEFINE e == n + 1
           d == [event |-> e, original |-> FALSE, damaged |-> FALSE]
           w == s \o TokensOf(e)
           x == Reads(s).events
<1>1. e \in Nat /\ s \in Texts /\ BetweenEvents(s)
    BY DEF ReadUpTo, BetweenEvents
<1>2. Body(e) \in Texts /\ Named(e) \in Texts
    BY <1>1, BodyFacts
<1>3. BetweenEvents(w) /\ Reads(w).events = Append(x, d)
    <2> HIDE DEF e
    <2>1. CASE IsNamed(e)
        <3> DEFINE u == s \o Named(e)
        <3>1. BetweenEvents(u) /\ Reads(u) = Reads(s)
            BY <1>1, NameRead
        <3>2. u \o Body(e) = w
            <4>1. TokensOf(e) = Named(e) \o Body(e)
                BY <1>1, <2>1, TokensSplit
            <4>2. (s \o Named(e)) \o Body(e) = s \o (Named(e) \o Body(e))
                BY <1>1, <1>2, ConcatAssociative DEF Texts
            <4> QED
                BY <4>1, <4>2
        <3> HIDE DEF u
        <3>3. BetweenEvents(u \o Body(e)) /\ Reads(u \o Body(e)).events = Append(Reads(u).events, d)
            BY <1>1, <3>1, BodyRead
        <3> QED
            BY <3>1, <3>2, <3>3
    <2>2. CASE ~IsNamed(e)
        <3>1. TokensOf(e) = Body(e)
            BY <1>1, <2>2, TokensSplit
        <3> QED
            BY <1>1, <3>1, BodyRead
    <2> QED
        BY <2>1, <2>2
<1>4. /\ x \in Seq(DispatchType) /\ Len(x) = n
      /\ \A i \in 1..n : x[i].event = i /\ ~x[i].damaged
    BY <1>1, ReadsType DEF ReadUpTo
<1>5. d.event = e /\ ~d.damaged
    OBVIOUS
<1> HIDE DEF d, x, w
<1>6. Len(Append(x, d)) = n + 1 /\ Append(x, d)[n + 1] = d
      /\ \A i \in 1..n : Append(x, d)[i] = x[i]
    BY <1>4
<1>7. \A i \in 1..(n + 1) : Append(x, d)[i].event = i /\ ~Append(x, d)[i].damaged
    <2>1. \A i \in 1..(n + 1) : i = n + 1 \/ i \in 1..n
        OBVIOUS
    <2> QED
        BY <1>4, <1>5, <1>6, <2>1
<1> QED
    BY <1>3, <1>6, <1>7 DEF ReadUpTo, w

-----------------------------------------------------------------------------
(* The text of a response. *)

\* The texts of the first n events.
Upto(n) == FlattenSeq([e \in 1..n |-> TokensOf(e)])

LEMMA TokensType ==
    ASSUME NEW e \in Nat
    PROVE  TokensOf(e) \in Texts
<1>1. Named(e) \in Texts /\ Body(e) \in Texts
    BY BodyFacts
<1>2. Named(e) \o Body(e) \in Texts
    BY <1>1, ConcatProperties DEF Texts
<1> QED
    BY <1>1, <1>2, TokensSplit

LEMMA UptoGrows ==
    ASSUME NEW n \in Nat
    PROVE  Upto(n) \in Texts /\ Upto(n + 1) = Upto(n) \o TokensOf(n + 1)
<1> DEFINE T == Texts
           ss == [e \in 1..n |-> TokensOf(e)]
           tt == [e \in 1..(n + 1) |-> TokensOf(e)]
           t == TokensOf(n + 1)
<1>1. \A e \in 1..(n + 1) : TokensOf(e) \in T
    BY TokensType
<1> HIDE DEF T
<1>2. ss \in Seq(T) /\ Len(ss) = n /\ \A e \in 1..n : ss[e] = TokensOf(e)
    BY <1>1
<1>3. tt \in Seq(T) /\ Len(tt) = n + 1 /\ \A e \in 1..(n + 1) : tt[e] = TokensOf(e)
    BY <1>1
<1>4. t \in T
    BY <1>1
<1> HIDE DEF ss, tt
<1>5. Append(ss, t) = tt
    <2> DEFINE w == Append(ss, t)
    <2>1. /\ w \in Seq(T) /\ Len(w) = n + 1 /\ w[n + 1] = t
          /\ \A i \in 1..n : w[i] = ss[i]
        BY <1>2, <1>4
    <2> HIDE DEF w
    <2>2. \A i \in 1..(n + 1) : w[i] = tt[i]
        <3>1. \A i \in 1..(n + 1) : i = n + 1 \/ i \in 1..n
            OBVIOUS
        <3> QED
            BY <1>2, <1>3, <2>1, <3>1
    <2>3. w = tt
        BY <1>3, <2>1, <2>2, SeqEqual
    <2> QED
        BY <2>3 DEF w
<1>6. FlattenSeq(Append(ss, t)) = FlattenSeq(ss) \o t /\ FlattenSeq(ss) \in T
    <2>1. ss \in Seq(Seq(TokenType)) /\ t \in Seq(TokenType)
        BY <1>2, <1>4 DEF T, Texts
    <2> HIDE DEF t
    <2> QED
        BY <2>1, FlattenAppend DEF T, Texts
<1> QED
    BY <1>5, <1>6 DEF Upto, ss, tt, T

LEMMA UptoZero == Upto(0) = <<>>
<1>1. [e \in 1..0 |-> TokensOf(e)] = <<>>
    OBVIOUS
<1> QED
    BY <1>1 DEF Upto, FlattenSeq

LEMMA WholeIsUpto ==
    ASSUME response \in Seq(EventType)
    PROVE  Whole(response) = Upto(Len(response)) /\ Len(response) \in Nat
<1>1. DOMAIN response = 1..Len(response)
    OBVIOUS
<1> QED
    BY <1>1 DEF Whole, Upto

LEMMA UptoRead ==
    ASSUME NEW k \in Nat
    PROVE  ReadUpTo(Upto(k), k)
<1> DEFINE S == {n \in Nat : ReadUpTo(Upto(n), n)}
<1>1. 0 \in S
    <2>1. Unread.data = <<>> /\ Len(Unread.events) = 0 /\ 1..0 = {}
        BY DEF Unread
    <2>2. ReadUpTo(<<>>, 0)
        BY <2>1, ReadsOfEmpty, LinesOfEmpty DEF ReadUpTo, BetweenEvents
    <2> QED
        BY <2>2, UptoZero
<1>2. ASSUME NEW n \in Nat, n \in S PROVE n + 1 \in S
    <2>1. ReadUpTo(Upto(n) \o TokensOf(n + 1), n + 1)
        BY <1>2, EventRead
    <2>2. Upto(n + 1) = Upto(n) \o TokensOf(n + 1)
        BY UptoGrows
    <2>3. ReadUpTo(Upto(n + 1), n + 1)
        BY <2>1, <2>2
    <2> QED
        BY <2>3
<1> HIDE DEF S
<1>3. Nat \subseteq S
    BY <1>1, <1>2, NatSetInduction
<1> QED
    BY <1>3 DEF S

LEMMA WholeRead ==
    ASSUME response \in Seq(EventType)
    PROVE  ReadUpTo(Whole(response), Len(response))
BY WholeIsUpto, UptoRead

-----------------------------------------------------------------------------
(* A whole response as it comes over the wire. *)

\* A text of whole events of S, each with one head, before its tail.
WireText(s, S) ==
    /\ s \in Texts
    /\ \A i \in 1..Len(s) : WireToken(s[i])
    /\ \A i \in 1..Len(s) : s[i].part = "head" =>
         i < Len(s) /\ s[i + 1] = Token("tail", s[i].event) /\ s[i].event \in S
    /\ \A i, j \in 1..Len(s) :
         s[i].part = "head" /\ s[j].part = "head" /\ s[i].event = s[j].event => i = j

LEMMA WireConcat ==
    ASSUME NEW s, NEW t, NEW S, NEW T, WireText(s, S), WireText(t, T), S \cap T = {}
    PROVE  WireText(s \o t, S \cup T)
<1> DEFINE w == s \o t
           n == Len(s)
           m == Len(t)
<1>1. s \in Seq(TokenType) /\ t \in Seq(TokenType) /\ n \in Nat /\ m \in Nat
    BY LenProperties DEF WireText, Texts
<1>2. w \in Texts
    BY <1>1, ConcatProperties DEF Texts
<1>3. /\ Len(w) = n + m
      /\ \A i \in 1..(n + m) : w[i] = IF i <= n THEN s[i] ELSE t[i - n]
    BY <1>1, ConcatProperties
<1> HIDE DEF w, n, m
<1>4. ASSUME NEW i \in 1..(n + m), i <= n
      PROVE  /\ i \in 1..n /\ w[i] = s[i] /\ WireToken(w[i])
             /\ w[i].part = "head" =>
                  i < Len(w) /\ w[i + 1] = Token("tail", w[i].event) /\ w[i].event \in S
    <2>1. i \in 1..n /\ w[i] = s[i]
        BY <1>1, <1>3, <1>4
    <2>2. /\ WireToken(s[i])
          /\ s[i].part = "head" =>
               i < n /\ s[i + 1] = Token("tail", s[i].event) /\ s[i].event \in S
        BY <2>1 DEF WireText, n
    <2>3. i < n => i < n + m /\ i + 1 \in 1..(n + m) /\ i + 1 <= n
        BY <1>1, <2>1
    <2> QED
        BY <1>3, <2>1, <2>2, <2>3
<1>5. ASSUME NEW i \in 1..(n + m), ~(i <= n)
      PROVE  /\ i - n \in 1..m /\ w[i] = t[i - n] /\ WireToken(w[i])
             /\ w[i].part = "head" =>
                  i < Len(w) /\ w[i + 1] = Token("tail", w[i].event) /\ w[i].event \in T
    <2> DEFINE j == i - n
    <2>1. j \in 1..m /\ w[i] = t[j]
        BY <1>1, <1>3, <1>5
    <2>2. /\ WireToken(t[j])
          /\ t[j].part = "head" =>
               j < m /\ t[j + 1] = Token("tail", t[j].event) /\ t[j].event \in T
        BY <2>1 DEF WireText, m
    <2>3. j < m => i < n + m /\ i + 1 \in 1..(n + m) /\ ~(i + 1 <= n) /\ (i + 1) - n = j + 1
        BY <1>1, <1>5, <2>1
    <2> QED
        BY <1>3, <2>1, <2>2, <2>3
<1>6. ASSUME NEW i \in 1..(n + m), NEW j \in 1..(n + m),
             w[i].part = "head", w[j].part = "head", w[i].event = w[j].event
      PROVE  i = j
    <2>1. CASE i <= n /\ j <= n
        <3>1. i \in 1..n /\ j \in 1..n /\ w[i] = s[i] /\ w[j] = s[j]
            BY <1>4, <2>1
        <3> QED
            BY <1>6, <3>1 DEF WireText, n
    <2>2. CASE ~(i <= n) /\ ~(j <= n)
        <3>1. i - n \in 1..m /\ j - n \in 1..m /\ w[i] = t[i - n] /\ w[j] = t[j - n]
            BY <1>5, <2>2
        <3>2. i - n = j - n
            BY <1>6, <3>1 DEF WireText, m
        <3> QED
            BY <1>1, <3>2
    <2>3. CASE i <= n /\ ~(j <= n)
        <3>1. w[i].event \in S /\ w[j].event \in T
            BY <1>4, <1>5, <1>6, <2>3
        <3> QED
            BY <1>6, <3>1
    <2>4. CASE ~(i <= n) /\ j <= n
        <3>1. w[i].event \in T /\ w[j].event \in S
            BY <1>4, <1>5, <1>6, <2>4
        <3> QED
            BY <1>6, <3>1
    <2> QED
        BY <2>1, <2>2, <2>3, <2>4
<1>7. \A i \in 1..Len(w) : WireToken(w[i])
    BY <1>3, <1>4, <1>5
<1>8. \A i \in 1..Len(w) : w[i].part = "head" =>
          i < Len(w) /\ w[i + 1] = Token("tail", w[i].event) /\ w[i].event \in S \cup T
    BY <1>3, <1>4, <1>5
<1>9. WireText(w, S \cup T)
    BY <1>2, <1>3, <1>6, <1>7, <1>8 DEF WireText
<1> QED
    BY <1>9 DEF w

LEMMA WireNamed ==
    ASSUME NEW e \in Nat, e \in DOMAIN response
    PROVE  WireText(Named(e), {})
<1> DEFINE s == Named(e)
           m == Token("name", e)
<1>1. s \in Texts /\ Len(s) = 2 /\ s[1] = m /\ s[2] = NL
    BY BodyFacts
<1>2. /\ m \in TokenType /\ m.part = "name" /\ m.event = e /\ ~m.original /\ ~m.damaged
      /\ NL \in TokenType /\ NL.part = "newline" /\ ~NL.original /\ ~NL.damaged
    BY TokenIn DEF NL
<1> HIDE DEF s, m
<1>3. WireToken(m) /\ WireToken(NL)
    BY <1>2 DEF WireToken
<1>4. \A i \in 1..2 : i = 1 \/ i = 2
    OBVIOUS
<1>5. \A i \in 1..2 : WireToken(s[i]) /\ s[i].part # "head"
    BY <1>1, <1>2, <1>3, <1>4
<1>6. WireText(s, {})
    BY <1>1, <1>5 DEF WireText
<1> QED
    BY <1>6 DEF s

LEMMA WireBody ==
    ASSUME NEW e \in Nat, e \in DOMAIN response
    PROVE  WireText(Body(e), {e})
<1> DEFINE s == Body(e)
           h == Token("head", e)
           t == Token("tail", e)
<1>1. s \in Texts /\ Len(s) = 4 /\ s[1] = h /\ s[2] = t /\ s[3] = NL /\ s[4] = NL
    BY BodyFacts
<1>2. /\ h \in TokenType /\ h.part = "head" /\ h.event = e /\ ~h.original /\ ~h.damaged
      /\ t \in TokenType /\ t.part = "tail" /\ t.event = e /\ ~t.original /\ ~t.damaged
      /\ NL \in TokenType /\ NL.part = "newline" /\ ~NL.original /\ ~NL.damaged
    BY TokenIn DEF NL
<1>3. t = Token("tail", h.event)
    BY <1>2
<1> HIDE DEF s, h, t
<1>4. WireToken(h) /\ WireToken(t) /\ WireToken(NL)
    BY <1>2 DEF WireToken
<1>5. \A i \in 1..4 : i = 1 \/ i = 2 \/ i = 3 \/ i = 4
    OBVIOUS
<1>6. \A i \in 1..4 : WireToken(s[i])
    BY <1>1, <1>4, <1>5
<1>7. \A i \in 1..4 : s[i].part = "head" => i = 1
    BY <1>1, <1>2, <1>5
<1>8. 1 < 4 /\ 1 + 1 = 2
    OBVIOUS
<1>9. \A i \in 1..4 : s[i].part = "head" =>
          i < 4 /\ s[i + 1] = Token("tail", s[i].event) /\ s[i].event \in {e}
    BY <1>1, <1>2, <1>3, <1>7, <1>8
<1>10. WireText(s, {e})
    BY <1>1, <1>6, <1>7, <1>9 DEF WireText
<1> QED
    BY <1>10 DEF s

LEMMA WireTokens ==
    ASSUME NEW e \in Nat, e \in DOMAIN response
    PROVE  WireText(TokensOf(e), {e})
<1>1. WireText(Named(e), {}) /\ WireText(Body(e), {e})
    BY WireNamed, WireBody
<1>2. WireText(Named(e) \o Body(e), {} \cup {e})
    BY <1>1, WireConcat
<1>3. {} \cup {e} = {e}
    OBVIOUS
<1> QED
    BY <1>1, <1>2, <1>3, TokensSplit

LEMMA UptoOnWire ==
    ASSUME response \in Seq(EventType), NEW k \in Nat, k <= Len(response)
    PROVE  WireText(Upto(k), 1..k)
<1> DEFINE len == Len(response)
           S == {n \in Nat : n <= len => WireText(Upto(n), 1..n)}
<1>2. len \in Nat /\ DOMAIN response = 1..len
    OBVIOUS
<1>3. 0 \in S
    <2>1. Len(<<>>) = 0 /\ <<>> \in Texts
        BY LinesOfEmpty
    <2>2. WireText(<<>>, 1..0)
        BY <2>1 DEF WireText
    <2> QED
        BY <2>2, UptoZero
<1>4. ASSUME NEW n \in Nat, n \in S PROVE n + 1 \in S
    <2> SUFFICES ASSUME n + 1 <= len PROVE WireText(Upto(n + 1), 1..(n + 1))
        OBVIOUS
    <2>1. n + 1 \in Nat /\ n + 1 \in DOMAIN response /\ n <= len
        BY <1>2
    <2>2. WireText(Upto(n), 1..n)
        BY <1>4, <2>1
    <2>3. WireText(TokensOf(n + 1), {n + 1})
        BY <2>1, WireTokens
    <2>4. (1..n) \cap {n + 1} = {} /\ (1..n) \cup {n + 1} = 1..(n + 1)
        OBVIOUS
    <2>5. WireText(Upto(n) \o TokensOf(n + 1), (1..n) \cup {n + 1})
        BY <2>2, <2>3, <2>4, WireConcat
    <2>6. Upto(n + 1) = Upto(n) \o TokensOf(n + 1)
        BY UptoGrows
    <2> QED
        BY <2>4, <2>5, <2>6
<1> HIDE DEF S
<1>5. Nat \subseteq S
    BY <1>3, <1>4, NatSetInduction
<1> QED
    BY <1>5 DEF S

LEMMA WholeOnWire ==
    ASSUME response \in Responses
    PROVE  OnWire(Whole(response)) /\ Whole(response) \in Texts
<1> DEFINE len == Len(response)
<1>1. response \in Seq(EventType)
    BY ResponsesAssumption
<1>2. len \in Nat /\ DOMAIN response = 1..len
    BY <1>1
<1> DEFINE w == Whole(response)
<1>6. WireText(w, 1..len)
    BY <1>1, <1>2, UptoOnWire, WholeIsUpto
<1> HIDE DEF w
<1>7. w \in Seq(TokenType) /\ DOMAIN w = 1..Len(w) /\ w \in Texts
    BY <1>6, LenProperties DEF WireText, Texts
<1>8. ASSUME NEW i \in DOMAIN w, NEW j \in DOMAIN w, IsStart(w[i]), IsStart(w[j])
      PROVE  i = j
    <2>1. i \in 1..Len(w) /\ j \in 1..Len(w)
        BY <1>7
    <2>2. w[i].event \in DOMAIN response /\ w[j].event \in DOMAIN response
        BY <1>2, <1>6, <1>8, <2>1 DEF WireText, IsStart
    <2>3. w[i].event = w[j].event
        BY <1>8, <2>2, ResponsesAssumption DEF IsStart
    <2> QED
        BY <1>6, <1>8, <2>1, <2>3 DEF WireText, IsStart
<1>9. OnWire(w)
    BY <1>6, <1>7, <1>8 DEF OnWire, WireText
<1> QED
    BY <1>7, <1>9 DEF w

-----------------------------------------------------------------------------
(* A chunk, and what from_utf8_lossy makes of it. *)

\* A chunk of what is on the wire.
WireChunk(c) ==
    /\ c \in Texts /\ Len(c) >= 1
    /\ \A i \in 1..Len(c) : WireToken(c[i])
    /\ \A i \in 1..Len(c) :
         c[i].part = "head" /\ i < Len(c) => c[i + 1] = Token("tail", c[i].event)

LEMMA ChunkFacts ==
    ASSUME NEW s, OnWire(s), NEW n \in 1..Len(s)
    PROVE  LET c == SubSeq(s, 1, n)
               r == SubSeq(s, n + 1, Len(s)) IN
           /\ WireChunk(c) /\ Len(c) = n /\ c \o r = s
           /\ \A i \in 1..n : i \in DOMAIN s /\ c[i] = s[i]
           /\ OnWire(r)
           /\ c[n].part = "head" => r # <<>> /\ r[1] = Token("tail", c[n].event)
           /\ \A i \in 1..n : IsStart(c[i]) => \A j \in DOMAIN r : ~IsStart(r[j])
           /\ (\A i \in DOMAIN s : ~IsStart(s[i])) => \A j \in DOMAIN r : ~IsStart(r[j])
<1> DEFINE c == SubSeq(s, 1, n)
           r == SubSeq(s, n + 1, Len(s))
           p == Len(s)
<1>1. s \in Seq(TokenType) /\ p \in Nat /\ DOMAIN s = 1..p
    BY LenProperties DEF OnWire
<1>2. n \in Nat /\ 1 <= n /\ n <= p /\ n \in 0..p
    BY <1>1
<1>3. /\ c \in Seq(TokenType) /\ Len(c) = n /\ \A i \in 1..n : c[i] = s[i]
    BY <1>1, <1>2
<1>4. /\ r \in Seq(TokenType) /\ Len(r) = p - n /\ DOMAIN r = 1..(p - n)
      /\ \A i \in 1..(p - n) : r[i] = s[n + i]
    <2>1. r \in Seq(TokenType)
        BY <1>1, <1>2, SplitAt
    <2>2. Len(r) = p - n
        <3>1. c \o r = s
            BY <1>1, <1>2, SplitAt
        <3>2. Len(c \o r) = Len(c) + Len(r) /\ Len(r) \in Nat
            BY <1>3, <2>1, ConcatProperties, LenProperties
        <3> HIDE DEF c, r
        <3> QED
            BY <1>1, <1>2, <1>3, <3>1, <3>2
    <2>3. DOMAIN r = 1..(p - n)
        BY <2>1, <2>2, LenProperties
    <2>4. \A i \in 1..(p - n) : r[i] = s[(n + 1) + i - 1]
        BY <1>1, <1>2
    <2>5. \A i \in 1..(p - n) : (n + 1) + i - 1 = n + i
        BY <1>1, <1>2
    <2> QED
        BY <2>1, <2>2, <2>3, <2>4, <2>5
<1>5. c \o r = s
    BY <1>1, <1>2, SplitAt
<1>6. \A i \in 1..p : /\ WireToken(s[i])
                      /\ s[i].part = "head" => i < p /\ s[i + 1] = Token("tail", s[i].event)
    BY <1>1 DEF OnWire
<1>7. \A i, j \in 1..p : IsStart(s[i]) /\ IsStart(s[j]) => i = j
    BY <1>1 DEF OnWire
<1>8. \A i \in 1..(p - n) : n + i \in 1..p /\ n + i > n
    BY <1>1, <1>2
<1>9. \A i \in 1..n : i \in 1..p
    BY <1>1, <1>2
<1> HIDE DEF c, r, p
<1>10. WireChunk(c)
    <2>1. \A i \in 1..n : WireToken(c[i])
        BY <1>3, <1>6, <1>9
    <2>2. ASSUME NEW i \in 1..n, c[i].part = "head", i < n
          PROVE  c[i + 1] = Token("tail", c[i].event)
        <3>1. i + 1 \in 1..n
            BY <1>2, <2>2
        <3> QED
            BY <1>3, <1>6, <1>9, <2>2, <3>1
    <2> QED
        BY <1>2, <1>3, <2>1, <2>2 DEF WireChunk, Texts
<1>11. OnWire(r)
    <2>1. \A i \in 1..(p - n) : WireToken(r[i])
        BY <1>4, <1>6, <1>8
    <2>2. ASSUME NEW i \in 1..(p - n), r[i].part = "head"
          PROVE  i < p - n /\ r[i + 1] = Token("tail", r[i].event)
        <3>1. r[i] = s[n + i] /\ n + i \in 1..p
            BY <1>4, <1>8
        <3>2. n + i < p /\ s[(n + i) + 1] = Token("tail", r[i].event)
            BY <1>6, <2>2, <3>1
        <3>3. i < p - n /\ i + 1 \in 1..(p - n) /\ n + (i + 1) = (n + i) + 1
            BY <1>1, <1>2, <3>2 DEF p
        <3> QED
            BY <1>4, <3>2, <3>3
    <2>3. ASSUME NEW i \in 1..(p - n), NEW j \in 1..(p - n), IsStart(r[i]), IsStart(r[j])
          PROVE  i = j
        <3>1. r[i] = s[n + i] /\ n + i \in 1..p /\ r[j] = s[n + j] /\ n + j \in 1..p
            BY <1>4, <1>8
        <3>2. n + i = n + j
            BY <1>7, <2>3, <3>1
        <3> QED
            BY <1>2, <3>2
    <2> QED
        BY <1>4, <2>1, <2>2, <2>3 DEF OnWire
<1>12. ASSUME c[n].part = "head" PROVE r # <<>> /\ r[1] = Token("tail", c[n].event)
    <2>1. n \in 1..n /\ n \in 1..p
        BY <1>2, <1>9
    <2>2. n < p /\ s[n + 1] = Token("tail", c[n].event)
        BY <1>3, <1>6, <1>12, <2>1
    <2>3. 1 \in 1..(p - n) /\ p - n # 0
        BY <1>1, <1>2, <2>2
    <2> QED
        BY <1>4, <2>2, <2>3
<1>13. ASSUME NEW i \in 1..n, IsStart(c[i]) PROVE \A j \in DOMAIN r : ~IsStart(r[j])
    <2> SUFFICES ASSUME NEW j \in 1..(p - n), IsStart(r[j]) PROVE FALSE
        BY <1>4
    <2>1. IsStart(s[i]) /\ IsStart(s[n + j]) /\ i \in 1..p /\ n + j \in 1..p
        BY <1>3, <1>4, <1>8, <1>9, <1>13
    <2>2. i = n + j
        BY <1>7, <2>1
    <2> QED
        BY <1>2, <2>2
<1>14. ASSUME \A i \in DOMAIN s : ~IsStart(s[i]) PROVE \A j \in DOMAIN r : ~IsStart(r[j])
    BY <1>1, <1>4, <1>8, <1>14 DEF p
<1>15. \A i \in 1..n : i \in DOMAIN s /\ c[i] = s[i]
    BY <1>1, <1>3, <1>9 DEF p
<1> QED
    BY <1>3, <1>5, <1>10, <1>11, <1>12, <1>13, <1>14, <1>15 DEF c, r

\* The same tokens, perhaps damaged.
Shaped(d, c) ==
    /\ d \in Texts /\ Len(d) = Len(c)
    /\ \A i \in 1..Len(c) :
         /\ d[i].part = c[i].part /\ d[i].event = c[i].event /\ ~d[i].original
         /\ d[i].part = "newline" => d[i] = NL

LEMMA ChunkShaped ==
    ASSUME NEW c, WireChunk(c)
    PROVE  Shaped(c, c)
<1>1. \A i \in 1..Len(c) : ~c[i].original /\ (c[i].part = "newline" => c[i] = NL)
    BY DEF WireChunk, WireToken
<1> QED
    BY <1>1 DEF Shaped, WireChunk

LEMMA LossyShaped ==
    ASSUME NEW c, WireChunk(c)
    PROVE  /\ Shaped(Lossy(c), c)
           /\ ~TornStart(c) /\ ~TornEnd(c) => Lossy(c) = c
<1> DEFINE n == Len(c)
           d == Lossy(c)
<1>1. c \in Seq(TokenType) /\ n \in Nat /\ n >= 1 /\ DOMAIN c = 1..n
    BY LenProperties DEF WireChunk, Texts
<1>2. \A i \in 1..n : c[i] \in TokenType /\ ~c[i].original /\ (c[i].part = "newline" => c[i] = NL)
    BY DEF WireChunk, WireToken
<1>3. DOMAIN d = 1..n
    BY <1>1 DEF Lossy
<1>4. ASSUME NEW i \in 1..n
      PROVE  /\ d[i] = c[i] \/ (d[i] = [c[i] EXCEPT !.damaged = TRUE] /\ c[i].part # "newline")
             /\ ~TornStart(c) /\ ~TornEnd(c) => d[i] = c[i]
    <2>1. d[i] = IF (i = 1 /\ TornStart(c)) \/ (i = Len(c) /\ TornEnd(c))
                 THEN [c[i] EXCEPT !.damaged = TRUE] ELSE c[i]
        BY <1>1 DEF Lossy
    <2> QED
        BY <2>1 DEF TornStart, TornEnd
<1> HIDE DEF d, n
<1>5. ASSUME NEW i \in 1..n
      PROVE  /\ d[i] \in TokenType /\ d[i].part = c[i].part /\ d[i].event = c[i].event
             /\ ~d[i].original /\ (d[i].part = "newline" => d[i] = NL)
    <2>1. CASE d[i] = c[i]
        BY <1>2, <2>1
    <2>2. CASE d[i] = [c[i] EXCEPT !.damaged = TRUE] /\ c[i].part # "newline"
        <3>1. c[i] \in TokenType /\ ~c[i].original
            BY <1>2
        <3> QED
            BY <2>2, <3>1 DEF TokenType
    <2> QED
        BY <1>4, <2>1, <2>2
<1>6. d \in [1..n -> TokenType]
    <2>1. d = [i \in 1..n |-> d[i]]
        BY <1>1 DEF Lossy, d, n
    <2> QED
        BY <1>5, <2>1
<1>7. d \in Texts /\ Len(d) = n
    <2>1. d \in Seq(TokenType)
        BY <1>1, <1>6
    <2> QED
        BY <1>1, <1>3, <2>1, LenProperties DEF Texts
<1>8. Shaped(d, c)
    BY <1>5, <1>7 DEF Shaped, n
<1>9. ASSUME ~TornStart(c), ~TornEnd(c) PROVE d = c
    <2>1. \A i \in 1..n : d[i] = c[i]
        BY <1>4, <1>9
    <2> QED
        BY <1>1, <1>7, <2>1, SeqEqual DEF Texts, n
<1> QED
    BY <1>8, <1>9 DEF d

-----------------------------------------------------------------------------
(* A line in which the model is renamed. *)

\* A line keeps its shape, and only the mark of who named the model is new.
LEMMA RenamedFacts ==
    ASSUME NEW l \in Texts
    PROVE  LET r == Renamed(l) IN
           /\ r \in Texts /\ Len(r) = Len(l)
           /\ \A i \in 1..Len(l) : r[i].part = l[i].part /\ r[i].event = l[i].event
           /\ NoNewline(l) => NoNewline(r)
           /\ Plain(r) = Plain(l)
           /\ IsDataLine(r) <=> IsDataLine(l)
           /\ Len(l) # 2 => r = l
           /\ IsDataLine(l) /\ ~l[2].original => (r[2].original <=> NamesModel(r))
<1> DEFINE r == Renamed(l)
           n == Len(l)
<1>1. n \in Nat /\ DOMAIN l = 1..n /\ \A i \in 1..n : l[i] \in TokenType
    BY PlainFacts DEF Texts
<1>2. CASE ~NamesModel(l)
    <2>1. r = l
        BY <1>2 DEF Renamed
    <2> HIDE DEF r
    <2> QED
        BY <1>2, <2>1 DEF r
<1>3. CASE NamesModel(l)
    <2> DEFINE b == [l[2] EXCEPT !.original = TRUE]
    <2>1. r = [l EXCEPT ![2] = b]
        BY <1>3 DEF Renamed
    <2>2. n = 2 /\ IsDataLine(l)
        BY <1>3 DEF NamesModel, IsDataLine
    <2>3. 1 \in 1..n /\ 2 \in 1..n /\ \A i \in 1..n : i = 1 \/ i = 2
        BY <2>2
    <2>4. /\ b \in TokenType /\ b.part = l[2].part /\ b.event = l[2].event
          /\ b.damaged = l[2].damaged /\ b.original = TRUE
        BY <1>1, <2>3 DEF TokenType
    <2> HIDE DEF b, r, n
    <2>5. r \in Texts /\ Len(r) = n /\ DOMAIN r = 1..n /\ r[1] = l[1] /\ r[2] = b
        <3>1. l \in Seq(TokenType)
            BY DEF Texts
        <3>2. r \in Seq(TokenType)
            <4>1. l \in [1..n -> TokenType]
                BY <1>1, <3>1, LenProperties DEF n
            <4>2. r \in [1..n -> TokenType]
                BY <2>1, <2>4, <4>1
            <4> QED
                BY <1>1, <4>2
        <3>3. DOMAIN r = 1..n
            BY <1>1, <2>1
        <3>4. Len(r) = n
            BY <1>1, <3>2, <3>3, LenProperties
        <3>5. r[1] = l[1] /\ r[2] = b
            BY <1>1, <2>1, <2>3
        <3> QED
            BY <3>2, <3>3, <3>4, <3>5 DEF Texts
    <2>6. \A i \in 1..n : r[i].part = l[i].part /\ r[i].event = l[i].event
        BY <2>3, <2>4, <2>5
    <2>7. NoNewline(l) => NoNewline(r)
        BY <1>1, <2>5, <2>6 DEF NoNewline
    <2>8. IsDataLine(r)
        BY <2>2, <2>3, <2>5, <2>6 DEF IsDataLine
    <2>9. NamesModel(r)
        BY <1>3, <2>3, <2>6, <2>8 DEF NamesModel
    <2>10. Plain(r) = Plain(l)
        <3>1. PlainToken(b) = PlainToken(l[2])
            <4>1. l[2] \in TokenType
                BY <1>1, <2>3
            <4> QED
                BY <2>4, <4>1 DEF PlainToken, TokenType
        <3>2. \A i \in 1..n : PlainToken(r[i]) = PlainToken(l[i])
            BY <2>3, <2>5, <3>1
        <3>3. Plain(r) = [i \in 1..n |-> PlainToken(r[i])] /\ Plain(l) = [i \in 1..n |-> PlainToken(l[i])]
            BY <1>1, <2>5 DEF Plain
        <3> QED
            BY <3>2, <3>3
    <2> QED
        BY <2>2, <2>4, <2>5, <2>6, <2>7, <2>8, <2>9, <2>10 DEF r, n
<1> QED
    BY <1>2, <1>3

\* A data line of a chunk is of one event, which stands there.
LEMMA ChunkLine ==
    ASSUME NEW c, WireChunk(c), NEW d, Shaped(d, c), NEW l \in Texts, NEW k \in Nat,
           LiesAt(l, d, k), IsDataLine(l)
    PROVE  /\ k + 1 \in 1..Len(c) /\ k + 2 \in 1..Len(c)
           /\ c[k + 1].part = "head" /\ c[k + 1].event = l[1].event
           /\ c[k + 2].part = "tail" /\ c[k + 2].event = l[1].event
           /\ l[2].event = l[1].event /\ l[1].event \in DOMAIN response
           /\ ~l[2].original
<1> DEFINE n == Len(c)
<1>1. n \in Nat /\ Len(d) = n
    BY LenProperties DEF WireChunk, Texts, Shaped
<1>2. Len(l) = 2 /\ l[1].part = "head" /\ l[2].part = "tail"
    BY DEF IsDataLine
<1>3. k + 1 \in 1..n /\ k + 2 \in 1..n /\ 1 \in 1..2 /\ 2 \in 1..2 /\ k + 1 < n /\ (k + 1) + 1 = k + 2
    BY <1>1, <1>2 DEF LiesAt
<1>4. l[1] = d[k + 1] /\ l[2] = d[k + 2]
    BY <1>2, <1>3 DEF LiesAt
<1> HIDE DEF n
<1>5. /\ d[k + 1].part = c[k + 1].part /\ d[k + 1].event = c[k + 1].event
      /\ d[k + 2].part = c[k + 2].part /\ d[k + 2].event = c[k + 2].event
      /\ ~d[k + 2].original
    BY <1>3 DEF Shaped, n
<1>6. c[k + 2] = Token("tail", c[k + 1].event)
    BY <1>2, <1>3, <1>4, <1>5 DEF WireChunk, n
<1>7. WireToken(c[k + 1]) /\ c[k + 1].event \in DOMAIN response
    <2>1. WireToken(c[k + 1])
        BY <1>3 DEF WireChunk, n
    <2> QED
        BY <1>2, <1>4, <1>5, <2>1 DEF WireToken
<1>8. c[k + 2].event = c[k + 1].event
    BY <1>6 DEF Token
<1> QED
    BY <1>2, <1>3, <1>4, <1>5, <1>7, <1>8 DEF n

-----------------------------------------------------------------------------
(* What make_reverse_model_rewriter makes of a chunk. *)

\* What the client gets for a chunk: good lines, the edges of which are the chunk's.
Lands(x, c) ==
    LET p == Lines(x) IN
    /\ x \in Texts /\ p \in Pages
    /\ \A i \in 1..Len(p) : GoodLineBut(p[i], {})
    /\ Len(Last(p)) = 1 /\ Last(p)[1].part = "head" =>
         c[Len(c)].part = "head" /\ c[Len(c)].event = Last(p)[1].event
    /\ c[1].part # "newline" =>
         p[1] # <<>> /\ (Len(p[1]) = 1 => p[1][1].event = c[1].event)

\* The lines of a chunk.
LEMMA ShapedLines ==
    ASSUME NEW c, WireChunk(c), NEW d, Shaped(d, c)
    PROVE  LET ls == Lines(d) IN
           /\ d \in Texts /\ ls \in Pages
           /\ \A i \in 1..Len(ls) : ls[i] \in TextLines /\ \E k \in Nat : LiesAt(ls[i], d, k)
           /\ Len(Last(ls)) = 1 =>
                Last(ls)[1].part = c[Len(c)].part /\ Last(ls)[1].event = c[Len(c)].event
           /\ Len(ls[1]) = 1 => ls[1][1].event = c[1].event
           /\ c[1].part # "newline" => ls[1] # <<>>
<1> DEFINE ls == Lines(d)
           n == Len(c)
<1>1. d \in Texts /\ Len(d) = n /\ n \in Nat /\ n >= 1
    BY LenProperties DEF Shaped, WireChunk, Texts
<1>2. ls \in Pages /\ Parts(d)
    BY <1>1, LinesType, LinesAreParts
<1> DEFINE last == Last(ls)
           first == ls[1]
<1>3. /\ Len(ls) \in Nat /\ 1 \in 1..Len(ls) /\ \A i \in 1..Len(ls) : ls[i] \in Texts
      /\ last \in Texts /\ first \in Texts
    BY <1>2, PageFacts
<1>4. \A i \in 1..Len(ls) : \E k \in Nat : LiesAt(ls[i], d, k)
    BY <1>2 DEF Parts
<1>5. ASSUME NEW i \in 1..Len(ls) PROVE ls[i] \in TextLines
    <2> DEFINE l == ls[i]
    <2>1. l \in Texts /\ \E k \in Nat : LiesAt(l, d, k)
        BY <1>3, <1>4
    <2> HIDE DEF l
    <2>2. DOMAIN l = 1..Len(l)
        BY <2>1, LenProperties DEF Texts
    <2>3. NoNewline(l)
        BY <2>1, <2>2 DEF LiesAt, NoNewline
    <2> QED
        BY <2>1, <2>3 DEF TextLines, l
<1>6. /\ LiesAt(last, d, Len(d) - Len(last))
      /\ LiesAt(first, d, 0)
      /\ d # <<>> /\ d[1].part # "newline" => first # <<>>
    BY <1>2 DEF Parts
<1>7. \A i \in 1..n : d[i].part = c[i].part /\ d[i].event = c[i].event
    BY DEF Shaped
<1>8. 1 \in 1..n /\ n \in 1..n /\ 1 \in 1..1
    BY <1>1
<1> HIDE DEF ls, n, last, first
<1>9. ASSUME Len(last) = 1
      PROVE  last[1].part = c[n].part /\ last[1].event = c[n].event
    <2>1. (n - 1) + 1 = n
        BY <1>1
    <2>2. last[1] = d[n]
        BY <1>1, <1>6, <1>8, <1>9, <2>1 DEF LiesAt
    <2> QED
        BY <1>7, <1>8, <2>2
<1>10. ASSUME Len(first) = 1 PROVE first[1].event = c[1].event
    <2>1. first[1] = d[1]
        BY <1>6, <1>8, <1>10 DEF LiesAt
    <2> QED
        BY <1>7, <1>8, <2>1
<1>11. ASSUME c[1].part # "newline" PROVE first # <<>>
    <2>1. d # <<>>
        BY <1>1
    <2> QED
        BY <1>6, <1>7, <1>8, <1>11, <2>1
<1> QED
    BY <1>1, <1>2, <1>4, <1>5, <1>9, <1>10, <1>11 DEF ls, n, last, first

\* A chunk that is not rewritten has no line that should be.
LEMMA UntouchedLands ==
    ASSUME NEW c, WireChunk(c), ~IsRewritten(c),
           mapping /\ anthropic_done => \A i \in 1..Len(c) : ~IsStart(c[i])
    PROVE  Lands(c, c)
<1> DEFINE p == Lines(c)
<1>1. Shaped(c, c)
    BY ChunkShaped
<1>2. /\ c \in Texts /\ p \in Pages
      /\ \A i \in 1..Len(p) : p[i] \in TextLines /\ \E k \in Nat : LiesAt(p[i], c, k)
      /\ Len(Last(p)) = 1 =>
           Last(p)[1].part = c[Len(c)].part /\ Last(p)[1].event = c[Len(c)].event
      /\ Len(p[1]) = 1 => p[1][1].event = c[1].event
      /\ c[1].part # "newline" => p[1] # <<>>
    BY <1>1, ShapedLines
<1>3. DOMAIN p = 1..Len(p) /\ DOMAIN c = 1..Len(c)
    BY <1>2, PageFacts, LenProperties DEF Texts
<1>4. mapping => ~HasMarker(c) \/ \A i \in 1..Len(p) : ~NamesModel(p[i])
    BY <1>3 DEF IsRewritten
<1> HIDE DEF p
<1>5. ASSUME NEW i \in 1..Len(p) PROVE GoodLineBut(p[i], {})
    <2> DEFINE l == p[i]
    <2>1. l \in Texts /\ \E k \in Nat : LiesAt(l, c, k)
        BY <1>2 DEF TextLines
    <2>2. mapping => ~HasMarker(c) \/ ~NamesModel(l)
        BY <1>4
    <2> HIDE DEF l
    <2> SUFFICES ASSUME IsDataLine(l) PROVE GoodLineBut(l, {})
        BY DEF GoodLineBut, l
    <2>3. PICK k \in Nat : LiesAt(l, c, k)
        BY <2>1
    <2>4. /\ k + 1 \in 1..Len(c) /\ k + 2 \in 1..Len(c)
          /\ c[k + 1].part = "head" /\ c[k + 1].event = l[1].event
          /\ c[k + 2].part = "tail" /\ c[k + 2].event = l[1].event
          /\ l[2].event = l[1].event /\ l[1].event \in DOMAIN response
          /\ ~l[2].original
        BY <1>1, <2>1, <2>3, ChunkLine
    <2>5. ASSUME mapping, NamesModel(l) PROVE FALSE
        <3> DEFINE kind == response[l[1].event].kind
        <3>1. ~HasMarker(c) /\ kind \in {"message_start", "completion"}
            BY <2>2, <2>5 DEF NamesModel
        <3>2. k + 1 \in DOMAIN c /\ k + 2 \in DOMAIN c
            BY <1>3, <2>4
        <3>3. /\ response[c[k + 1].event].kind = kind /\ response[c[k + 2].event].kind = kind
            BY <2>4
        <3> HIDE DEF kind
        <3>4. CASE kind = "completion"
            <4>1. Has(c, "head", {"completion"}) /\ Has(c, "tail", {"completion"})
                BY <2>4, <3>2, <3>3, <3>4 DEF Has
            <4> QED
                BY <3>1, <4>1 DEF HasMarker
        <3>5. CASE kind = "message_start"
            <4>1. Has(c, "head", {"message_start"})
                BY <2>4, <3>2, <3>3, <3>5 DEF Has
            <4>2. anthropic_done
                BY <3>1, <4>1 DEF HasMarker
            <4>3. IsStart(c[k + 1])
                BY <2>4, <3>3, <3>5 DEF IsStart
            <4> QED
                BY <2>4, <2>5, <4>2, <4>3
        <3> QED
            BY <3>1, <3>4, <3>5
    <2> QED
        BY <2>4, <2>5 DEF GoodLineBut
<1> QED
    BY <1>2, <1>5 DEF Lands, p

\* The lines of a chunk that is rewritten, put together.
Names(ls) == [i \in DOMAIN ls |-> Renamed(ls[i])]

LEMMA NamesFacts ==
    ASSUME NEW ls \in Pages, \A i \in 1..Len(ls) : ls[i] \in TextLines
    PROVE  /\ Names(ls) \in Seq(TextLines) /\ Names(ls) # <<>> /\ Len(Names(ls)) = Len(ls)
           /\ \A i \in 1..Len(ls) : Names(ls)[i] = Renamed(ls[i])
           /\ PlainLines(Names(ls)) = PlainLines(ls)
<1> DEFINE n == Len(ls)
           r == Names(ls)
<1>1. ls \in Seq(Texts) /\ n \in Nat /\ n >= 1 /\ DOMAIN ls = 1..n /\ \A i \in 1..n : ls[i] \in Texts
    BY PageFacts
<1>2. r = [i \in 1..n |-> Renamed(ls[i])]
    BY <1>1 DEF Names
<1> HIDE DEF r
<1>3. \A i \in 1..n : Renamed(ls[i]) \in TextLines /\ Plain(Renamed(ls[i])) = Plain(ls[i])
    BY <1>1, RenamedFacts DEF TextLines
<1>4. DOMAIN r = 1..n /\ \A i \in 1..n : r[i] = Renamed(ls[i])
    BY <1>2
<1>5. r \in [1..n -> TextLines]
    BY <1>2, <1>3
<1>6. r \in Seq(TextLines)
    BY <1>1, <1>5
<1>7. Len(r) = n
    BY <1>1, <1>4, <1>6, LenProperties
<1>8. r # <<>>
    BY <1>1, <1>7
<1>9. PlainLines(r) = PlainLines(ls)
    <2>1. \A i \in 1..n : Plain(r[i]) = Plain(ls[i])
        BY <1>3, <1>4
    <2>2. PlainLines(r) = [i \in 1..n |-> Plain(r[i])] /\ PlainLines(ls) = [i \in 1..n |-> Plain(ls[i])]
        BY <1>1, <1>4 DEF PlainLines
    <2> QED
        BY <2>1, <2>2
<1> QED
    BY <1>4, <1>6, <1>7, <1>8, <1>9 DEF r

LEMMA RewrittenLands ==
    ASSUME NEW c, WireChunk(c), IsRewritten(c)
    PROVE  Lands(Rewritten(c), c)
<1> DEFINE d == Lossy(c)
           ls == Lines(d)
           r == Names(ls)
           x == Rewritten(c)
           p == Lines(x)
<1>1. Shaped(d, c)
    BY LossyShaped
<1>2. x = Joined(r)
    BY DEF Rewritten, Names
<1> HIDE DEF d, x
<1>3. /\ d \in Texts /\ ls \in Pages
      /\ \A i \in 1..Len(ls) : ls[i] \in TextLines /\ \E k \in Nat : LiesAt(ls[i], d, k)
      /\ Len(Last(ls)) = 1 =>
           Last(ls)[1].part = c[Len(c)].part /\ Last(ls)[1].event = c[Len(c)].event
      /\ Len(ls[1]) = 1 => ls[1][1].event = c[1].event
      /\ c[1].part # "newline" => ls[1] # <<>>
    BY <1>1, ShapedLines
<1>4. Last(ls) = ls[Len(ls)] /\ 1 \in 1..Len(ls) /\ Len(ls) \in 1..Len(ls)
    BY <1>3, PageFacts
<1> HIDE DEF ls
<1>5. /\ r \in Seq(TextLines) /\ r # <<>> /\ Len(r) = Len(ls)
      /\ \A i \in 1..Len(ls) : r[i] = Renamed(ls[i])
    BY <1>3, NamesFacts
<1> HIDE DEF r
<1>6. x \in Texts /\ Again(r)
    BY <1>2, <1>5, LinesAgain
<1>7. p \in Pages
    BY <1>6, LinesType
<1>8. /\ \A i \in 1..Len(p) : p[i] = <<>> \/ \E j \in 1..Len(r) : p[i] = r[j]
      /\ Last(p) = r[Len(r)]
      /\ r[1] # <<>> => p = r
    BY <1>2, <1>5, <1>6 DEF Again
<1> HIDE DEF p
<1>9. \A i \in 1..Len(ls) : ls[i] \in Texts
    BY <1>3 DEF TextLines
<1>10. ASSUME NEW j \in 1..Len(ls) PROVE GoodLineBut(r[j], {})
    <2> DEFINE l == ls[j]
               q == r[j]
    <2>1. l \in Texts /\ q = Renamed(l) /\ \E k \in Nat : LiesAt(l, d, k)
        BY <1>3, <1>5, <1>9
    <2> HIDE DEF l, q
    <2>2. /\ q \in Texts /\ Len(q) = Len(l)
          /\ \A i \in 1..Len(l) : q[i].part = l[i].part /\ q[i].event = l[i].event
          /\ IsDataLine(q) <=> IsDataLine(l)
          /\ IsDataLine(l) /\ ~l[2].original => (q[2].original <=> NamesModel(q))
        BY <2>1, RenamedFacts
    <2> SUFFICES ASSUME IsDataLine(q) PROVE GoodLineBut(q, {})
        BY DEF GoodLineBut, q
    <2>3. PICK k \in Nat : LiesAt(l, d, k)
        BY <2>1
    <2>4. l[2].event = l[1].event /\ l[1].event \in DOMAIN response /\ ~l[2].original
        BY <1>1, <2>1, <2>2, <2>3, ChunkLine
    <2>5. Len(l) = 2
        BY <2>2 DEF IsDataLine
    <2>6. 1 \in 1..Len(l) /\ 2 \in 1..Len(l)
        BY <2>5
    <2>7. q[1].event = l[1].event /\ q[2].event = l[2].event
        BY <2>2, <2>6
    <2> QED
        BY <2>2, <2>4, <2>7 DEF GoodLineBut
<1>11. GoodLineBut(<<>>, {})
    BY DEF GoodLineBut, IsDataLine
<1>12. \A i \in 1..Len(p) : GoodLineBut(p[i], {})
    BY <1>5, <1>8, <1>10, <1>11
<1>13. ASSUME NEW j \in 1..Len(ls), Len(r[j]) = 1 PROVE Len(ls[j]) = 1 /\ r[j] = ls[j]
    <2> DEFINE l == ls[j]
    <2>1. l \in Texts /\ r[j] = Renamed(l)
        BY <1>5, <1>9
    <2> HIDE DEF l
    <2>2. Len(Renamed(l)) = Len(l) /\ (Len(l) # 2 => Renamed(l) = l)
        BY <2>1, RenamedFacts
    <2>3. Len(l) = 1
        BY <1>13, <2>1, <2>2
    <2> QED
        BY <2>1, <2>2, <2>3 DEF l
<1>14. ASSUME Len(Last(p)) = 1, Last(p)[1].part = "head"
       PROVE  c[Len(c)].part = "head" /\ c[Len(c)].event = Last(p)[1].event
    <2>1. Last(p) = r[Len(ls)]
        BY <1>5, <1>8
    <2>2. Len(ls[Len(ls)]) = 1 /\ Last(p) = Last(ls)
        BY <1>4, <1>13, <1>14, <2>1
    <2> QED
        BY <1>3, <1>4, <1>14, <2>2
<1>15. ASSUME c[1].part # "newline"
       PROVE  p[1] # <<>> /\ (Len(p[1]) = 1 => p[1][1].event = c[1].event)
    <2>1. ls[1] # <<>> /\ ls[1] \in Texts
        BY <1>3, <1>4, <1>9, <1>15
    <2>2. r[1] = Renamed(ls[1]) /\ Len(Renamed(ls[1])) = Len(ls[1])
        BY <1>4, <1>5, <2>1, RenamedFacts
    <2>3. Len(ls[1]) # 0
        BY <2>1, EmptySeq DEF Texts
    <2>4. Len(<<>>) = 0
        OBVIOUS
    <2>5. r[1] # <<>>
        BY <2>2, <2>3, <2>4
    <2>6. p[1] = r[1]
        BY <1>8, <2>5
    <2>7. Len(r[1]) = 1 => Len(ls[1]) = 1 /\ r[1] = ls[1]
        BY <1>4, <1>13
    <2> QED
        BY <1>3, <2>5, <2>6, <2>7
<1>16. Lands(x, c)
    BY <1>6, <1>7, <1>12, <1>14, <1>15 DEF Lands, p
<1> QED
    BY <1>16 DEF x

\* A chunk with good edges is put together as it was, but for the marks.
LEMMA RewrittenPlain ==
    ASSUME NEW c, WireChunk(c), ~BadEdge(c)
    PROVE  Plain(Rewritten(c)) = c
<1>1. c \in Texts /\ Len(c) >= 1 /\ DOMAIN c = 1..Len(c)
    BY LenProperties DEF WireChunk, Texts
<1>2. \A i \in 1..Len(c) : ~c[i].original /\ (c[i].part = "newline" => c[i] = NL)
    BY DEF WireChunk, WireToken
<1>3. Plain(c) = c
    BY <1>1, <1>2, PlainSame
<1>4. CASE ~IsRewritten(c)
    BY <1>3, <1>4 DEF Rewritten
<1>5. CASE IsRewritten(c)
    <2> DEFINE ls == Lines(c)
               r == Names(ls)
    <2>1. Lossy(c) = c /\ c[1] # NL
        BY <1>5, LossyShaped DEF BadEdge
    <2>2. Rewritten(c) = Joined(r)
        BY <1>5, <2>1 DEF Rewritten, Names
    <2>3. ls \in Pages /\ \A i \in 1..Len(ls) : ls[i] \in TextLines
        BY ChunkShaped, ShapedLines
    <2>4. ls \in Seq(Texts)
        BY <2>3, PageFacts
    <2>5. Plain(c) = Joined(PlainLines(ls))
        <3>1. WireNewlines(c)
            BY <1>1, <1>2 DEF WireNewlines
        <3>2. 1 \in 1..Len(c)
            BY <1>1
        <3>3. StartsInLine(c)
            BY <1>2, <2>1, <3>2 DEF StartsInLine
        <3>4. Joined(ls) = c
            BY <1>1, <3>1, <3>3, JoinedLines
        <3> QED
            BY <2>4, <3>4, PlainJoined
    <2> HIDE DEF ls
    <2>6. r \in Seq(TextLines) /\ PlainLines(r) = PlainLines(ls)
        BY <2>3, NamesFacts
    <2> HIDE DEF r
    <2>7. r \in Seq(Texts)
        <3>1. TextLines \subseteq Texts
            BY DEF TextLines
        <3> QED
            BY <2>6, <3>1
    <2>8. Plain(Joined(r)) = Joined(PlainLines(r))
        BY <2>7, PlainJoined
    <2> QED
        BY <1>3, <2>2, <2>5, <2>6, <2>8
<1> QED
    BY <1>4, <1>5

-----------------------------------------------------------------------------
(* A chunk after what the client has. *)

\* A line that goes on in a chunk.
LEMMA GluedLine ==
    ASSUME NEW K \in SUBSET DOMAIN response, NEW a \in Texts, NEW b \in Texts, NEW c,
           GoodLineBut(a, K), GoodLineBut(b, {}),
           Len(a) = 1 /\ a[1].part = "head" =>
               c[1] = Token("tail", a[1].event) /\ a[1].event \in K,
           c[1].part # "newline" => b # <<>> /\ (Len(b) = 1 => b[1].event = c[1].event)
    PROVE  /\ GoodLineBut(a \o b, K)
           /\ Len(a \o b) = 1 /\ (a \o b)[1].part = "head" => a \o b = b
<1> DEFINE l == a \o b
           n == Len(a)
           m == Len(b)
<1>1. n \in Nat /\ m \in Nat /\ a \in Seq(TokenType) /\ b \in Seq(TokenType)
    BY LenProperties DEF Texts
<1>2. Len(l) = n + m /\ \A i \in 1..(n + m) : l[i] = IF i <= n THEN a[i] ELSE b[i - n]
    BY <1>1, ConcatProperties
<1>3. n = 0 => l = b
    BY <1>1
<1>4. m = 0 => l = a
    BY <1>1
<1>5. b = <<>> => m = 0
    OBVIOUS
<1>6. Token("tail", a[1].event).part # "newline" /\ Token("tail", a[1].event).event = a[1].event
    BY DEF Token
<1> HIDE DEF l, n, m
<1>7. ASSUME Len(l) = 1, l[1].part = "head" PROVE l = b
    <2>1. n = 0 \/ (n = 1 /\ m = 0)
        <3>1. n + m = 1
            BY <1>2, <1>7
        <3> QED
            BY <1>1, <3>1
    <2>2. ASSUME n = 1, m = 0 PROVE FALSE
        <3>1. l = a
            BY <1>4, <2>2
        <3>2. b # <<>>
            BY <1>6, <1>7, <2>2, <3>1 DEF n
        <3>3. b = <<>>
            BY <1>1, <2>2, EmptySeq DEF m
        <3> QED
            BY <3>2, <3>3
    <2> QED
        BY <1>3, <2>1, <2>2
<1>8. ASSUME IsDataLine(l) PROVE GoodLineBut(l, K)
    <2>1. n + m = 2
        BY <1>2, <1>8 DEF IsDataLine
    <2>2. n = 0 \/ m = 0 \/ (n = 1 /\ m = 1)
        BY <1>1, <2>1
    <2>3. CASE n = 0
        <3>1. l = b
            BY <1>3, <2>3
        <3> QED
            BY <3>1 DEF GoodLineBut
    <2>4. CASE m = 0
        BY <1>4, <2>4
    <2>5. CASE n = 1 /\ m = 1
        <3>1. 1 \in 1..(n + m) /\ 2 \in 1..(n + m) /\ 1 <= n /\ ~(2 <= n) /\ 2 - n = 1
            BY <2>5
        <3>2. l[1] = a[1] /\ l[2] = b[1]
            <4>1. l[1] = IF 1 <= n THEN a[1] ELSE b[1 - n]
                BY <1>2, <3>1
            <4>2. l[2] = IF 2 <= n THEN a[2] ELSE b[2 - n]
                BY <1>2, <3>1
            <4> QED
                BY <3>1, <4>1, <4>2
        <3>3. a[1].part = "head"
            BY <1>8, <3>2 DEF IsDataLine
        <3>4. c[1] = Token("tail", a[1].event) /\ a[1].event \in K
            BY <2>5, <3>3 DEF n
        <3>5. b[1].event = a[1].event
            BY <1>6, <2>5, <3>4 DEF m
        <3>6. l[1].event \in K /\ l[1].event = l[2].event /\ l[1].event \in DOMAIN response
            BY <3>2, <3>4, <3>5
        <3> QED
            BY <3>6 DEF GoodLineBut
    <2> QED
        BY <2>2, <2>3, <2>4, <2>5
<1>9. GoodLineBut(l, K)
    BY <1>8 DEF GoodLineBut
<1> QED
    BY <1>7, <1>9 DEF l

\* The lines of what the client has, with a chunk more.
LEMMA GluedText ==
    ASSUME NEW K \in SUBSET DOMAIN response, NEW s \in Texts,
           NEW c, NEW x, Lands(x, c),
           \A i \in 1..Len(Lines(s)) : GoodLineBut(Lines(s)[i], K),
           LET l == Last(Lines(s)) IN
           Len(l) = 1 /\ l[1].part = "head" =>
               c[1] = Token("tail", l[1].event) /\ l[1].event \in K
    PROVE  LET q == Lines(s \o x) IN
           /\ s \o x \in Texts /\ q \in Pages
           /\ \A i \in 1..Len(q) : GoodLineBut(q[i], K)
           /\ Len(Last(q)) = 1 /\ Last(q)[1].part = "head" =>
                c[Len(c)].part = "head" /\ c[Len(c)].event = Last(q)[1].event
<1> DEFINE a == Lines(s)
           p == Lines(x)
           q == Lines(s \o x)
           n == Len(a)
           m == Len(p)
<1>1. /\ x \in Texts /\ p \in Pages
      /\ \A i \in 1..m : GoodLineBut(p[i], {})
      /\ Len(Last(p)) = 1 /\ Last(p)[1].part = "head" =>
           c[Len(c)].part = "head" /\ c[Len(c)].event = Last(p)[1].event
      /\ c[1].part # "newline" =>
           p[1] # <<>> /\ (Len(p[1]) = 1 => p[1][1].event = c[1].event)
    BY DEF Lands
<1>2. s \o x \in Texts /\ Glued(a, p, q)
    BY <1>1, LinesAreGlued
<1>3. a \in Pages /\ q \in Pages
    BY <1>2, LinesType
<1>4. \A i \in 1..n : GoodLineBut(a[i], K)
    OBVIOUS
<1>5. Len(Last(a)) = 1 /\ Last(a)[1].part = "head" =>
          c[1] = Token("tail", Last(a)[1].event) /\ Last(a)[1].event \in K
    OBVIOUS
<1> HIDE DEF a, p, q, n, m
<1>6. /\ n \in Nat /\ n >= 1 /\ Last(a) = a[n] /\ a[n] \in Texts
      /\ m \in Nat /\ m >= 1 /\ Last(p) = p[m] /\ p[1] \in Texts
      /\ Last(q) = q[Len(q)]
    <2>1. n \in Nat /\ n >= 1 /\ Last(a) = a[n] /\ \A i \in 1..n : a[i] \in Texts
        BY <1>3, PageFacts DEF n
    <2>2. m \in Nat /\ m >= 1 /\ Last(p) = p[m] /\ \A i \in 1..m : p[i] \in Texts
        BY <1>1, PageFacts DEF m
    <2>3. n \in 1..n /\ 1 \in 1..m
        BY <2>1, <2>2
    <2> QED
        BY <1>3, <2>1, <2>2, <2>3, PageFacts
<1>7. /\ Len(q) = n + m - 1
      /\ \A i \in 1..(n - 1) : q[i] = a[i]
      /\ q[n] = a[n] \o p[1]
      /\ \A i \in 2..m : q[n + i - 1] = p[i]
    BY <1>2 DEF Glued, n, m
<1>8. GoodLineBut(a[n], K) /\ GoodLineBut(p[1], {})
    <2>1. n \in 1..n /\ 1 \in 1..m
        BY <1>6
    <2> QED
        BY <1>1, <1>4, <2>1
<1>9. /\ GoodLineBut(q[n], K)
      /\ Len(q[n]) = 1 /\ q[n][1].part = "head" => q[n] = p[1]
    <2> DEFINE u == a[n]
               v == p[1]
    <2>1. /\ u \in Texts /\ v \in Texts /\ GoodLineBut(u, K) /\ GoodLineBut(v, {})
          /\ Len(u) = 1 /\ u[1].part = "head" =>
               c[1] = Token("tail", u[1].event) /\ u[1].event \in K
          /\ c[1].part # "newline" => v # <<>> /\ (Len(v) = 1 => v[1].event = c[1].event)
          /\ q[n] = u \o v
        BY <1>1, <1>5, <1>6, <1>7, <1>8
    <2> HIDE DEF u, v
    <2>2. /\ GoodLineBut(u \o v, K)
          /\ Len(u \o v) = 1 /\ (u \o v)[1].part = "head" => u \o v = v
        BY ZenonT(60), <2>1, GluedLine
    <2> QED
        BY <2>1, <2>2 DEF v
<1>10. ASSUME NEW i \in 1..Len(q) PROVE GoodLineBut(q[i], K)
    <2>1. i \in 1..(n + m - 1)
        BY <1>7
    <2>2. i \in 1..(n - 1) \/ i = n \/ (i + 1 - n \in 2..m /\ n + (i + 1 - n) - 1 = i)
        BY <1>6, <2>1
    <2>3. CASE i \in 1..(n - 1)
        <3>1. i \in 1..n
            BY <1>6, <2>3
        <3> QED
            BY <1>4, <1>7, <2>3, <3>1
    <2>4. CASE i = n
        BY <1>9, <2>4
    <2>5. CASE i + 1 - n \in 2..m /\ n + (i + 1 - n) - 1 = i
        <3> DEFINE j == i + 1 - n
        <3>1. j \in 2..m /\ n + j - 1 = i
            BY <2>5
        <3> HIDE DEF j
        <3>2. j \in 1..m
            BY <3>1
        <3>3. GoodLineBut(p[j], {}) /\ q[i] = p[j]
            BY <1>1, <1>7, <3>1, <3>2
        <3> QED
            BY <3>3 DEF GoodLineBut
    <2> QED
        BY <2>2, <2>3, <2>4, <2>5
<1>11. ASSUME Len(Last(q)) = 1, Last(q)[1].part = "head"
       PROVE  c[Len(c)].part = "head" /\ c[Len(c)].event = Last(q)[1].event
    <2>1. Last(q) = Last(p)
        <3>1. CASE m = 1
            <4>1. Len(q) = n
                BY <1>6, <1>7, <3>1
            <4>2. Last(q) = q[n]
                BY <1>6, <4>1
            <4> QED
                BY <1>6, <1>9, <1>11, <3>1, <4>2
        <3>2. CASE m # 1
            <4>1. m \in 2..m
                BY <1>6, <3>2
            <4> QED
                BY <1>6, <1>7, <4>1
        <3> QED
            BY <3>1, <3>2
    <2> QED
        BY <1>1, <1>11, <2>1
<1> QED
    BY <1>2, <1>3, <1>10, <1>11 DEF q

-----------------------------------------------------------------------------
(* The invariant, step by step. *)

LEMMA StreamInvInit == StreamInit => StreamInv
<1> SUFFICES ASSUME StreamInit PROVE StreamInv
    OBVIOUS
<1>1. response \in Responses /\ OnWire(source) /\ source \in Texts /\ source = Whole(response)
    BY WholeOnWire DEF StreamInit
<1>2. delivered = <<>> /\ Lines(delivered) = << <<>> >> /\ Last(Lines(delivered)) = <<>>
    BY LinesOfEmpty, ReadsOfEmpty DEF StreamInit
<1>3. StreamTypeOK
    BY <1>1, LinesOfEmpty DEF StreamInit, StreamTypeOK, Texts
<1>4. mapping /\ anthropic_done => \A i \in DOMAIN source : ~IsStart(source[i])
    BY DEF StreamInit
<1>5. \A i \in DOMAIN Lines(delivered) : GoodLine(Lines(delivered)[i])
    <2>1. GoodLine(<<>>)
        BY DEF GoodLine, GoodLineBut, IsDataLine
    <2>2. \A i \in DOMAIN << <<>> >> : << <<>> >>[i] = <<>>
        OBVIOUS
    <2> QED
        BY <1>2, <2>1, <2>2
<1>6. Hanging
    BY <1>2 DEF Hanging
<1>7. on_complete => response_buffer = delivered
    BY DEF StreamInit
<1>8. ended = "done" => source = <<>>
    BY DEF StreamInit
<1>9. Plain(delivered) \o source = Whole(response)
    <2>1. <<>> \o source = source
        BY <1>1, ConcatEmptySeq DEF Texts
    <2> QED
        BY <1>1, <1>2, <2>1, PlainOfEmpty
<1> QED
    BY <1>1, <1>3, <1>4, <1>5, <1>6, <1>7, <1>8, <1>9 DEF StreamInv

\* The event that starts the message does not come twice.
LEMMA StartOver ==
    ASSUME NEW c, WireChunk(c), StartIsOver(c)
    PROVE  \E i \in 1..Len(c) : IsStart(c[i])
<1> DEFINE p == Lines(c)
<1>1. Shaped(c, c)
    BY ChunkShaped
<1>2. p \in Pages /\ \A i \in 1..Len(p) : p[i] \in TextLines /\ \E k \in Nat : LiesAt(p[i], c, k)
    BY <1>1, ShapedLines
<1>3. DOMAIN p = 1..Len(p)
    BY <1>2, PageFacts
<1>4. PICK i \in 1..Len(p) : IsDataLine(p[i]) /\ response[p[i][1].event].kind = "message_start"
    BY <1>3 DEF StartIsOver
<1> DEFINE l == p[i]
<1>5. l \in Texts /\ IsDataLine(l) /\ response[l[1].event].kind = "message_start"
    BY <1>2, <1>4 DEF TextLines
<1>6. PICK k \in Nat : LiesAt(l, c, k)
    BY <1>2
<1> HIDE DEF l
<1>7. k + 1 \in 1..Len(c) /\ c[k + 1].part = "head" /\ c[k + 1].event = l[1].event
    BY <1>1, <1>5, <1>6, ChunkLine
<1> QED
    BY <1>5, <1>7 DEF IsStart

LEMMA ParsedIsIn ==
    ASSUME NEW s \in Texts, NEW K, \A i \in DOMAIN Lines(s) : GoodLineBut(Lines(s)[i], K)
    PROVE  Parsed(s) \subseteq DOMAIN response
BY DEF Parsed, GoodLineBut

LEMMA PollKeepsInv ==
    ASSUME StreamInv, NEW n \in 1..Len(source), PollChunk(n)
    PROVE  StreamInv'
<1> DEFINE c == SubSeq(source, 1, n)
           r == SubSeq(source, n + 1, Len(source))
           x == Rewritten(c)
<1>1. /\ ended = "no" /\ source' = r
      /\ anthropic_done' = (anthropic_done \/ (mapping /\ StartIsOver(c)))
      /\ delivered' = delivered \o x
      /\ response_buffer' = IF on_complete THEN response_buffer \o x ELSE response_buffer
      /\ torn' = (torn \/ BadEdge(c))
      /\ cut' = cut \cup CutBehind(c)
      /\ response' = response /\ mapping' = mapping /\ on_complete' = on_complete
      /\ ended' = ended /\ registered' = registered
    BY DEF PollChunk
<1>2. /\ StreamTypeOK /\ OnWire(source) /\ Hanging
      /\ mapping /\ anthropic_done => \A i \in DOMAIN source : ~IsStart(source[i])
      /\ \A i \in DOMAIN Lines(delivered) : GoodLine(Lines(delivered)[i])
      /\ on_complete => response_buffer = delivered
      /\ ~torn => Plain(delivered) \o source = Whole(response)
    BY DEF StreamInv
<1>3. /\ delivered \in Texts /\ response_buffer \in Texts /\ source \in Texts
      /\ registered \subseteq SUBSET DOMAIN response /\ cut \subseteq DOMAIN response
    BY <1>2 DEF StreamTypeOK, Texts
<1>4. /\ WireChunk(c) /\ Len(c) = n /\ c \o r = source
      /\ \A i \in 1..n : i \in DOMAIN source /\ c[i] = source[i]
      /\ OnWire(r)
      /\ c[n].part = "head" => r # <<>> /\ r[1] = Token("tail", c[n].event)
      /\ \A i \in 1..n : IsStart(c[i]) => \A j \in DOMAIN r : ~IsStart(r[j])
      /\ (\A i \in DOMAIN source : ~IsStart(source[i])) => \A j \in DOMAIN r : ~IsStart(r[j])
    BY <1>2, ChunkFacts
<1> HIDE DEF c, r
<1>5. Lands(x, c)
    <2>1. CASE IsRewritten(c)
        BY <1>4, <2>1, RewrittenLands
    <2>2. CASE ~IsRewritten(c)
        <3>1. x = c
            BY <2>2 DEF Rewritten
        <3>2. mapping /\ anthropic_done => \A i \in 1..Len(c) : ~IsStart(c[i])
            BY <1>2, <1>4
        <3> HIDE DEF x
        <3> QED
            BY <1>4, <2>2, <3>1, <3>2, UntouchedLands
    <2> QED
        BY <2>1, <2>2
<1>6. ~BadEdge(c) => Plain(x) = c
    BY <1>4, RewrittenPlain
<1> HIDE DEF x
<1>7. x \in Texts
    BY <1>5 DEF Lands
<1>8. n \in 1..n /\ WireToken(c[n])
    <2>1. n \in Nat /\ n >= 1
        BY <1>3, LenProperties DEF Texts
    <2>2. n \in 1..n
        BY <2>1
    <2> QED
        BY <1>4, <2>2 DEF WireChunk
<1>9. CutBehind(c) = IF c[n].part = "head" THEN {c[n].event} ELSE {}
    BY <1>4 DEF CutBehind
<1>10. CutBehind(c) \subseteq DOMAIN response
    BY <1>8, <1>9 DEF WireToken
<1> DEFINE K == cut \cup CutBehind(c)
           q == Lines(delivered \o x)
<1>11. K \in SUBSET DOMAIN response /\ cut' = K
    BY <1>1, <1>3, <1>10
<1>12. \A i \in 1..Len(Lines(delivered)) : GoodLineBut(Lines(delivered)[i], K)
    <2>1. DOMAIN Lines(delivered) = 1..Len(Lines(delivered))
        BY <1>3, LinesType, PageFacts
    <2> QED
        BY <1>2, <2>1 DEF GoodLine, GoodLineBut
<1>13. LET l == Last(Lines(delivered)) IN
       Len(l) = 1 /\ l[1].part = "head" =>
           c[1] = Token("tail", l[1].event) /\ l[1].event \in K
    <2>1. 1 \in 1..n
        BY <1>8
    <2>2. c[1] = source[1]
        BY <1>4, <2>1
    <2> QED
        BY <1>2, <2>2 DEF Hanging
<1> HIDE DEF K
<1>14. /\ delivered \o x \in Texts /\ q \in Pages
       /\ \A i \in 1..Len(q) : GoodLineBut(q[i], K)
       /\ Len(Last(q)) = 1 /\ Last(q)[1].part = "head" =>
            c[Len(c)].part = "head" /\ c[Len(c)].event = Last(q)[1].event
    BY ZenonT(60), <1>3, <1>5, <1>11, <1>12, <1>13, GluedText
<1>15. DOMAIN q = 1..Len(q)
    BY <1>14, PageFacts
<1>16. Lines(delivered)' = q
    BY <1>1
<1> HIDE DEF q
<1>17. StreamTypeOK'
    <2>1. r \in Texts
        BY <1>4 DEF OnWire, Texts
    <2>2. response_buffer' \in Texts
        BY <1>1, <1>2, <1>3, <1>14
    <2>3. {source, delivered, response_buffer}' \subseteq Seq(TokenType)
        BY <1>1, <1>14, <2>1, <2>2 DEF Texts
    <2>4. (registered \subseteq SUBSET DOMAIN response /\ cut \subseteq DOMAIN response)'
        BY <1>1, <1>3, <1>11
    <2>5. {mapping, anthropic_done, on_complete, torn}' \subseteq BOOLEAN
        <3>1. mapping \in BOOLEAN /\ anthropic_done \in BOOLEAN /\ on_complete \in BOOLEAN /\ torn \in BOOLEAN
            BY <1>2 DEF StreamTypeOK
        <3>2. anthropic_done' \in BOOLEAN /\ torn' \in BOOLEAN
            BY <1>1
        <3> QED
            BY <1>1, <3>1, <3>2
    <2>6. response' \in Responses /\ (ended # "no" => ~on_complete)'
          /\ ended' \in {"no", "done", "error", "idle_timeout", "dropped"}
        BY <1>1, <1>2 DEF StreamTypeOK
    <2> QED
        BY <2>3, <2>4, <2>5, <2>6 DEF StreamTypeOK
<1>18. OnWire(source)'
    BY <1>1, <1>4 DEF OnWire, WireToken, IsStart
<1>19. (mapping /\ anthropic_done => \A i \in DOMAIN source : ~IsStart(source[i]))'
    <2> SUFFICES ASSUME mapping, anthropic_done' PROVE \A j \in DOMAIN r : ~IsStart(r[j])
        BY <1>1 DEF IsStart
    <2>1. CASE anthropic_done
        BY <1>2, <1>4, <2>1
    <2>2. CASE StartIsOver(c)
        <3>1. \E i \in 1..n : IsStart(c[i])
            BY <1>4, <2>2, StartOver
        <3> QED
            BY <1>4, <3>1
    <2> QED
        BY <1>1, <2>1, <2>2
<1>20. (\A i \in DOMAIN Lines(delivered) : GoodLine(Lines(delivered)[i]))'
    <2>1. ASSUME NEW l, GoodLineBut(l, K) PROVE GoodLine(l)'
        BY <1>1, <1>11, <2>1 DEF GoodLine, GoodLineBut, NamesModel
    <2> QED
        BY <1>14, <1>15, <1>16, <2>1
<1>21. Hanging'
    <2> DEFINE l == Last(q)
    <2>1. ASSUME Len(l) = 1, l[1].part = "head"
          PROVE  r # <<>> /\ r[1] = Token("tail", l[1].event) /\ l[1].event \in K
        <3>1. c[n].part = "head" /\ c[n].event = l[1].event
            BY <1>4, <1>14, <2>1
        <3> QED
            BY <1>4, <1>9, <3>1 DEF K
    <2> HIDE DEF l
    <2>2. Last(Lines(delivered))' = l
        BY <1>16 DEF l
    <2> QED
        BY <1>1, <1>11, <2>1, <2>2 DEF Hanging
<1>22. (on_complete => response_buffer = delivered)'
    BY <1>1, <1>2
<1>23. (ended = "done" => source = <<>>)'
    BY <1>1
<1>24. (~torn => Plain(delivered) \o source = Whole(response))'
    <2>0. Whole(response)' = Whole(response)
        BY <1>1 DEF Whole, TokensOf, IsNamed
    <2> SUFFICES ASSUME ~torn' PROVE Plain(delivered \o x) \o r = Whole(response)
        BY <1>1, <2>0
    <2>1. ~torn /\ Plain(x) = c
        BY <1>1, <1>6
    <2>2. Plain(delivered \o x) = Plain(delivered) \o c
        BY <1>3, <1>7, <2>1, PlainOfConcat
    <2>3. (Plain(delivered) \o c) \o r = Plain(delivered) \o (c \o r)
        <3>1. Plain(delivered) \in Seq(TokenType) /\ c \in Seq(TokenType) /\ r \in Seq(TokenType)
            BY <1>3, <1>4, PlainFacts DEF Texts, WireChunk, OnWire
        <3> QED
            BY <3>1, ConcatAssociative
    <2> QED
        BY <1>2, <1>4, <2>1, <2>2, <2>3
<1> QED
    BY <1>17, <1>18, <1>19, <1>20, <1>21, <1>22, <1>23, <1>24 DEF StreamInv

LEMMA BlocksType ==
    ASSUME NEW S
    PROVE  Blocks(S) \subseteq SUBSET S
<1>1. \A e \in S : Text(S, e) \subseteq S
    BY DEF Text
<1>2. Starts(S) \subseteq S
    BY DEF Starts
<1>3. RedactedBlocks(S) \subseteq SUBSET S
    BY DEF RedactedBlocks
<1> QED
    BY <1>1, <1>2, <1>3 DEF Blocks

LEMMA EndKeepsInv ==
    ASSUME StreamInv, StreamEnds
    PROVE  StreamInv'
<1>1. /\ ended = "no"
      /\ response' = response /\ mapping' = mapping /\ source' = source
      /\ anthropic_done' = anthropic_done /\ response_buffer' = response_buffer
      /\ delivered' = delivered /\ torn' = torn /\ cut' = cut
      /\ ended' \in {"done", "error", "idle_timeout", "dropped"}
      /\ on_complete' = FALSE
      /\ registered' = IF on_complete THEN Blocks(Parsed(response_buffer)) ELSE registered
    BY DEF StreamEnds, Finish
<1>2. ended' = "done" => source = <<>>
    BY DEF StreamEnds, Finish
<1>3. /\ StreamTypeOK /\ OnWire(source) /\ Hanging
      /\ mapping /\ anthropic_done => \A i \in DOMAIN source : ~IsStart(source[i])
      /\ \A i \in DOMAIN Lines(delivered) : GoodLine(Lines(delivered)[i])
      /\ on_complete => response_buffer = delivered
      /\ ~torn => Plain(delivered) \o source = Whole(response)
    BY DEF StreamInv
<1>4. delivered \in Texts
    BY <1>3 DEF StreamTypeOK, Texts
<1>5. Parsed(delivered) \subseteq DOMAIN response
    BY <1>3, <1>4, ParsedIsIn DEF GoodLine
<1>6. registered' \subseteq SUBSET DOMAIN response
    <2>1. Blocks(Parsed(delivered)) \subseteq SUBSET DOMAIN response
        BY <1>5, BlocksType
    <2> QED
        BY <1>1, <1>3, <2>1 DEF StreamTypeOK
<1>7. StreamTypeOK'
    BY <1>1, <1>3, <1>6 DEF StreamTypeOK
<1>8. OnWire(source)'
    BY <1>1, <1>3 DEF OnWire, WireToken, IsStart
<1>9. (mapping /\ anthropic_done => \A i \in DOMAIN source : ~IsStart(source[i]))'
    BY <1>1, <1>3 DEF IsStart
<1>10. (\A i \in DOMAIN Lines(delivered) : GoodLine(Lines(delivered)[i]))'
    <2>1. ASSUME NEW l, GoodLine(l) PROVE GoodLine(l)'
        BY <1>1, <2>1 DEF GoodLine, GoodLineBut, NamesModel
    <2> QED
        BY <1>1, <1>3, <2>1
<1>11. Hanging'
    BY <1>1, <1>3 DEF Hanging
<1>12. (~torn => Plain(delivered) \o source = Whole(response))'
    <2>1. Whole(response)' = Whole(response)
        BY <1>1 DEF Whole, TokensOf, IsNamed
    <2> QED
        BY <1>1, <1>3, <2>1
<1>13. (on_complete => response_buffer = delivered)' /\ (ended = "done" => source = <<>>)'
    BY <1>1, <1>2
<1> QED
    BY <1>7, <1>8, <1>9, <1>10, <1>11, <1>12, <1>13 DEF StreamInv

LEMMA StreamInvStep == StreamInv /\ [StreamNext]_streamVars => StreamInv'
<1> SUFFICES ASSUME StreamInv, [StreamNext]_streamVars PROVE StreamInv'
    OBVIOUS
<1>1. CASE \E n \in 1..Len(source) : PollChunk(n)
    BY <1>1, PollKeepsInv
<1>2. CASE StreamEnds
    BY <1>2, EndKeepsInv
<1>3. CASE UNCHANGED streamVars
    <2>1. ASSUME NEW l, GoodLine(l) PROVE GoodLine(l)'
        BY <1>3, <2>1 DEF streamVars, GoodLine, GoodLineBut, NamesModel
    <2>2. OnWire(source)' /\ StreamTypeOK' /\ Hanging'
        BY <1>3 DEF streamVars, StreamInv, OnWire, WireToken, IsStart, StreamTypeOK, Hanging
    <2>3. Whole(response)' = Whole(response)
        BY <1>3 DEF streamVars, Whole, TokensOf, IsNamed
    <2>4. (\A i \in DOMAIN Lines(delivered) : GoodLine(Lines(delivered)[i]))'
        BY <1>3, <2>1 DEF streamVars, StreamInv
    <2>5. (mapping /\ anthropic_done => \A i \in DOMAIN source : ~IsStart(source[i]))'
        BY <1>3 DEF streamVars, StreamInv, IsStart
    <2>6. (~torn => Plain(delivered) \o source = Whole(response))'
        BY <1>3, <2>3 DEF streamVars, StreamInv
    <2>7. (on_complete => response_buffer = delivered)' /\ (ended = "done" => source = <<>>)'
        BY <1>3 DEF streamVars, StreamInv
    <2> QED
        BY <2>2, <2>4, <2>5, <2>6, <2>7 DEF StreamInv
<1> QED
    BY <1>1, <1>2, <1>3 DEF StreamNext

LEMMA StreamInvAlways == StreamSpec => []StreamInv
BY StreamInvInit, StreamInvStep, PTL DEF StreamSpec

-----------------------------------------------------------------------------
(* What the client gets, and what is registered. *)

\* The invariant gives what the client reads, for it reads the marks not at all.
LEMMA ReadAsSent == StreamInv => EventsReachClient
<1> SUFFICES ASSUME StreamInv PROVE EventsReachClient
    OBVIOUS
<1>1. StreamTypeOK
    BY DEF StreamInv
<1>2. ASSUME ~torn
      PROVE  /\ \A i \in DOMAIN Events : Events[i].event = i /\ ~Events[i].damaged
             /\ ended = "done" => Len(Events) = Len(response)
    <2> DEFINE p == Plain(delivered)
               w == Whole(response)
    <2>1. delivered \in Texts /\ source \in Texts /\ response \in Seq(EventType)
        BY <1>1, ResponsesAssumption DEF StreamTypeOK, Texts
    <2>2. p \in Texts /\ p \o source = w /\ (ended = "done" => source = <<>>)
        BY <1>2, <2>1, PlainFacts DEF StreamInv
    <2>3. SameEvents(Seen(p), Events)
        BY <2>1, PlainSeen DEF Events
    <2> HIDE DEF p, w
    <2>4. w \in Texts /\ Extends(Seen(p), Seen(w))
        BY <2>1, <2>2, SeenExtends, LinesAreGlued
    <2>5. /\ Len(Seen(w)) = Len(response)
          /\ \A i \in 1..Len(response) : Seen(w)[i].event = i /\ ~Seen(w)[i].damaged
        <3>1. ReadUpTo(w, Len(response))
            BY <2>1, WholeRead DEF w
        <3>2. Seen(w) = Reads(w).events
            BY <2>4, ReadsType
        <3> QED
            BY <3>1, <3>2 DEF ReadUpTo
    <2>6. /\ Len(Events) \in Nat /\ Len(response) \in Nat /\ DOMAIN Events = 1..Len(Events)
        <3>1. Events \in Seq(DispatchType)
            BY <2>1, ReadsType DEF Events
        <3> QED
            BY <2>1, <3>1, LenProperties
    <2>7. ASSUME NEW i \in DOMAIN Events PROVE Events[i].event = i /\ ~Events[i].damaged
        <3>1. i \in 1..Len(Seen(p)) /\ Len(Seen(p)) <= Len(response) /\ Len(Seen(p)) = Len(Events)
            BY <2>3, <2>4, <2>5, <2>6, <2>7 DEF SameEvents, Extends
        <3>2. i \in 1..Len(response)
            BY <2>6, <3>1
        <3> QED
            BY <2>3, <2>4, <2>5, <3>1, <3>2 DEF SameEvents, Extends
    <2>8. ASSUME ended = "done" PROVE Len(Events) = Len(response)
        <3>1. p \o <<>> = p
            BY <2>2, ConcatEmptySeq DEF Texts
        <3>2. w = p
            BY <2>2, <2>8, <3>1
        <3> QED
            BY <2>3, <2>5, <3>2 DEF SameEvents
    <2> QED
        BY <2>7, <2>8
<1> QED
    BY <1>1, <1>2 DEF EventsReachClient

\* An event that is not garbage is a data line of the client's.
LEMMA SeenIsLine ==
    ASSUME StreamInv, NEW i \in DOMAIN Events, Events[i].event # 0
    PROVE  \E j \in DOMAIN Lines(delivered) :
               LET l == Lines(delivered)[j] IN
               /\ IsDataLine(l) /\ GoodLine(l) /\ Events[i].event = l[1].event
               /\ Events[i].event = l[2].event /\ Events[i].original = l[2].original
<1>1. delivered \in Texts
    BY DEF StreamInv, StreamTypeOK, Texts
<1>2. DOMAIN Lines(delivered) = 1..Len(Lines(delivered))
    BY <1>1, LinesType, PageFacts
<1>3. i \in 1..Len(Seen(delivered))
    <2>1. Seen(delivered) \in Seq(DispatchType)
        BY <1>1, ReadsType
    <2> QED
        BY <2>1, LenProperties DEF Events
<1>4. PICK j \in 1..Len(Lines(delivered)) :
          LET l == Lines(delivered)[j] IN
          /\ IsDataLine(l) /\ Seen(delivered)[i].event = l[2].event
          /\ Seen(delivered)[i].original = l[2].original
    BY <1>1, <1>3, SeenFromLines DEF Events
<1>5. GoodLine(Lines(delivered)[j])
    BY <1>2 DEF StreamInv
<1> QED
    BY <1>2, <1>4, <1>5 DEF Events, GoodLine, GoodLineBut

LEMMA NamedAsAsked == StreamInv => ClientModelNamed
<1> SUFFICES ASSUME StreamInv, mapping, NEW i \in DOMAIN Events,
                    Events[i].event # 0, Events[i].event \notin cut
             PROVE  Events[i].original <=>
                        NamesModel(<<Token("head", Events[i].event), Token("tail", Events[i].event)>>)
    BY DEF ClientModelNamed
<1> DEFINE e == Events[i].event
           m == <<Token("head", e), Token("tail", e)>>
<1>1. PICK j \in DOMAIN Lines(delivered) :
          LET l == Lines(delivered)[j] IN
          /\ IsDataLine(l) /\ GoodLine(l) /\ e = l[1].event
          /\ Events[i].original = l[2].original
    BY SeenIsLine
<1> DEFINE l == Lines(delivered)[j]
<1>2. IsDataLine(l) /\ GoodLine(l) /\ e = l[1].event /\ Events[i].original = l[2].original
    BY <1>1
<1> HIDE DEF l
<1>3. l[2].original <=> NamesModel(l)
    BY <1>2 DEF GoodLine, GoodLineBut
<1>4. m[1].event = e /\ IsDataLine(m)
    BY DEF IsDataLine, Token
<1> HIDE DEF m
<1>5. NamesModel(m) <=> NamesModel(l)
    BY <1>2, <1>4 DEF NamesModel
<1> QED
    BY <1>2, <1>3, <1>5 DEF m

-----------------------------------------------------------------------------
(* What is registered. *)

LEMMA UptoPrefix ==
    ASSUME NEW k \in Nat, NEW n \in Nat, k <= n
    PROVE  \E y \in Texts : Upto(n) = Upto(k) \o y
<1> DEFINE P(m) == k <= m => \E y \in Texts : Upto(m) = Upto(k) \o y
           S == {m \in Nat : P(m)}
<1>0. Upto(k) \in Texts /\ Upto(k) = Upto(k) \o <<>> /\ <<>> \in Texts
    BY UptoGrows, LinesOfEmpty, ConcatEmptySeq DEF Texts
<1>1. 0 \in S
    <2>1. k <= 0 => k = 0
        OBVIOUS
    <2> QED
        BY <1>0, <2>1
<1>2. ASSUME NEW m \in Nat, m \in S PROVE m + 1 \in S
    <2>1. m + 1 \in Nat /\ P(m)
        BY <1>2
    <2> SUFFICES P(m + 1)
        BY <2>1
    <2>2. CASE k <= m
        <3>1. PICK y \in Texts : Upto(m) = Upto(k) \o y
            BY <2>1, <2>2
        <3> DEFINE t == TokensOf(m + 1)
                   u == Upto(k)
        <3>2. t \in Texts
            BY <2>1, TokensType
        <3>3. Upto(m + 1) = Upto(m) \o t
            BY UptoGrows
        <3> HIDE DEF t, u
        <3>4. u \in Texts
            BY <1>0 DEF u
        <3>5. (u \o y) \o t = u \o (y \o t)
            BY <3>2, <3>4, ConcatAssociative DEF Texts
        <3>6. y \o t \in Texts
            BY <3>2, ConcatProperties DEF Texts
        <3>7. Upto(m + 1) = Upto(k) \o (y \o t)
            BY <3>1, <3>3, <3>5 DEF u
        <3> QED
            BY <3>6, <3>7
    <2>3. CASE ~(k <= m)
        <3>1. k <= m + 1 => k = m + 1
            BY <2>3
        <3>2. k = m + 1 => \E y \in Texts : Upto(m + 1) = Upto(k) \o y
            BY <1>0
        <3> QED
            BY <3>1, <3>2
    <2> QED
        BY <2>2, <2>3
<1> HIDE DEF S
<1>3. Nat \subseteq S
    BY <1>1, <1>2, NatSetInduction
<1> QED
    BY <1>3 DEF S

Begins(c, a) == \E z \in Texts : a = c \o z

\* The first part of a text, if it is longer than another first part, begins with it.
LEMMA LongerPrefix ==
    ASSUME NEW a \in Texts, NEW b \in Texts, NEW c \in Texts, NEW d \in Texts,
           a \o b = c \o d, Len(c) <= Len(a)
    PROVE  Begins(c, a)
<1> DEFINE n == Len(c)
           x == SubSeq(a, 1, n)
           z == SubSeq(a, n + 1, Len(a))
<1>1. n \in Nat /\ Len(a) \in Nat /\ Len(b) \in Nat /\ Len(d) \in Nat /\ n \in 0..Len(a)
    BY LenProperties DEF Texts
<1>2. x \in Texts /\ z \in Texts /\ x \o z = a
    BY <1>1, SplitAt DEF Texts
<1>3. Len(x) = n /\ \A i \in 1..n : x[i] = a[i]
    <2>1. \A i \in 1..n : i \in 1..Len(a)
        BY <1>1
    <2> QED
        BY <1>1, <2>1 DEF Texts
<1>4. \A i \in 1..n : (a \o b)[i] = a[i] /\ (c \o d)[i] = c[i]
    <2>1. \A i \in 1..n : i \in 1..Len(a) /\ i <= Len(a) /\ i \in 1..(Len(a) + Len(b)) /\ i \in 1..(n + Len(d))
        BY <1>1
    <2> QED
        BY <1>1, <2>1, ConcatProperties DEF Texts
<1> HIDE DEF x, z
<1>5. x = c
    BY <1>2, <1>3, <1>4, SeqEqual DEF Texts
<1> QED
    BY <1>2, <1>5 DEF Begins

\* Where half of an event has come, the events before it were read.
LEMMA ReadBefore ==
    ASSUME response \in Seq(EventType), NEW p \in Texts, NEW y \in Texts,
           p \o y = Whole(response), NEW i \in 1..Len(p), p[i].part = "head"
    PROVE  p[i].event - 1 <= Len(Seen(p))
<1> DEFINE len == Len(response)
           w == Whole(response)
           e == p[i].event
           u == Upto(e - 1)
<1>1. len \in Nat /\ DOMAIN response = 1..len /\ w = Upto(len) /\ WireText(Upto(len), 1..len)
    BY WholeIsUpto, UptoOnWire
<1>2. i \in 1..Len(w) /\ w[i] = p[i]
    <2>1. Len(p) \in Nat /\ Len(y) \in Nat
        BY LenProperties DEF Texts
    <2>2. Len(p \o y) = Len(p) + Len(y) /\ (p \o y)[i] = p[i]
        BY <2>1, ConcatProperties DEF Texts
    <2> QED
        BY <2>1, <2>2
<1>3. e \in 1..len
    <2> HIDE DEF w
    <2> QED
        BY <1>1, <1>2 DEF WireText
<1>4. e - 1 \in Nat /\ e - 1 <= len
    BY <1>1, <1>3
<1>5. PICK z \in Texts : w = u \o z
    BY <1>1, <1>4, UptoPrefix
<1>6. u \in Texts /\ WireText(u, 1..(e - 1)) /\ ReadUpTo(u, e - 1)
    BY <1>4, UptoGrows, UptoOnWire, UptoRead
<1> HIDE DEF w, u, e
<1>7. Len(u) < i
    <2> SUFFICES ASSUME i <= Len(u) PROVE FALSE
        BY <1>6, LenProperties DEF Texts
    <2>1. Len(u) \in Nat /\ Len(z) \in Nat /\ i \in 1..Len(u)
        BY <1>6, LenProperties DEF Texts
    <2>2. w[i] = u[i]
        BY <1>5, <1>6, <2>1, ConcatProperties DEF Texts
    <2>3. u[i].part = "head" /\ u[i].event = e
        BY <1>2, <2>2 DEF e
    <2>4. e \in 1..(e - 1)
        BY <1>6, <2>1, <2>3 DEF WireText
    <2> QED
        BY <1>3, <2>4
<1>8. Len(u) <= Len(p)
    BY <1>6, <1>7, LenProperties DEF Texts
<1>9. PICK v \in Texts : p = u \o v
    <2>1. p \o y = u \o z
        BY <1>5 DEF w
    <2>2. u \in Texts
        BY <1>6
    <2>3. Begins(u, p)
        BY <1>8, <2>1, <2>2, LongerPrefix
    <2> QED
        BY <2>3 DEF Begins
<1>10. Len(Seen(u)) = e - 1
    BY <1>6, ReadsType DEF ReadUpTo
<1>11. Extends(Seen(u), Seen(p))
    BY <1>6, <1>9, SeenExtends
<1> QED
    BY <1>10, <1>11 DEF Extends, e

\* What is parsed: the events the client has read, and one more at most.
LEMMA ParsedIsSeen ==
    ASSUME StreamInv, ~torn
    PROVE  \E n \in Nat :
               /\ SeenEvents = 1..n /\ 1..n \subseteq Parsed(delivered)
               /\ Parsed(delivered) \subseteq 1..(n + 1)
               /\ Parsed(delivered) \subseteq DOMAIN response
<1> DEFINE n == Len(Events)
           p == Plain(delivered)
<1>1. delivered \in Texts /\ source \in Texts /\ response \in Seq(EventType)
    BY ResponsesAssumption DEF StreamInv, StreamTypeOK, Texts
<1>2. p \in Texts /\ p \o source = Whole(response)
    BY <1>1, PlainFacts DEF StreamInv
<1>3. n \in Nat /\ DOMAIN Events = 1..n /\ Len(Seen(p)) = n
    <2>1. Events \in Seq(DispatchType)
        BY <1>1, ReadsType DEF Events
    <2>2. Len(Seen(p)) = Len(Events)
        BY <1>1, PlainSeen DEF Events, SameEvents
    <2> QED
        BY <2>1, <2>2, LenProperties
<1>4. SeenEvents = 1..n
    <2>1. \A i \in 1..n : Events[i].event = i
        BY <1>3, ReadAsSent DEF EventsReachClient
    <2> HIDE DEF n
    <2> QED
        BY <1>3, <2>1 DEF SeenEvents
<1>5. 1..n \subseteq Parsed(delivered)
    <2>1. SeenEvents \subseteq Parsed(delivered)
        BY SeenIsLine DEF SeenEvents, Parsed
    <2> QED
        BY <1>4, <2>1
<1>6. Parsed(delivered) \subseteq DOMAIN response
    BY <1>1, ParsedIsIn DEF StreamInv, GoodLine
<1>7. ASSUME NEW e \in Parsed(delivered) PROVE e \in 1..(n + 1)
    <2> DEFINE ls == Lines(delivered)
    <2>1. PICK j \in DOMAIN ls : IsDataLine(ls[j]) /\ e = ls[j][1].event
        BY <1>7 DEF Parsed
    <2>2. DOMAIN ls = 1..Len(ls) /\ ls[j] \in Texts
        BY <1>1, <2>1, LinesType, PageFacts
    <2>3. PICK k \in Nat : LiesAt(ls[j], delivered, k)
        BY <1>1, <2>1, <2>2, LinesAreParts DEF Parts
    <2> DEFINE l == ls[j]
    <2>4. LiesAt(l, delivered, k) /\ IsDataLine(l) /\ e = l[1].event
        BY <2>1, <2>3
    <2> HIDE DEF l
    <2>5. k + 1 \in 1..Len(delivered) /\ l[1] = delivered[k + 1] /\ l[1].part = "head"
        <3>1. Len(delivered) \in Nat
            BY <1>1, LenProperties DEF Texts
        <3>2. Len(l) = 2 /\ l[1].part = "head"
            BY <2>4 DEF IsDataLine
        <3>3. k + 2 <= Len(delivered) /\ 1 \in 1..2
            BY <2>4, <3>2 DEF LiesAt
        <3> QED
            BY <2>4, <3>1, <3>2, <3>3 DEF LiesAt
    <2>6. p[k + 1].part = "head" /\ p[k + 1].event = e /\ k + 1 \in 1..Len(p)
        <3> DEFINE t == delivered[k + 1]
        <3>1. t \in TokenType /\ p[k + 1] = PlainToken(t) /\ Len(p) = Len(delivered)
            BY <1>1, <2>5, PlainFacts
        <3>2. t.part = "head" /\ t.event = e
            BY <2>4, <2>5
        <3> HIDE DEF t, p
        <3>3. PlainToken(t).part = "head" /\ PlainToken(t).event = e
            BY <3>1, <3>2, PlainTokenFacts
        <3> QED
            BY <2>5, <3>1, <3>3
    <2> HIDE DEF p
    <2>7. e - 1 <= n
        BY <1>1, <1>2, <1>3, <2>6, ReadBefore
    <2>8. e \in 1..Len(response)
        BY <1>1, <1>6, <1>7
    <2> HIDE DEF n
    <2> QED
        BY <1>3, <2>7, <2>8
<1> QED
    BY <1>3, <1>4, <1>5, <1>6, <1>7

\* A block that is over stays as it is when an event is added.
LEMMA StoppedStay ==
    ASSUME NEW n \in Nat, NEW P, 1..n \subseteq P, P \subseteq 1..(n + 1)
    PROVE  StoppedBlocks(1..n) \subseteq Blocks(P)
<1> DEFINE S == 1..n
<1>1. S \subseteq Nat /\ P \subseteq Nat /\ S \subseteq P /\ \A f \in P, g \in S : f \in S \/ g < f
    OBVIOUS
<1> HIDE DEF S
<1>2. RedactedBlocks(S) \subseteq RedactedBlocks(P)
    BY <1>1 DEF RedactedBlocks
<1>3. ASSUME NEW s \in Starts(S), EndsWith(S, s, "block_stop")
      PROVE  s \in Starts(P) /\ ~EndsWith(P, s, "block_start") /\ Text(P, s) = Text(S, s)
    <2>1. s \in S /\ s \in P /\ s \in Starts(P)
        BY <1>1 DEF Starts
    <2>2. PICK f \in Boundaries(S, s) :
              response[f].kind = "block_stop" /\ \A g \in Boundaries(S, s) : f <= g
        BY <1>3 DEF EndsWith
    <2>3. f \in S /\ Boundaries(S, s) \subseteq Boundaries(P, s) /\ Boundaries(P, s) \subseteq P
          /\ Boundaries(S, s) \subseteq S
        BY <1>1, <2>2 DEF Boundaries
    <2>4. \A g \in Boundaries(P, s) : g \in Boundaries(S, s) \/ f < g
        BY <1>1, <2>3 DEF Boundaries
    <2>5. \A g \in Boundaries(P, s) : f <= g
        BY <1>1, <2>2, <2>3, <2>4
    <2>6. ~EndsWith(P, s, "block_start")
        <3> SUFFICES ASSUME NEW g \in Boundaries(P, s), response[g].kind = "block_start",
                            \A h \in Boundaries(P, s) : g <= h
                     PROVE  FALSE
            BY DEF EndsWith
        <3>1. g <= f /\ f <= g /\ g \in Nat /\ f \in Nat
            BY <1>1, <2>2, <2>3, <2>5
        <3>2. g = f
            BY <3>1
        <3> QED
            BY <2>2, <3>2
    <2>7. ASSUME NEW d \in P PROVE (\A g \in Boundaries(P, s) : d < g)
                                  <=> (d \in S /\ \A g \in Boundaries(S, s) : d < g)
        <3>1. ASSUME \A g \in Boundaries(P, s) : d < g PROVE d \in S
            <4>1. d < f
                BY <2>2, <2>3, <3>1
            <4>2. d \in Nat /\ f \in Nat /\ (d \in S \/ f < d)
                BY <1>1, <2>3
            <4> QED
                BY <4>1, <4>2
        <3>2. ASSUME \A g \in Boundaries(S, s) : d < g, NEW g \in Boundaries(P, s) PROVE d < g
            <4>1. d \in Nat /\ f \in Nat /\ g \in Nat /\ d < f /\ f <= g
                BY <1>1, <2>2, <2>3, <2>5, <3>2
            <4> QED
                BY <4>1
        <3> QED
            BY <2>3, <3>1, <3>2
    <2>8. Text(P, s) = Text(S, s)
        BY <1>1, <2>7 DEF Text
    <2> QED
        BY <2>1, <2>6, <2>8
<1> QED
    BY <1>2, <1>3 DEF StoppedBlocks, Blocks, S

LEMMA EndRegisters ==
    ASSUME StreamInv, [StreamNext]_streamVars, ended # ended', on_complete, ~torn
    PROVE  RegistersSeen
<1>1. StreamEnds
    BY DEF StreamNext, PollChunk, streamVars
<1>2. registered' = Blocks(Parsed(delivered))
    BY <1>1 DEF StreamEnds, Finish, StreamInv
<1> DEFINE P == Parsed(delivered)
<1>3. PICK n \in Nat : /\ SeenEvents = 1..n /\ 1..n \subseteq P
                       /\ P \subseteq 1..(n + 1) /\ P \subseteq DOMAIN response
    BY ParsedIsSeen
<1> HIDE DEF P
<1>4. StoppedBlocks(1..n) \subseteq Blocks(P)
    BY <1>3, StoppedStay
<1>5. P = 1..n \/ (n + 1 \in DOMAIN response /\ P = 1..n \cup {n + 1})
    <2>1. \A e \in P : e \in 1..n \/ e = n + 1
        BY <1>3
    <2> QED
        BY <1>3, <2>1
<1> QED
    BY <1>2, <1>3, <1>4, <1>5 DEF RegistersSeen, P

\* The events of the backend, unharmed, in order, and all of them when the
\* stream is done, unless a rewritten chunk had a bad edge: for every response
\* and however the network cuts it.
THEOREM EventsAlwaysReachClient == StreamSpec => []EventsReachClient
BY StreamInvAlways, ReadAsSent, PTL

\* Every event that came in one chunk has the client's own name for the model.
THEOREM ClientModelAlwaysNamed == StreamSpec => []ClientModelNamed
BY StreamInvAlways, NamedAsAsked, PTL

\* When the stream is over, every block that ended for the client is registered
\* with the text the client read, and a block that broke off with one event more
\* at most, unless a rewritten chunk had a bad edge: for every response, however
\* many deltas its blocks have, and however the network cuts it.
THEOREM SeenAlwaysRegistered ==
    StreamSpec => [][ended # ended' /\ on_complete /\ ~torn => RegistersSeen]_streamVars
<1>1. StreamInv /\ [StreamNext]_streamVars =>
          [ended # ended' /\ on_complete /\ ~torn => RegistersSeen]_streamVars
    BY EndRegisters
<1> QED
    BY <1>1, StreamInvAlways, PTL DEF StreamSpec
================================================================================
