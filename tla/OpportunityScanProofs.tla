----------------------- MODULE OpportunityScanProofs -----------------------
(* Theorems of OpportunityScan for every value of its constants: the chain of *)
(* promises admits one request of a token at a time, and no candidate trades  *)
(* more than its pools bear.                                                  *)
EXTENDS OpportunityScan, TLAPS, FiniteSetTheorems

Active(c, t) == At(c, t) # "idle"
After(c, t) == calls[<<c, t>>].after

Calls == [op : {"none", "get", "refresh"}, after : Caller \cup {None},
          at : {"idle", "waiting", "loading"}, tries : 0 .. MaxRetries, pairs : Pairs]

ChainType ==
  /\ listing \in Pairs
  /\ tail \in [Token -> Caller \cup {None}]
  /\ calls \in [Caller \X Token -> Calls]

(* No two calls wait for the same one, or for none; a call waits for one that *)
(* has not settled; nobody waits for the last; a request is not waiting.      *)
Chained(t) ==
  /\ \A c, d \in Caller : Active(c, t) /\ Active(d, t) /\ After(c, t) = After(d, t) => c = d
  /\ \A c \in Caller : Active(c, t) /\ After(c, t) # None => Active(After(c, t), t)
  /\ tail[t] # None => Active(tail[t], t)
  /\ \A c \in Caller : Active(c, t) => After(c, t) # tail[t]
  /\ \A c \in Caller : At(c, t) = "loading" => After(c, t) = None

ChainInv == ChainType /\ \A t \in Token : Chained(t)

-----------------------------------------------------------------------------
LEMMA ChainInit == Init => ChainInv
<1> SUFFICES ASSUME Init PROVE ChainInv
  OBVIOUS
<1> USE FeedAssumption DEF Init, FeedInit
<1>1. setting \in Settings /\ listing \in setting.listings
  OBVIOUS
<1>2. listing \in Pairs
  BY <1>1, ScanAssumption, SMTT(20)
<1>3. NoCall \in Calls
  BY DEF NoCall, Calls, Pairs, Unlisted
<1>4. ChainType
  BY <1>2, <1>3 DEF ChainType
<1>5. \A c \in Caller, t \in Token : calls[<<c, t>>] = NoCall
  OBVIOUS
<1>6. \A c \in Caller, t \in Token : ~ Active(c, t) /\ At(c, t) # "loading"
  BY <1>5 DEF Active, At, NoCall
<1>7. ASSUME NEW t \in Token PROVE Chained(t)
  <2>1. tail[t] = None
    OBVIOUS
  <2>. QED
    BY <1>6, <2>1 DEF Chained
<1>. QED
  BY <1>4, <1>7 DEF ChainInv

(* A step that leaves the calls of a token and their order alone.             *)
LEMMA ChainKept ==
  ASSUME ChainType, NEW t \in Token, Chained(t),
         \A c \in Caller : /\ calls'[<<c, t>>].at = calls[<<c, t>>].at
                           /\ calls'[<<c, t>>].after = calls[<<c, t>>].after,
         tail'[t] = tail[t]
  PROVE  Chained(t)'
<1>1. tail[t] \in Caller \cup {None}
  BY DEF ChainType
<1>2. \A c \in Caller : calls[<<c, t>>].after \in Caller \cup {None}
  BY DEF ChainType, Calls
<1>. QED
  BY <1>1, <1>2 DEF Chained, Active, At, After

(* runForToken: the new call waits for the last one, and becomes the last.    *)
LEMMA AskChained ==
  ASSUME ChainInv, NEW c \in Caller, NEW t \in Token, NEW op \in {"get", "refresh"},
         Ask(c, t, op), listing' = listing
  PROVE  ChainInv'
<1> USE FeedAssumption DEF ChainInv, ChainType, Calls, Waiting, Ask, Pairs, Unlisted
<1>1. ChainType'
  <2>1. Waiting(op, tail[t]) \in Calls
    OBVIOUS
  <2>. QED
    BY <2>1
<1>2. calls'[<<c, t>>].at = "waiting" /\ calls'[<<c, t>>].after = tail[t] /\ tail'[t] = c
  OBVIOUS
<1>3. \A d \in Caller, u \in Token : <<d, u>> # <<c, t>> => calls'[<<d, u>>] = calls[<<d, u>>]
  OBVIOUS
<1>4. \A u \in Token \ {t} : tail'[u] = tail[u]
  OBVIOUS
<1>5. ASSUME NEW u \in Token \ {t} PROVE Chained(u)'
  BY <1>3, <1>4 DEF Chained, Active, At, After
<1>6. ~ Active(c, t) /\ c # None
  BY DEF Active
<1>7. \A d \in Caller \ {c} : calls'[<<d, t>>] = calls[<<d, t>>]
  BY <1>3
<1>8. Chained(t)
  OBVIOUS
<1>9. Chained(t)'
  BY <1>2, <1>6, <1>7, <1>8 DEF Chained, Active, At, After
<1>. QED
  BY <1>1, <1>5, <1>9

(* A promise settles: the one that waited for it becomes the first.           *)
LEMMA SettleChained ==
  ASSUME ChainInv, NEW c \in Caller, NEW t \in Token, Active(c, t), After(c, t) = None,
         Settle(c, t), listing' = listing
  PROVE  ChainInv'
<1> USE FeedAssumption DEF ChainInv, ChainType
<1> DEFINE new(k) == IF k = <<c, t>> THEN NoCall
                     ELSE IF k[2] = t /\ calls[k].after = c THEN [calls[k] EXCEPT !.after = None]
                     ELSE calls[k]
<1>1. calls' = [k \in Caller \X Token |-> new(k)]
  BY DEF Settle
<1>2. ASSUME NEW k \in Caller \X Token PROVE new(k) \in Calls
  <2>1. NoCall \in Calls
    BY DEF NoCall, Calls, Pairs, Unlisted
  <2>2. calls[k] \in Calls
    OBVIOUS
  <2>3. [calls[k] EXCEPT !.after = None] \in Calls
    BY <2>2 DEF Calls
  <2>. QED
    BY <2>1, <2>2, <2>3
<1>3. ChainType'
  BY <1>1, <1>2 DEF Settle
<1>4. calls'[<<c, t>>].at = "idle"
  BY <1>1 DEF NoCall
<1>5. \A d \in Caller \ {c} : /\ calls'[<<d, t>>].at = calls[<<d, t>>].at
                              /\ calls'[<<d, t>>].after = IF calls[<<d, t>>].after = c THEN None ELSE calls[<<d, t>>].after
  BY <1>1 DEF Calls
<1>6. \A d \in Caller, u \in Token \ {t} : calls'[<<d, u>>] = calls[<<d, u>>]
  BY <1>1
<1>7. tail'[t] = (IF tail[t] = c THEN None ELSE tail[t]) /\ \A u \in Token \ {t} : tail'[u] = tail[u]
  BY DEF Settle
<1> HIDE DEF new
<1>8. ASSUME NEW u \in Token \ {t} PROVE Chained(u)'
  BY <1>6, <1>7, ChainKept
<1>9. Chained(t) /\ c # None
  OBVIOUS
<1>10. \A d \in Caller \ {c} : Active(d, t)' <=> Active(d, t)
  BY <1>5 DEF Active, At
<1>11. ~ Active(c, t)'
  BY <1>4 DEF Active, At
<1>12. \A d \in Caller \ {c} : Active(d, t) => After(d, t) # None
  BY <1>9 DEF Chained
<1>13. \A d \in Caller \ {c} : After(d, t)' = IF After(d, t) = c THEN None ELSE After(d, t)
  BY <1>5 DEF After
<1>14. \A d \in Caller : Active(d, t)' => d # c /\ Active(d, t)
  BY <1>10, <1>11
<1>15. ASSUME NEW d \in Caller, NEW e \in Caller, Active(d, t)', Active(e, t)', After(d, t)' = After(e, t)'
       PROVE  d = e
  BY <1>9, <1>12, <1>13, <1>14, <1>15 DEF Chained
<1>16. ASSUME NEW d \in Caller, Active(d, t)', After(d, t)' # None
       PROVE  Active(After(d, t), t)'
  <2>1. After(d, t)' = After(d, t) /\ After(d, t) # c /\ After(d, t) # None
    BY <1>13, <1>14, <1>16
  <2>2. After(d, t) \in Caller \ {c}
    BY <2>1 DEF After, Calls
  <2>3. Active(After(d, t), t)
    BY <1>9, <1>14, <1>16, <2>1 DEF Chained
  <2>4. calls'[<<After(d, t), t>>].at # "idle"
    BY <2>2, <2>3, <1>5 DEF Active, At
  <2>. QED
    BY <2>1, <2>4 DEF Active, At
<1>17. tail'[t] # None => Active(tail[t], t)'
  <2>1. ASSUME tail'[t] # None PROVE Active(tail[t], t)'
    <3>1. tail'[t] = tail[t] /\ tail[t] # c /\ tail[t] \in Caller
      BY <1>7, <2>1
    <3>2. Active(tail[t], t)
      BY <1>9, <2>1, <3>1 DEF Chained
    <3>3. calls'[<<tail[t], t>>].at # "idle"
      BY <3>1, <3>2, <1>5 DEF Active, At
    <3>. QED
      BY <3>1, <3>3 DEF Active, At
  <2>. QED
    BY <2>1
<1>18. ASSUME NEW d \in Caller, Active(d, t)' PROVE After(d, t)' # tail'[t]
  <2>1. tail[t] # None
    BY <1>9 DEF Chained
  <2>. QED
    BY <1>7, <1>9, <1>12, <1>13, <1>14, <1>18, <2>1 DEF Chained
<1>19. ASSUME NEW d \in Caller, At(d, t)' = "loading" PROVE After(d, t)' = None
  <2>1. d # c /\ At(d, t) = "loading"
    BY <1>4, <1>5, <1>19 DEF At
  <2>. QED
    BY <1>9, <1>13, <2>1 DEF Chained
<1>20. Chained(t)'
  BY <1>15, <1>16, <1>17, <1>18, <1>19 DEF Chained
<1>. QED
  BY <1>3, <1>8, <1>20

(* A request is sent, first or again.                                         *)
LEMMA RequestChained ==
  ASSUME ChainInv, NEW c \in Caller, NEW t \in Token, Active(c, t), After(c, t) = None,
         NEW tries \in 0 .. MaxRetries, Request(c, t, tries), UNCHANGED <<listing, tail>>
  PROVE  ChainInv'
<1> USE DEF ChainInv, ChainType
<1>1. ChainType'
  <2>1. calls[<<c, t>>] \in Calls
    OBVIOUS
  <2>2. [op |-> calls[<<c, t>>].op, after |-> calls[<<c, t>>].after, at |-> "loading",
         tries |-> tries, pairs |-> listing] \in Calls
    BY <2>1 DEF Calls
  <2>. QED
    BY <2>2 DEF Request
<1>2. /\ calls'[<<c, t>>].at = "loading" /\ calls'[<<c, t>>].after = calls[<<c, t>>].after
      /\ \A d \in Caller \ {c} : calls'[<<d, t>>] = calls[<<d, t>>]
  BY DEF Request, Calls
<1>3. \A d \in Caller, u \in Token \ {t} : calls'[<<d, u>>] = calls[<<d, u>>]
  BY DEF Request
<1>4. \A u \in Token : tail'[u] = tail[u]
  OBVIOUS
<1>5. ASSUME NEW u \in Token \ {t} PROVE Chained(u)'
  BY <1>3, <1>4, ChainKept
<1>6. Chained(t)'
  <2>1. \A d \in Caller : /\ (calls'[<<d, t>>].at # "idle") <=> (calls[<<d, t>>].at # "idle")
                          /\ calls'[<<d, t>>].after = calls[<<d, t>>].after
    BY <1>2 DEF Active, At
  <2>2. tail[t] \in Caller \cup {None}
    OBVIOUS
  <2>3. \A d \in Caller : calls[<<d, t>>].after \in Caller \cup {None}
    BY DEF Calls
  <2>4. \A d \in Caller \ {c} : calls'[<<d, t>>].at = calls[<<d, t>>].at
    BY <1>2
  <2>5. Chained(t) /\ calls[<<c, t>>].after = None /\ tail'[t] = tail[t]
    BY DEF After
  <2>. QED
    BY <2>1, <2>2, <2>3, <2>4, <2>5 DEF Chained, Active, At, After
<1>. QED
  BY <1>1, <1>5, <1>6

-----------------------------------------------------------------------------
(* Where a scan is; the tokens it takes are tokens.                           *)

ScanRecord ==
  [at : {"idle", "refresh", "gas", "score", "buyQuote", "sellQuote", "ended"},
   started : Nat, dex : {"refresh", "read", "fresh", "stale"},
   next : Nat \ {0}, read : Nat \ {0}, workers : Int, venues : SUBSET Venue]

ScanInv ==
  /\ setting \in Settings
  /\ clock \in Nat
  /\ scan \in [Scan -> ScanRecord]

LEMMA ScanInit == Init => ScanInv
<1>1. Idle \in ScanRecord
  BY DEF Idle, ScanRecord
<1>. QED
  BY <1>1 DEF Init, FeedInit, ScanInv

LEMMA SettingFacts ==
  ASSUME setting \in Settings
  PROVE  /\ Order \in Seq(Token) /\ setting.venues \subseteq Venue
         /\ setting.listings \subseteq Pairs /\ setting.markets \subseteq [Pool -> Price]
BY ScanAssumption DEF Order

LEMMA ScanStepInv == ScanInv /\ [Next]_vars => ScanInv'
<1> SUFFICES ASSUME ScanInv, [Next]_vars PROVE ScanInv'
  OBVIOUS
<1> USE DEF ScanInv, worldVars, feedVars, engineVars
<1>0. /\ Concurrency \in Nat \ {0} /\ Scan \subseteq Caller
      /\ setting.venues \subseteq Venue
  BY ScanAssumption, SettingFacts
<1>1. CASE Tick
  BY <1>1, FeedAssumption DEF Tick
<1>2. ASSUME NEW p \in Pool, (\E x \in Price : Trade(p, x)) \/ \E l \in Level : Relist(p, l)
      PROVE  ScanInv'
  BY <1>2 DEF Trade, Relist
<1>3. ASSUME NEW s \in Scan, Begin(s) PROVE ScanInv'
  <2>1. [at |-> "refresh", started |-> clock, dex |-> "refresh", next |-> 1, read |-> 1,
         workers |-> Concurrency, venues |-> setting.venues] \in ScanRecord
    BY <1>0 DEF ScanRecord
  <2>. QED
    BY <1>3, <2>1 DEF Begin
<1>4. ASSUME NEW s \in Scan, AskRefresh(s) PROVE ScanInv'
  <2>1. scan' = [scan EXCEPT ![s].next = @ + 1] /\ UNCHANGED <<setting, clock>>
    BY <1>4 DEF AskRefresh
  <2>. QED
    BY <2>1 DEF ScanRecord
<1>5. ASSUME NEW s \in Scan, BeginRead(s) PROVE ScanInv'
  <2>1. PICK d \in {"fresh", "read"} : scan' = [scan EXCEPT ![s].dex = d]
    BY <1>5 DEF BeginRead
  <2>2. UNCHANGED <<setting, clock>>
    BY <1>5 DEF BeginRead
  <2>. QED
    BY <2>1, <2>2 DEF ScanRecord
<1>6. ASSUME NEW s \in Scan, AskPairs(s) PROVE ScanInv'
  BY <1>6 DEF AskPairs
<1>7. ASSUME NEW s \in Scan, NEW v \in Venue, Adapter(s, v) PROVE ScanInv'
  BY <1>7 DEF Adapter, AdapterAnswers, ScanRecord
<1>8. ASSUME NEW s \in Scan, ScoreStep(s) PROVE ScanInv'
  <2>1. /\ UNCHANGED <<setting, clock>>
        /\ \/ scan' = scan
           \/ \E a \in {"gas", "score", "buyQuote", "sellQuote", "ended"} :
                scan' = [scan EXCEPT ![s].at = a]
    BY <1>8 DEF ScoreStep, FindPairs, GasPrice, ScanThrows, Score, BuyQuote, SellQuote,
                QuoteFails, End
  <2>. QED
    BY <2>1 DEF ScanRecord
<1>9. ASSUME NEW r \in Reader, NEW t \in Token, Read(r, t) PROVE ScanInv'
  BY <1>9 DEF Read
<1>10. ASSUME NEW c \in Caller, NEW t \in Token, NEW listed, Answered(c, t, listed)
       PROVE  ScanInv'
  <2>1. CASE UNCHANGED scan
    BY <1>10, <2>1 DEF Answered
  <2>2. CASE c \in Scan /\ TakePairs(c, t, listed)
    <3>1. PICK d \in {"fresh", "read"} : scan' = [scan EXCEPT ![c].read = @ + 1, ![c].dex = d]
      BY <2>2 DEF TakePairs
    <3>2. UNCHANGED <<setting, clock>>
      BY <1>10 DEF Answered
    <3> DEFINE next == [scan EXCEPT ![c].read = @ + 1]
    <3>3. next \in [Scan -> ScanRecord]
      BY <2>2 DEF ScanRecord
    <3>4. scan' = [next EXCEPT ![c].dex = d]
      BY <3>1
    <3> HIDE DEF next
    <3>5. scan' \in [Scan -> ScanRecord]
      BY <2>2, <3>3, <3>4, SMTT(20) DEF ScanRecord
    <3>. QED
      BY <3>2, <3>5
  <2>. QED
    BY <1>10, <2>1, <2>2 DEF Answered
<1>11. ASSUME NEW c \in Caller, NEW t \in Token, FeedThrows(c, t) PROVE ScanInv'
  BY <1>11 DEF FeedThrows, ScanRecord
<1>12. ASSUME NEW c \in Caller, NEW t \in Token, FeedStep(c, t) PROVE ScanInv'
  BY <1>10, <1>11, <1>12 DEF FeedStep, FeedHit, FeedResponds, FeedLoads, FeedRetries, Hit,
                            Respond, Load, Retry
<1>13. CASE UNCHANGED vars
  BY <1>13 DEF vars
<1>. QED
  BY <1>1, <1>2, <1>3, <1>4, <1>5, <1>6, <1>7, <1>8, <1>9, <1>12, <1>13
     DEF Next, ScanStep, RefreshStep

-----------------------------------------------------------------------------
(* Every step of the system is a step of a token's chain, or leaves it alone. *)
LEMMA ChainStep == ScanInv /\ ChainInv /\ [Next]_vars => ChainInv'
<1> SUFFICES ASSUME ScanInv, ChainInv, [Next]_vars PROVE ChainInv'
  OBVIOUS
<1>0. /\ Scan \subseteq Caller /\ Reader \subseteq Caller
      /\ Order \in Seq(Token) /\ setting.listings \subseteq Pairs
      /\ \A s \in Scan : scan[s].next \in Nat \ {0} /\ scan[s].read \in Nat \ {0}
  <2>1. setting \in Settings /\ scan \in [Scan -> ScanRecord]
    BY DEF ScanInv
  <2>2. Order \in Seq(Token) /\ setting.listings \subseteq Pairs
    BY <2>1, SettingFacts
  <2>3. \A s \in Scan : scan[s].next \in Nat \ {0} /\ scan[s].read \in Nat \ {0}
    BY <2>1 DEF ScanRecord
  <2>. QED
    BY ScanAssumption, <2>2, <2>3
<1>1. ASSUME UNCHANGED <<calls, tail>>, listing' \in Pairs PROVE ChainInv'
  <2>1. ChainType'
    BY <1>1 DEF ChainInv, ChainType
  <2>2. ASSUME NEW t \in Token PROVE Chained(t)'
    BY <1>1, ChainKept DEF ChainInv
  <2>. QED
    BY <2>1, <2>2 DEF ChainInv
<1>2. listing \in Pairs
  BY DEF ChainInv, ChainType
<1>3. CASE Tick
  BY <1>1, <1>2, <1>3 DEF Tick, feedVars
<1>4. ASSUME NEW p \in Pool, NEW x, Trade(p, x) PROVE ChainInv'
  BY <1>1, <1>2, <1>4 DEF Trade, feedVars
<1>5. ASSUME NEW p \in Pool, NEW l, Relist(p, l) PROVE ChainInv'
  <2>1. listing' \in Pairs
    BY <1>0, <1>5 DEF Relist
  <2>. QED
    BY <1>1, <1>5, <2>1 DEF Relist, feedVars
<1>6. ASSUME NEW s \in Scan, Begin(s) PROVE ChainInv'
  BY <1>1, <1>2, <1>6 DEF Begin, feedVars, worldVars
<1>7. ASSUME NEW s \in Scan, AskRefresh(s) PROVE ChainInv'
  <2>1. Order[scan[s].next] \in Token
    BY <1>0, <1>7 DEF AskRefresh
  <2>. QED
    BY <1>0, <1>7, <2>1, AskChained DEF AskRefresh, worldVars
<1>8. ASSUME NEW s \in Scan, AskPairs(s) PROVE ChainInv'
  <2>1. Order[scan[s].read] \in Token
    BY <1>0, <1>8 DEF AskPairs
  <2>. QED
    BY <1>0, <1>8, <2>1, AskChained DEF AskPairs, worldVars
<1>9. ASSUME NEW s \in Scan, BeginRead(s) PROVE ChainInv'
  BY <1>1, <1>2, <1>9 DEF BeginRead, feedVars, worldVars
<1>10. ASSUME NEW s \in Scan, NEW v, Adapter(s, v) PROVE ChainInv'
  BY <1>1, <1>2, <1>10 DEF Adapter, AdapterAnswers, feedVars, worldVars
<1>11. ASSUME NEW s \in Scan, ScoreStep(s) PROVE ChainInv'
  BY <1>1, <1>2, <1>11 DEF ScoreStep, FindPairs, GasPrice, ScanThrows, Score, BuyQuote, SellQuote,
     QuoteFails, End, feedVars, worldVars
<1>12. ASSUME NEW r \in Reader, NEW t \in Token, Read(r, t) PROVE ChainInv'
  BY <1>0, <1>12, AskChained DEF Read, worldVars
<1>13. ASSUME NEW c \in Caller, NEW t \in Token, FeedStep(c, t) PROVE ChainInv'
  <2>1. At(c, t) = "loading" => Active(c, t) /\ After(c, t) = None
    BY DEF ChainInv, Chained, Active
  <2>2. Turn(c, t) => Active(c, t) /\ After(c, t) = None
    BY DEF Turn, Active, After
  <2>3. CASE FeedHit(c, t)
    BY <2>2, <2>3, SettleChained DEF FeedHit, Hit, Cached, Answered, worldVars
  <2>4. CASE FeedLoads(c, t)
    <3>1. 0 \in 0 .. MaxRetries
      BY FeedAssumption
    <3>. QED
      BY <2>2, <2>4, <3>1, RequestChained DEF FeedLoads, Load, worldVars
  <2>5. CASE FeedResponds(c, t)
    BY <2>1, <2>5, SettleChained DEF FeedResponds, Respond, Answered, worldVars
  <2>6. CASE FeedRetries(c, t)
    <3>1. calls[<<c, t>>].tries + 1 \in 0 .. MaxRetries
      BY <2>6, FeedAssumption DEF FeedRetries, Retry, ChainInv, ChainType, Calls
    <3>. QED
      BY <2>1, <2>6, <3>1, RequestChained DEF FeedRetries, Retry, worldVars
  <2>7. CASE FeedThrows(c, t)
    BY <2>1, <2>7, SettleChained DEF FeedThrows, Throw, worldVars
  <2>. QED
    BY <1>13, <2>3, <2>4, <2>5, <2>6, <2>7 DEF FeedStep
<1>14. CASE UNCHANGED vars
  BY <1>1, <1>2, <1>14 DEF vars, feedVars, worldVars
<1>. QED
  BY <1>3, <1>4, <1>5, <1>6, <1>7, <1>8, <1>9, <1>10, <1>11, <1>12, <1>13, <1>14
     DEF Next, ScanStep, RefreshStep

(* Every request is at the head of its chain, and a chain has one head.       *)
LEMMA ChainMeaning == ChainInv => OneRequestPerToken
<1> SUFFICES ASSUME ChainInv, NEW t \in Token
             PROVE  Cardinality({c \in Caller : At(c, t) = "loading"}) <= 1
  BY DEF OneRequestPerToken
<1> DEFINE loading == {c \in Caller : At(c, t) = "loading"}
<1>1. \A c, d \in loading : c = d
  BY DEF ChainInv, Chained, Active
<1>2. CASE loading = {}
  BY <1>2, FS_EmptySet
<1>3. CASE loading # {}
  <2>1. PICK c : loading = {c}
    BY <1>1, <1>3
  <2>2. Cardinality({c}) = 1
    BY FS_Singleton
  <2>. QED
    BY <2>1, <2>2
<1>. QED
  BY <1>2, <1>3

(* dexscreener-feed.ts:173, for any number of callers, tokens, retries and    *)
(* scans beside each other: a token never has two requests on the way.        *)
THEOREM OneRequest == Spec => []OneRequestPerToken
<1>1. Init => ScanInv /\ ChainInv
  BY ScanInit, ChainInit
<1>2. ScanInv /\ ChainInv /\ [Next]_vars => (ScanInv /\ ChainInv)'
  BY ScanStepInv, ChainStep
<1>3. ScanInv /\ ChainInv => OneRequestPerToken
  BY ChainMeaning
<1>. QED
  BY <1>1, <1>2, <1>3, PTL DEF Spec

-----------------------------------------------------------------------------
(* The data a scan works with.                                                *)

Entries == [expires : Nat, pairs : Pairs]

DataInv ==
  /\ market \in [Pool -> Price]
  /\ since \in [Pool -> Nat]
  /\ cache \in [Token -> Entries]
  /\ dexPairs \in Pairs
  /\ poolCache \in [Pool -> CachedPool]

LEMMA DataInit == Init => DataInv
<1> SUFFICES ASSUME Init PROVE DataInv
  OBVIOUS
<1>1. market \in [Pool -> Price]
  BY SettingFacts DEF Init
<1>2. Unlisted \in Pairs
  BY FeedAssumption DEF Unlisted, Pairs
<1>3. NoEntry \in Entries
  BY <1>2 DEF NoEntry, Entries
<1>4. NoPool \in CachedPool
  BY FeedAssumption DEF NoPool, CachedPool
<1>. QED
  BY <1>1, <1>2, <1>3, <1>4 DEF Init, FeedInit, DataInv

LEMMA MarketPrice ==
  ASSUME DataInv, NEW p \in Pool PROVE market[p] \in Nat /\ market[p] > 0
<1>1. \A x \in Price : x \in Nat /\ x > 0
  BY ScanAssumption
<1>2. market[p] \in Price
  BY DEF DataInv
<1>. QED
  BY <1>1, <1>2

LEMMA ReadingType ==
  ASSUME DataInv, NEW p \in Pool PROVE Reading(p) \in CachedPool
<1>1. market[p] \in Nat \ {0} /\ Unit \in Nat \ {0} /\ dexPairs[p] \in Level /\ Estimate[p] \in Level
  BY MarketPrice, ScanAssumption DEF DataInv, Pairs
<1>2. (Unit * Unit) \div market[p] \in Nat
  BY <1>1
<1>. QED
  BY <1>1, <1>2 DEF Reading, Price0Per1, CachedPool

LEMMA DataStep == ScanInv /\ ChainInv /\ DataInv /\ [Next]_vars => DataInv'
<1> SUFFICES ASSUME ScanInv, ChainInv, DataInv, [Next]_vars PROVE DataInv'
  OBVIOUS
<1> USE DEF DataInv, worldVars, feedVars, engineVars
<1>0. clock \in Nat /\ Ttl \in Nat
  BY FeedAssumption DEF ScanInv
<1>1. NoEntry \in Entries
  BY FeedAssumption DEF NoEntry, Entries, Unlisted, Pairs
<1>2. CASE Tick
  BY <1>2 DEF Tick
<1>3. ASSUME NEW p \in Pool, (\E x \in Price : Trade(p, x)) \/ \E l \in Level : Relist(p, l)
      PROVE  DataInv'
  <2>1. CASE \E x \in Price : Trade(p, x)
    BY <2>1 DEF Trade
  <2>2. CASE \E l \in Level : Relist(p, l)
    <3>1. since' \in [Pool -> Nat]
      BY <1>0, <2>2 DEF Relist
    <3>. QED
      BY <2>2, <3>1 DEF Relist
  <2>. QED
    BY <1>3, <2>1, <2>2
<1>4. ASSUME NEW s \in Scan, Begin(s) PROVE DataInv'
  BY <1>4 DEF Begin
<1>5. ASSUME NEW s \in Scan, RefreshStep(s) PROVE DataInv'
  BY <1>5 DEF RefreshStep, AskRefresh, BeginRead, AskPairs
<1>6. ASSUME NEW s \in Scan, NEW v, NEW read, AdapterAnswers(s, v, read) PROVE DataInv'
  <2>1. poolCache' \in [Pool -> CachedPool]
    BY <1>6, ReadingType DEF AdapterAnswers
  <2>. QED
    BY <1>6, <2>1 DEF AdapterAnswers
<1>7. ASSUME NEW s \in Scan, ScoreStep(s) PROVE DataInv'
  <2>1. CASE FindPairs(s)
    <3>1. NoPool \in CachedPool
      BY FeedAssumption DEF NoPool, CachedPool
    <3>2. poolCache' \in [Pool -> CachedPool]
      BY <2>1, <3>1 DEF FindPairs
    <3>. QED
      BY <2>1, <3>2 DEF FindPairs
  <2>2. CASE ~ FindPairs(s)
    BY <1>7, <2>2 DEF ScoreStep, GasPrice, ScanThrows, Score, BuyQuote, SellQuote, QuoteFails, End
  <2>. QED
    BY <2>1, <2>2
<1>8. ASSUME NEW r \in Reader, NEW t \in Token, Read(r, t) PROVE DataInv'
  BY <1>8 DEF Read
<1>9. ASSUME NEW c \in Caller, NEW t \in Token, NEW listed \in Pairs, Answered(c, t, listed),
             cache' \in [Token -> Entries]
      PROVE  DataInv'
  <2>1. CASE UNCHANGED dexPairs
    BY <1>9, <2>1 DEF Answered
  <2>2. CASE TakePairs(c, t, listed)
    <3>1. dexPairs' \in Pairs
      BY <1>9, <2>2 DEF TakePairs, Pairs
    <3>. QED
      BY <1>9, <3>1 DEF Answered
  <2>. QED
    BY <1>9, <2>1, <2>2 DEF Answered
<1>10. ASSUME NEW c \in Caller, NEW t \in Token, FeedStep(c, t) PROVE DataInv'
  <2>1. CASE FeedHit(c, t)
    <3>1. cache[t].pairs \in Pairs
      BY DEF Entries
    <3>. QED
      BY <1>9, <2>1, <3>1 DEF FeedHit, Hit
  <2>2. CASE FeedLoads(c, t)
    BY <1>1, <2>2 DEF FeedLoads, Load
  <2>3. CASE FeedResponds(c, t)
    <3>1. calls[<<c, t>>].pairs \in Pairs
      BY DEF ChainInv, ChainType, Calls
    <3>2. [expires |-> clock + Ttl, pairs |-> calls[<<c, t>>].pairs] \in Entries
      BY <1>0, <3>1 DEF Entries
    <3>. QED
      BY <1>9, <2>3, <3>1, <3>2 DEF FeedResponds, Respond
  <2>4. CASE FeedRetries(c, t)
    BY <2>4 DEF FeedRetries, Retry
  <2>5. CASE FeedThrows(c, t)
    BY <2>5 DEF FeedThrows, Throw
  <2>. QED
    BY <1>10, <2>1, <2>2, <2>3, <2>4, <2>5 DEF FeedStep
<1>11. CASE UNCHANGED vars
  BY <1>11 DEF vars
<1>. QED
  BY <1>2, <1>3, <1>4, <1>5, <1>6, <1>7, <1>8, <1>10, <1>11 DEF Next, ScanStep, Adapter

-----------------------------------------------------------------------------
(* A trade fits the smaller of its pools from the score to the candidate.     *)

Fits(size, tvl) == size >= MinTradeSize /\ size <= TvlCap(tvl)

TradeRecord ==
  [buy : Pool \cup {None}, sell : Pool \cup {None}, tvl : Nat, size : Int, boughtAt : Nat,
   got : Int]

Quoting(s) == scan[s].at \in {"buyQuote", "sellQuote"}

TradeInv ==
  /\ pairs \in [Scan -> SUBSET PoolPair]
  /\ out = [s \in Scan |-> out[s]]
  /\ \A s \in Scan : \A pair \in pairs[s] : pair.from.price > 0
  /\ trade \in [Scan -> TradeRecord]
  /\ \A s \in Scan : Quoting(s) => /\ {trade[s].buy, trade[s].sell} \subseteq Pool
                                    /\ Fits(trade[s].size, trade[s].tvl)
  /\ TradeWithinTvl

(* calcOptimalTradeSize: whatever the spread, the cap of the pools is kept.   *)
LEMMA SizeWithinCap ==
  ASSUME NEW tvl \in Nat, NEW spread \in Int
  PROVE  OptimalSize(tvl, spread) \in Int /\ OptimalSize(tvl, spread) <= TvlCap(tvl)
<1>1. TvlCap(tvl) \in Int /\ TradeSize \in Int /\ MinTradeSize \in Int
  BY ScanAssumption DEF TvlCap, MinTradeSize
<1>2. KellyBps(spread) \in Int
  BY DEF KellyBps, Smaller
<1>3. TvlCap(tvl) * KellyBps(spread) \in Int
  BY <1>1, <1>2
<1>4. (TvlCap(tvl) * KellyBps(spread)) \div 10000 \in Int
  BY <1>3
<1>. QED
  BY <1>1, <1>4 DEF OptimalSize, Smaller, Larger

LEMMA SpreadType ==
  ASSUME NEW pair \in PoolPair, pair.from.price > 0
  PROVE  SpreadBps(pair) \in Int /\ Tvl(pair) \in Nat
<1>1. pair.from.price \in Nat /\ pair.to.price \in Nat /\ pair.from.price > 0
  BY DEF PoolPair, CachedPool
<1>3. pair.from.liq \in Nat /\ pair.to.liq \in Nat
  <2>1. pair.from.liq \in Level /\ pair.to.liq \in Level
    BY DEF PoolPair, CachedPool
  <2>. QED
    BY <2>1, FeedAssumption
<1>2. (pair.to.price - pair.from.price) * 10000 \in Int
  BY <1>1
<1>. QED
  BY <1>1, <1>2, <1>3 DEF SpreadBps, Tvl, Smaller

(* findCrossVenuePairs, after killDeadPools, pairs pools with a price.        *)
LEMMA CrossVenueType ==
  ASSUME DataInv, NEW pair \in CrossVenuePairs
  PROVE  pair \in PoolPair /\ pair.from.price > 0
<1>1. PICK k \in Pool \X Pool :
        /\ Crosses(k[1], k[2])
        /\ pair = [buy |-> k[1], sell |-> k[2], from |-> poolCache[k[1]], to |-> poolCache[k[2]]]
  BY DEF CrossVenuePairs
<1>2. k[1] \in Pool /\ k[2] \in Pool
  OBVIOUS
<1>3. poolCache[k[1]] \in CachedPool /\ poolCache[k[2]] \in CachedPool
  BY <1>2 DEF DataInv
<1>4. poolCache[k[1]].price > 0
  BY <1>1 DEF Crosses, Alive
<1>. QED
  BY <1>1, <1>2, <1>3, <1>4 DEF PoolPair

\* The pools a quote may come from are pools.
LEMMA QuotedPools ==
  ASSUME NEW pool \in Pool
  PROVE  Quoted(pool) \subseteq Pool
BY ScanAssumption DEF Quoted

LEMMA BuysType ==
  ASSUME DataInv, NEW p \in Pool, NEW size \in Int
  PROVE  Buys(size, market[p]) \in Int /\ market[p] \in Nat
<1>1. market[p] \in Nat /\ market[p] > 0 /\ Unit \in Int /\ FeeBps \in Int
  <2>1. \A x \in Price : x \in Nat /\ x > 0
    BY ScanAssumption
  <2>2. market[p] \in Price
    BY DEF DataInv
  <2>3. Unit \in Int
    BY ScanAssumption
  <2>4. FeeBps \in Int
    BY ScanAssumption
  <2>. QED
    BY <2>1, <2>2, <2>3, <2>4
<1>2. (size * Unit) \div market[p] \in Int
  BY <1>1
<1>3. (10000 - FeeBps) * ((size * Unit) \div market[p]) \in Int
  BY <1>1, <1>2
<1>. QED
  BY <1>1, <1>3 DEF Buys, AfterFee, Of

LEMMA TradeInit == Init => TradeInv
<1>1. NoTrade \in TradeRecord
  BY DEF NoTrade, TradeRecord
<1>. QED
  BY <1>1 DEF Init, TradeInv, TradeWithinTvl, Quoting, Idle

LEMMA TradeStep == ScanInv /\ DataInv /\ TradeInv /\ [Next]_vars => TradeInv'
<1> SUFFICES ASSUME ScanInv, DataInv, TradeInv, [Next]_vars PROVE TradeInv'
  OBVIOUS
<1> USE DEF TradeInv, TradeWithinTvl
<1>1. ASSUME UNCHANGED <<pairs, trade, out>>, \A s \in Scan : Quoting(s)' => Quoting(s)
      PROVE  TradeInv'
  BY <1>1
<1>2. CASE UNCHANGED <<scan, pairs, trade, out>>
  BY <1>1, <1>2 DEF Quoting
<1>3. scan \in [Scan -> ScanRecord]
  BY DEF ScanInv
<1>4. ASSUME NEW s \in Scan, Begin(s) PROVE TradeInv'
  BY <1>1, <1>3, <1>4 DEF Begin, Quoting, ScanRecord
<1>5. ASSUME NEW s \in Scan, RefreshStep(s) PROVE TradeInv'
  <2>1. \A x \in Scan : scan'[x].at = scan[x].at
    <3>1. CASE AskRefresh(s)
      <4>1. scan' = [scan EXCEPT ![s].next = @ + 1]
        BY <3>1 DEF AskRefresh
      <4>. QED
        BY <1>3, <4>1 DEF ScanRecord
    <3>2. CASE BeginRead(s)
      <4>1. PICK d : scan' = [scan EXCEPT ![s].dex = d]
        BY <3>2 DEF BeginRead
      <4>. QED
        BY <1>3, <4>1 DEF ScanRecord
    <3>3. CASE AskPairs(s)
      BY <3>3 DEF AskPairs, engineVars
    <3>. QED
      BY <1>5, <3>1, <3>2, <3>3 DEF RefreshStep
  <2>. QED
    BY <1>1, <1>5, <2>1 DEF RefreshStep, AskRefresh, BeginRead, AskPairs, engineVars, Quoting
<1>6. ASSUME NEW s \in Scan, NEW v, NEW read, AdapterAnswers(s, v, read) PROVE TradeInv'
  BY <1>1, <1>3, <1>6 DEF AdapterAnswers, Quoting, ScanRecord
<1>7. ASSUME NEW c \in Caller, NEW t \in Token, FeedStep(c, t) PROVE TradeInv'
  <2>1. \A x \in Scan : scan'[x].at = scan[x].at
    <3>1. CASE UNCHANGED scan
      BY <3>1
    <3>2. CASE c \in Scan /\ \E d, n : scan' = [scan EXCEPT ![c].read = n, ![c].dex = d]
      BY <1>3, <3>2 DEF ScanRecord
    <3>3. CASE c \in Scan /\ \E d, n : scan' = [scan EXCEPT ![c].dex = d, ![c].workers = n]
      BY <1>3, <3>3 DEF ScanRecord
    <3>. QED
      BY <1>7, <3>1, <3>2, <3>3 DEF FeedStep, FeedHit, FeedLoads, FeedResponds, FeedRetries,
                                    FeedThrows, Answered, TakePairs, engineVars
  <2>. QED
    BY <1>1, <1>7, <2>1 DEF FeedStep, FeedHit, FeedLoads, FeedResponds, FeedRetries, FeedThrows,
                            Answered, TakePairs, engineVars, Quoting
<1>8. ASSUME NEW s \in Scan, FindPairs(s) PROVE TradeInv'
  <2>1. \A x \in Scan : \A pair \in pairs'[x] : pair \in pairs[x] \/ pair \in CrossVenuePairs
    BY <1>8 DEF FindPairs
  <2>2. \A x \in Scan : Quoting(x)' => Quoting(x)
    BY <1>3, <1>8 DEF FindPairs, Quoting, ScanRecord
  <2>. QED
    BY <1>8, <2>1, <2>2, CrossVenueType DEF FindPairs
<1>9. ASSUME NEW s \in Scan, GasPrice(s) \/ ScanThrows(s) \/ End(s) PROVE TradeInv'
  <2>1. /\ pairs' \in [Scan -> SUBSET PoolPair] /\ \A x \in Scan : pairs'[x] \subseteq pairs[x]
        /\ UNCHANGED <<trade, out>>
    BY <1>9 DEF GasPrice, ScanThrows, End
  <2>2. \A x \in Scan : Quoting(x)' => Quoting(x)
    BY <1>3, <1>9 DEF GasPrice, ScanThrows, End, Quoting, ScanRecord
  <2>. QED
    BY <2>1, <2>2
<1>10. ASSUME NEW s \in Scan, NEW pair \in pairs[s], Score(s, pair) PROVE TradeInv'
  <2> DEFINE size == OptimalSize(Tvl(pair), SpreadBps(pair))
  <2>1. pair \in PoolPair /\ Tvl(pair) \in Nat /\ size \in Int /\ size <= TvlCap(Tvl(pair))
    BY SpreadType, SizeWithinCap
  <2>2. /\ pairs' \in [Scan -> SUBSET PoolPair] /\ \A x \in Scan : pairs'[x] \subseteq pairs[x]
        /\ UNCHANGED out
    BY <1>10 DEF Score
  <2>3. CASE WorthQuoting(pair, size)
    <3>1. size >= MinTradeSize
      BY <2>3 DEF WorthQuoting
    <3> DEFINE new == [buy |-> pair.buy, sell |-> pair.sell, tvl |-> Tvl(pair), size |-> size,
                       boughtAt |-> 0, got |-> 0]
    <3>2. trade' = [trade EXCEPT ![s] = new] /\ scan' = [scan EXCEPT ![s].at = "buyQuote"]
      BY <1>10, <2>3 DEF Score
    <3>3. new \in TradeRecord /\ {new.buy, new.sell} \subseteq Pool /\ new.size = size /\ new.tvl = Tvl(pair)
      BY <2>1 DEF PoolPair, TradeRecord
    <3>4. Fits(new.size, new.tvl)
      BY <2>1, <3>1, <3>3 DEF Fits
    <3> HIDE DEF new, size
    <3>5. trade'[s] = new /\ \A x \in Scan \ {s} : trade'[x] = trade[x] /\ scan'[x] = scan[x]
      BY <3>2
    <3>6. trade' \in [Scan -> TradeRecord]
      BY <3>2, <3>3
    <3>7. \A x \in Scan : Quoting(x)' => /\ {trade'[x].buy, trade'[x].sell} \subseteq Pool
                                        /\ Fits(trade'[x].size, trade'[x].tvl)
      BY <3>3, <3>4, <3>5 DEF Quoting
    <3>. QED
      BY <2>2, <3>6, <3>7 DEF Fits
  <2>4. CASE ~ WorthQuoting(pair, size)
    <3>1. UNCHANGED <<scan, trade>>
      BY <1>10, <2>4 DEF Score
    <3>. QED
      BY <2>2, <3>1 DEF Quoting
  <2>. QED
    BY <2>3, <2>4
<1>11. ASSUME NEW s \in Scan, BuyQuote(s) PROVE TradeInv'
  <2>1. trade[s].buy \in Pool /\ trade[s].size \in Int /\ Fits(trade[s].size, trade[s].tvl)
    BY <1>11 DEF BuyQuote, Quoting, TradeRecord
  <2>p. PICK p \in Pool :
          trade' = [trade EXCEPT ![s].boughtAt = market[p],
                                 ![s].got = Buys(trade[s].size, market[p])]
    BY <1>11, <2>1, QuotedPools DEF BuyQuote
  <2>2. Buys(trade[s].size, market[p]) \in Int /\ market[p] \in Nat
    BY <2>1, BuysType
  <2>3. /\ trade' \in [Scan -> TradeRecord]
        /\ \A x \in Scan : /\ trade'[x].buy = trade[x].buy /\ trade'[x].sell = trade[x].sell
                            /\ trade'[x].size = trade[x].size /\ trade'[x].tvl = trade[x].tvl
    BY <2>p, <2>2, ZenonT(40) DEF TradeRecord
  <2>4. \A x \in Scan : Quoting(x)' => Quoting(x)
    BY <1>3, <1>11 DEF BuyQuote, Quoting, ScanRecord
  <2>5. UNCHANGED <<pairs, out>>
    BY <1>11 DEF BuyQuote
  <2>. QED
    BY <2>3, <2>4, <2>5 DEF Fits
<1>12. ASSUME NEW s \in Scan, SellQuote(s) \/ QuoteFails(s) PROVE TradeInv'
  <2>1. Quoting(s) /\ Fits(trade[s].size, trade[s].tvl)
    BY <1>12 DEF SellQuote, QuoteFails, Quoting
  <2>2. PICK quoted, soldAt :
          \/ out' = out
          \/ out' = [out EXCEPT ![s] = @ \cup {Found(s, quoted, soldAt)}]
    BY <1>12 DEF SellQuote, QuoteFails
  <2>3. /\ scan' = [scan EXCEPT ![s].at = "score"] /\ trade' = [trade EXCEPT ![s] = NoTrade]
        /\ UNCHANGED pairs
    BY <1>12 DEF SellQuote, QuoteFails
  <2>4. NoTrade \in TradeRecord
    BY DEF TradeRecord, NoTrade
  <2>5. trade' \in [Scan -> TradeRecord] /\ \A x \in Scan \ {s} : trade'[x] = trade[x]
    BY <2>3, <2>4
  <2>6. \A x \in Scan : Quoting(x)' => x # s /\ Quoting(x)
    BY <1>3, <2>3 DEF Quoting, ScanRecord
  <2>7. Found(s, quoted, soldAt).size = trade[s].size /\ Found(s, quoted, soldAt).tvl = trade[s].tvl
    BY DEF Found
  <2>8. /\ out' = [x \in Scan |-> out'[x]]
        /\ \A x \in Scan : \A c \in out'[x] :
             c \in out[x] \/ (c.size = trade[s].size /\ c.tvl = trade[s].tvl)
    BY <2>2, <2>7
  <2>9. TradeWithinTvl'
    BY <2>1, <2>8 DEF Fits
  <2>. QED
    BY <2>3, <2>5, <2>6, <2>8, <2>9 DEF Fits
<1>13. CASE UNCHANGED vars
  BY <1>2, <1>13 DEF vars, engineVars
<1>14. CASE Tick \/ (\E r \in Reader, t \in Token : Read(r, t))
            \/ (\E p \in Pool : (\E x \in Price : Trade(p, x)) \/ \E l \in Level : Relist(p, l))
  BY <1>2, <1>14 DEF Tick, Read, Trade, Relist, engineVars
<1>. QED
  BY <1>4, <1>5, <1>6, <1>7, <1>8, <1>9, <1>10, <1>11, <1>12, <1>13, <1>14
     DEF Next, ScanStep, ScoreStep, Adapter

(* index.ts:174-190, 498-508, for any pools, prices, liquidity and costs: a   *)
(* candidate, quoted or not, never trades more than 2% of its smaller pool.   *)
THEOREM WithinTvl == Spec => []TradeWithinTvl
<1>1. Init => ScanInv /\ ChainInv /\ DataInv /\ TradeInv
  BY ScanInit, ChainInit, DataInit, TradeInit
<1>2. ScanInv /\ ChainInv /\ DataInv /\ TradeInv /\ [Next]_vars
        => (ScanInv /\ ChainInv /\ DataInv /\ TradeInv)'
  BY ScanStepInv, ChainStep, DataStep, TradeStep
<1>3. TradeInv => TradeWithinTvl
  BY DEF TradeInv
<1>. QED
  BY <1>1, <1>2, <1>3, PTL DEF Spec

-----------------------------------------------------------------------------
(* What two quotes that succeeded promise.                                    *)

(* A fee is a part of the amount it is taken from.                            *)
LEMMA FeeTakes ==
  ASSUME NEW amount \in Nat
  PROVE  AfterFee(amount) \in Int /\ AfterFee(amount) <= amount
<1> DEFINE keep == 10000 - FeeBps
<1>1. keep \in Nat /\ keep <= 10000
  <2>1. FeeBps \in 0 .. 10000
    BY ScanAssumption, SMTT(60)
  <2>2. QED
    BY <2>1
<1> DEFINE kept == keep * amount
<1>3. AfterFee(amount) = kept \div 10000
  BY DEF AfterFee, Of
<1> HIDE DEF keep
<1>2. keep * amount \in Nat /\ keep * amount <= 10000 * amount
  <2>1. (10000 - keep) * amount >= 0
    BY <1>1
  <2>2. (10000 - keep) * amount = 10000 * amount - keep * amount
    BY <1>1
  <2>3. keep * amount \in Nat
    BY <1>1
  <2>. QED
    BY <2>1, <2>2, <2>3
<1> HIDE DEF kept
<1>4. kept \in Nat /\ kept <= 10000 * amount
  BY <1>2 DEF kept
<1>5. kept \div 10000 \in Int /\ kept \div 10000 <= amount
  BY <1>4
<1>. QED
  BY <1>3, <1>5

(* The whole of a quotient times its divisor is not more than the dividend.   *)
LEMMA QuotientFits ==
  ASSUME NEW a \in Nat, NEW b \in Nat \ {0}
  PROVE  a \div b \in Nat /\ (a \div b) * b <= a
OBVIOUS

(* What is bought at a price and sold at no higher one is not worth more.     *)
LEMMA NoGain ==
  ASSUME NEW size \in Nat, NEW high \in Nat \ {0}, NEW low \in Nat, low <= high
  PROVE  Sells(Buys(size, high), low) <= size
<1>0. Unit \in Nat \ {0}
  BY ScanAssumption
<1> DEFINE gross == (size * Unit) \div high
           got == AfterFee(gross)
<1>1. size * Unit \in Nat
  BY <1>0
<1>2. gross \in Nat /\ gross * high <= size * Unit
  BY <1>1, QuotientFits
<1> HIDE DEF gross
<1>3. got \in Nat /\ got <= gross
  <2>1. got \in Int /\ got <= gross
    BY <1>2, FeeTakes
  <2>2. got >= 0
    <3>1. 10000 - FeeBps \in Nat
      BY ScanAssumption
    <3>2. (10000 - FeeBps) * gross \in Nat
      BY <1>2, <3>1
    <3> DEFINE kept == (10000 - FeeBps) * gross
    <3>3. got = kept \div 10000
      BY DEF AfterFee, Of
    <3> HIDE DEF kept
    <3>. QED
      BY <3>2, <3>3 DEF kept
  <2>. QED
    BY <2>1, <2>2
<1> HIDE DEF got
<1>4. got * low <= gross * high
  <2>1. got * low <= gross * low
    <3>1. (gross - got) * low >= 0
      BY <1>2, <1>3
    <3>2. (gross - got) * low = gross * low - got * low
      BY <1>2, <1>3
    <3>. QED
      BY <1>2, <1>3, <3>1, <3>2
  <2>2. gross * low <= gross * high
    <3>1. gross * (high - low) >= 0
      BY <1>2
    <3>2. gross * (high - low) = gross * high - gross * low
      BY <1>2
    <3>. QED
      BY <1>2, <3>1, <3>2
  <2>. QED
    BY <1>2, <1>3, <2>1, <2>2
<1>5. got * low \in Nat /\ got * low <= size * Unit
  BY <1>1, <1>2, <1>3, <1>4
<1> DEFINE sold == (got * low) \div Unit
<1>6. sold \in Nat /\ sold <= size
  <2>1. sold \in Nat /\ sold * Unit <= got * low
    BY <1>0, <1>5, QuotientFits
  <2> HIDE DEF sold
  <2>2. sold * Unit <= size * Unit
    BY <1>0, <1>1, <1>5, <2>1
  <2>3. sold <= size
    <3>1. SUFFICES ASSUME sold >= size + 1 PROVE FALSE
      BY <2>1
    <3>2. (sold - size - 1) * Unit >= 0
      BY <1>0, <2>1, <3>1
    <3>3. (sold - size - 1) * Unit = sold * Unit - size * Unit - Unit
      BY <1>0, <2>1
    <3>. QED
      BY <1>0, <1>1, <2>1, <2>2, <3>2, <3>3
  <2>. QED
    BY <2>1, <2>3
<1> HIDE DEF sold
<1>7. Buys(size, high) = got
  BY DEF Buys, got, gross
<1>8. Sells(got, low) = AfterFee(sold)
  BY DEF Sells, sold
<1>. QED
  BY <1>6, <1>7, <1>8, FeeTakes

LEMMA SellsType ==
  ASSUME NEW amount \in Int, NEW price \in Nat PROVE Sells(amount, price) \in Int
<1>1. Unit \in Nat /\ Unit > 0 /\ 10000 - FeeBps \in Int
  BY ScanAssumption
<1> DEFINE gross == (amount * price) \div Unit
           keep == 10000 - FeeBps
<1>2. gross \in Int
  BY <1>1
<1>3. Sells(amount, price) = (keep * gross) \div 10000
  BY DEF Sells, AfterFee, Of
<1> HIDE DEF gross, keep
<1>4. keep * gross \in Int
  BY <1>1, <1>2 DEF keep
<1>. QED
  BY <1>3, <1>4

(* A scan at its second quote has bought what the first quote gave it.        *)
Bought(s) ==
  /\ trade[s].boughtAt \in Nat \ {0}
  /\ trade[s].size \in Nat
  /\ trade[s].got = Buys(trade[s].size, trade[s].boughtAt)

GainInv ==
  /\ out = [s \in Scan |-> out[s]]
  /\ \A s \in Scan : scan[s].at = "sellQuote" => Bought(s)
  /\ QuotedGains

LEMMA GainInit == Init => GainInv
  BY DEF Init, GainInv, QuotedGains, Idle

(* Where a step takes a scan: to the second quote only from the first.        *)
LEMMA SellQuoteEntered ==
  ASSUME ScanInv, [Next]_vars, NEW s \in Scan, scan'[s].at = "sellQuote"
  PROVE  scan[s].at = "sellQuote" \/ BuyQuote(s)
<1> USE DEF ScanInv, worldVars, engineVars
<1>1. ASSUME NEW x \in Scan, \E a : scan' = [scan EXCEPT ![x].at = a] /\ a # "sellQuote"
      PROVE  scan[s].at = "sellQuote"
  BY <1>1 DEF ScanRecord
<1>2. CASE UNCHANGED scan
  BY <1>2
<1>3. ASSUME NEW x \in Scan, Begin(x) PROVE scan[s].at = "sellQuote"
  BY <1>3 DEF Begin
<1>4. ASSUME NEW x \in Scan, RefreshStep(x) PROVE scan[s].at = "sellQuote"
  <2>1. CASE AskRefresh(x)
    BY <2>1 DEF AskRefresh, ScanRecord
  <2>2. CASE BeginRead(x)
    <3>1. PICK d : scan' = [scan EXCEPT ![x].dex = d]
      BY <2>2 DEF BeginRead
    <3>. QED
      BY <3>1 DEF ScanRecord
  <2>3. CASE AskPairs(x)
    BY <2>3 DEF AskPairs
  <2>. QED
    BY <1>4, <2>1, <2>2, <2>3 DEF RefreshStep
<1>5. ASSUME NEW x \in Scan, NEW v, NEW read, AdapterAnswers(x, v, read)
      PROVE  scan[s].at = "sellQuote"
  BY <1>5 DEF AdapterAnswers, ScanRecord
<1>6. ASSUME NEW x \in Scan, ScoreStep(x), ~BuyQuote(x) PROVE scan[s].at = "sellQuote"
  <2>1. CASE \E pair \in pairs[x] : Score(x, pair)
    BY <1>1, <1>2, <2>1 DEF Score
  <2>2. CASE FindPairs(x)
    BY <1>1, <2>2 DEF FindPairs
  <2>3. CASE GasPrice(x)
    BY <1>1, <2>3 DEF GasPrice
  <2>4. CASE ScanThrows(x)
    BY <1>1, <2>4 DEF ScanThrows
  <2>5. CASE SellQuote(x)
    BY <1>1, <2>5 DEF SellQuote
  <2>6. CASE QuoteFails(x) \/ End(x)
    BY <1>1, <2>6, ZenonT(40) DEF QuoteFails, End
  <2>. QED
    BY <1>6, <2>1, <2>2, <2>3, <2>4, <2>5, <2>6 DEF ScoreStep
<1>7. ASSUME NEW x \in Scan, x # s, BuyQuote(x) PROVE scan[s].at = "sellQuote"
  BY <1>7 DEF BuyQuote, ScanRecord
<1>8. ASSUME NEW c \in Caller, NEW t \in Token, FeedStep(c, t) PROVE scan[s].at = "sellQuote"
  <2>1. CASE UNCHANGED scan
    BY <2>1
  <2>2. CASE c \in Scan /\ \E d, n : scan' = [scan EXCEPT ![c].read = n, ![c].dex = d]
    BY <2>2 DEF ScanRecord
  <2>3. CASE c \in Scan /\ \E d, n : scan' = [scan EXCEPT ![c].dex = d, ![c].workers = n]
    BY <2>3 DEF ScanRecord
  <2>. QED
    BY <1>8, <2>1, <2>2, <2>3 DEF FeedStep, FeedHit, FeedLoads, FeedResponds, FeedRetries,
                                  FeedThrows, Answered, TakePairs
<1>9. CASE Tick \/ (\E c \in Reader, t \in Token : Read(c, t))
           \/ (\E p \in Pool : (\E x \in Price : Trade(p, x)) \/ \E l \in Level : Relist(p, l))
           \/ UNCHANGED vars
  BY <1>2, <1>9 DEF Tick, Read, Trade, Relist, vars
<1>. QED
  BY <1>3, <1>4, <1>5, <1>6, <1>7, <1>8, <1>9 DEF Next, ScanStep, Adapter

(* What a step does to the trades and the candidates of the scans.            *)
LEMMA GainStep == ScanInv /\ DataInv /\ TradeInv /\ GainInv /\ [Next]_vars => GainInv'
<1> SUFFICES ASSUME ScanInv, DataInv, TradeInv, GainInv, [Next]_vars PROVE GainInv'
  OBVIOUS
<1>1. ASSUME UNCHANGED <<trade, out>>, ~ \E s \in Scan : BuyQuote(s)
      PROVE  GainInv'
  BY <1>1, SellQuoteEntered DEF GainInv, QuotedGains, Bought
<1>2. ASSUME NEW s \in Scan, NEW pair \in pairs[s], Score(s, pair) PROVE GainInv'
  <2>1. /\ scan[s].at = "score" /\ UNCHANGED out
        /\ \A x \in Scan \ {s} : trade'[x] = trade[x]
    BY <1>2 DEF Score, TradeInv
  <2>2. \A x \in Scan : ~BuyQuote(x)
    BY <1>2 DEF Score, BuyQuote, TradeInv, ScanInv, ScanRecord
  <2>3. \A x \in Scan : scan'[x].at = "sellQuote" => scan[x].at = "sellQuote" /\ x # s
    BY <2>1, <2>2, SellQuoteEntered
  <2>. QED
    BY <2>1, <2>3 DEF GainInv, QuotedGains, Bought
<1>3. ASSUME NEW s \in Scan, BuyQuote(s) PROVE GainInv'
  <2>1. trade[s].buy \in Pool /\ trade[s].size \in Nat
    <3>1. trade[s].buy \in Pool /\ trade[s].size \in Int /\ trade[s].size >= MinTradeSize
      BY <1>3 DEF BuyQuote, Quoting, TradeInv, TradeRecord, Fits
    <3>. QED
      BY <3>1 DEF MinTradeSize
  <2>p. PICK p \in Pool :
          trade' = [trade EXCEPT ![s].boughtAt = market[p],
                                 ![s].got = Buys(trade[s].size, market[p])]
    BY <1>3, <2>1, QuotedPools DEF BuyQuote
  <2>2. market[p] \in Nat \ {0}
    BY MarketPrice
  <2>3. /\ trade'[s].boughtAt = market[p] /\ trade'[s].size = trade[s].size
        /\ trade'[s].got = Buys(trade[s].size, market[p])
    BY <2>p DEF TradeInv, TradeRecord
  <2>4. Bought(s)'
    BY <2>1, <2>2, <2>3 DEF Bought, Buys, AfterFee, Of
  <2>5. UNCHANGED out /\ \A x \in Scan \ {s} : trade'[x] = trade[x]
    BY <1>3, <2>p DEF BuyQuote, TradeInv
  <2>6. \A x \in Scan \ {s} : scan'[x].at = "sellQuote" => scan[x].at = "sellQuote"
    BY <1>3 DEF BuyQuote, ScanInv, ScanRecord
  <2>. QED
    BY <2>4, <2>5, <2>6 DEF GainInv, QuotedGains, Bought
<1>4. ASSUME NEW s \in Scan, SellQuote(s) \/ QuoteFails(s) PROVE GainInv'
  <2>p. PICK p \in Pool :
          SellQuote(s) => out' = IF Gains(s, market[p])
                                   THEN [out EXCEPT ![s] = @ \cup {Found(s, TRUE, market[p])}]
                                   ELSE out
    <3>1. trade[s].buy \in Pool /\ trade[s].sell \in Pool
      BY <1>4 DEF SellQuote, QuoteFails, TradeInv, Quoting
    <3>. QED
      BY <3>1, QuotedPools DEF SellQuote
  <2> DEFINE price == market[p]
  <2>1. /\ scan' = [scan EXCEPT ![s].at = "score"] /\ trade' = [trade EXCEPT ![s] = NoTrade]
    BY <1>4 DEF SellQuote, QuoteFails
  <2>2. \A x \in Scan : scan'[x].at = "sellQuote" => x # s /\ scan[x].at = "sellQuote" /\ trade'[x] = trade[x]
    BY <2>1 DEF TradeInv, ScanInv, ScanRecord
  <2>3. PICK c : /\ out' = out \/ out' = [out EXCEPT ![s] = @ \cup {c}]
                 /\ c.quoted => SellQuote(s) /\ Gains(s, price) /\ c = Found(s, TRUE, price)
    <3>1. CASE SellQuote(s)
      <4>1. CASE Gains(s, price)
        BY <2>p, <3>1, <4>1
      <4>2. CASE ~Gains(s, price)
        <5>1. out' = out /\ ~Found(s, FALSE, 0).quoted
          BY <2>p, <3>1, <4>2 DEF Found
        <5>. QED
          BY <5>1
      <4>. QED
        BY <4>1, <4>2
    <3>2. CASE QuoteFails(s)
      <4>1. out' = [out EXCEPT ![s] = @ \cup {Found(s, FALSE, 0)}] /\ ~Found(s, FALSE, 0).quoted
        BY <3>2 DEF QuoteFails, Found
      <4>. QED
        BY <4>1
    <3>. QED
      BY <1>4, <3>1, <3>2
  <2>4. c.quoted => c.boughtAt < c.soldAt
    <3> SUFFICES ASSUME c.quoted PROVE c.boughtAt < c.soldAt
      OBVIOUS
    <3>1. SellQuote(s) /\ Gains(s, price) /\ c = Found(s, TRUE, price)
      BY <2>3
    <3>2. Bought(s)
      BY <3>1 DEF SellQuote, GainInv
    <3>4. price \in Nat /\ GasUsd \in Nat
      BY MarketPrice, ScanAssumption
    <3>5. c.boughtAt = trade[s].boughtAt /\ c.soldAt = price
      BY <3>1 DEF Found
    <3> DEFINE sold == Sells(trade[s].got, price)
    <3>6. sold - trade[s].size > GasUsd
      BY <3>1 DEF Gains
    <3>7. sold \in Int
      <4>1. trade[s].got \in Int
        BY <3>1 DEF TradeInv, TradeRecord
      <4>. QED
        BY <3>4, <4>1, SellsType
    <3>8. price <= trade[s].boughtAt => sold <= trade[s].size
      BY <3>2, <3>4, NoGain DEF Bought
    <3> HIDE DEF sold, price
    <3>. QED
      BY <3>2, <3>4, <3>5, <3>6, <3>7, <3>8 DEF Bought
  <2>5. /\ out' = [x \in Scan |-> out'[x]]
        /\ \A x \in Scan : \A d \in out'[x] : d \in out[x] \/ d = c
    BY <2>3 DEF GainInv
  <2>6. QuotedGains'
    BY <2>4, <2>5 DEF QuotedGains, GainInv
  <2>7. \A x \in Scan : scan'[x].at = "sellQuote" => Bought(x)'
    BY <2>2 DEF GainInv, Bought
  <2>. QED
    BY <2>5, <2>6, <2>7 DEF GainInv
<1>5. \/ \E s \in Scan : BuyQuote(s) \/ SellQuote(s) \/ QuoteFails(s)
      \/ \E s \in Scan : \E pair \in pairs[s] : Score(s, pair)
      \/ UNCHANGED <<trade, out>>
  <2>1. ASSUME NEW s \in Scan, ScanStep(s)
        PROVE  \/ BuyQuote(s) \/ SellQuote(s) \/ QuoteFails(s)
               \/ \E pair \in pairs[s] : Score(s, pair)
               \/ UNCHANGED <<trade, out>>
    BY <2>1 DEF ScanStep, RefreshStep, AskRefresh, BeginRead, AskPairs, Adapter, AdapterAnswers,
                ScoreStep, FindPairs, GasPrice, ScanThrows, End, engineVars
  <2>2. ASSUME NEW c \in Caller, NEW t \in Token, FeedStep(c, t) PROVE UNCHANGED <<trade, out>>
    BY <2>2 DEF FeedStep, FeedHit, FeedLoads, FeedResponds, FeedRetries, FeedThrows, Answered,
                engineVars
  <2>3. ASSUME NEW s \in Scan, Begin(s) PROVE UNCHANGED <<trade, out>>
    BY <2>3 DEF Begin
  <2>. QED
    BY <2>1, <2>2, <2>3 DEF Next, Tick, Read, Trade, Relist, vars, engineVars
<1>. QED
  BY <1>1, <1>2, <1>3, <1>4, <1>5

(* index.ts:498-592, for any market, prices, costs and fees: a candidate with *)
(* two quotes buys lower than it sells, and no candidate is too large.        *)
THEOREM SoundCandidates == Spec => []CandidatesSound
<1>1. Init => ScanInv /\ ChainInv /\ DataInv /\ TradeInv /\ GainInv
  BY ScanInit, ChainInit, DataInit, TradeInit, GainInit
<1>2. ScanInv /\ ChainInv /\ DataInv /\ TradeInv /\ GainInv /\ [Next]_vars
        => (ScanInv /\ ChainInv /\ DataInv /\ TradeInv /\ GainInv)'
  BY ScanStepInv, ChainStep, DataStep, TradeStep, GainStep
<1>3. TradeInv /\ GainInv => CandidatesSound
  BY DEF TradeInv, GainInv, CandidatesSound
<1>. QED
  BY <1>1, <1>2, <1>3, PTL DEF Spec

-----------------------------------------------------------------------------
(* Whose answers are how old.                                                 *)

Called(c, t) == calls[<<c, t>>]
Targets == {Order[i] : i \in DOMAIN Order}

(* A call of a scan refreshes before the scan reads, or is its one read.      *)
Ordered(s, t) ==
  \/ Called(s, t).op = "refresh" /\ scan[s].dex \in {"refresh", "stale"}
  \/ /\ Called(s, t).op = "get" /\ scan[s].dex = "read"
     /\ scan[s].read <= Len(Order) /\ t = Order[scan[s].read]

(* A scan asks to refresh before it asks to read, and reads one token at a    *)
(* time; it has no pairs before it has read all, or given up.                 *)
Orderly(s) ==
  /\ scan[s].started <= clock
  /\ scan[s].dex \in {"refresh", "read"} => pairs[s] = {}
  /\ scan[s].dex \in {"read", "fresh"} => scan[s].next > Len(Order)
  /\ scan[s].dex = "refresh" => scan[s].read = 1
  /\ scan[s].at = "idle" =>
       scan[s].dex = "stale" /\ pairs[s] = {} /\ \A t \in Token : ~ Active(s, t)
  /\ \A t \in Token : Active(s, t) => Ordered(s, t)

(* The tokens of which a scan has had a refresh answered, and those it has    *)
(* read since.                                                                *)
Asked(s, t) ==
  \/ /\ scan[s].dex = "refresh" /\ ~ Active(s, t)
     /\ \E i \in DOMAIN Order : i < scan[s].next /\ Order[i] = t
  \/ scan[s].dex \in {"read", "fresh"} /\ t \in Targets

HasRead(s, t) ==
  \/ scan[s].dex = "read" /\ \E i \in DOMAIN Order : i < scan[s].read /\ Order[i] = t
  \/ scan[s].dex = "fresh" /\ t \in Targets

(* Every answer about t that is cached or on the way tells what is listed.    *)
Told(t, p) ==
  /\ cache[t].expires > 0 => cache[t].pairs[p] = listing[p]
  /\ \A c \in Caller : At(c, t) = "loading" => Called(c, t).pairs[p] = listing[p]

Informed(s) ==
  \A t \in Token : \A p \in Lists[t] : Steady(s, p) =>
    /\ At(s, t) = "loading" => Called(s, t).pairs[p] = listing[p]
    /\ Asked(s, t) => Told(t, p)
    /\ HasRead(s, t) /\ listing[p] > 0 => dexPairs[p] = listing[p]

Buried(s) ==
  scan[s].dex = "fresh" =>
    \A pair \in pairs[s] : \A p \in {pair.buy, pair.sell} :
      (\E t \in Targets : p \in Lists[t]) /\ Steady(s, p) => ~ listing[p] \in 1 .. MinLiquidity - 1

ListInv == \A s \in Scan : Orderly(s) /\ Informed(s) /\ Buried(s)

(* What a step does to the fields of scans that the answers depend on.        *)
SameRun(s) ==
  /\ scan'[s].started = scan[s].started /\ scan'[s].dex = scan[s].dex
  /\ scan'[s].next = scan[s].next /\ scan'[s].read = scan[s].read
  /\ scan'[s].at = "idle" <=> scan[s].at = "idle"

(* A step that asks nothing, answers nothing and lists nothing anew.          *)
Aside ==
  /\ UNCHANGED <<setting, listing, since, cache, calls, dexPairs>>
  /\ clock <= clock'
  /\ \A s \in Scan : SameRun(s) /\ pairs'[s] \subseteq pairs[s]

LEMMA StepKinds ==
  ASSUME ScanInv, TradeInv, [Next]_vars
  PROVE  \/ Aside
         \/ \E p \in Pool, l \in Level : Relist(p, l)
         \/ \E s \in Scan : \/ Begin(s) \/ AskRefresh(s) \/ BeginRead(s) \/ AskPairs(s)
                            \/ FindPairs(s)
         \/ \E r \in Reader, t \in Token : Read(r, t)
         \/ \E c \in Caller, t \in Token : FeedStep(c, t)
<1> USE DEF ScanInv, Aside, SameRun, worldVars, feedVars, engineVars
<1>1. CASE Tick
  BY <1>1 DEF Tick
<1>2. ASSUME NEW p \in Pool, NEW x \in Price, Trade(p, x) PROVE Aside
  BY <1>2 DEF Trade
<1>3. ASSUME NEW s \in Scan, NEW v, Adapter(s, v) PROVE Aside
  BY <1>3 DEF Adapter, AdapterAnswers, ScanRecord
<1>4. ASSUME NEW s \in Scan, ScoreStep(s), ~ FindPairs(s) PROVE Aside
  <2>1. /\ UNCHANGED <<setting, listing, since, cache, calls, dexPairs, clock>>
        /\ \/ scan' = scan
           \/ \E a : /\ scan' = [scan EXCEPT ![s].at = a]
                     /\ a # "idle" /\ scan[s].at # "idle"
        /\ \/ pairs' = pairs
           \/ pairs' = [pairs EXCEPT ![s] = {}]
           \/ \E pair : pairs' = [pairs EXCEPT ![s] = @ \ {pair}]
    BY <1>4 DEF ScoreStep, GasPrice, ScanThrows, Refreshed, Score, BuyQuote, SellQuote,
                QuoteFails, End
  <2>2. \A o \in Scan : SameRun(o)
    BY <2>1 DEF ScanRecord
  <2>3. \A o \in Scan : pairs'[o] \subseteq pairs[o]
    BY <2>1 DEF TradeInv
  <2>. QED
    BY <2>1, <2>2, <2>3
<1>5. CASE UNCHANGED vars
  BY <1>5 DEF vars
<1>. QED
  BY <1>1, <1>2, <1>3, <1>4, <1>5 DEF Next, ScanStep, RefreshStep

(* A promise that settles ends its call, and leaves the rest of the others.   *)
LEMMA SettleFrame ==
  ASSUME ChainInv, NEW c \in Caller, NEW t \in Token, Settle(c, t)
  PROVE  /\ ~ Active(c, t)'
         /\ \A d \in Caller, u \in Token : <<d, u>> # <<c, t>> =>
              /\ Called(d, u)'.at = Called(d, u).at
              /\ Called(d, u)'.op = Called(d, u).op
              /\ Called(d, u)'.pairs = Called(d, u).pairs
<1> DEFINE new(k) == IF k = <<c, t>> THEN NoCall
                     ELSE IF k[2] = t /\ calls[k].after = c THEN [calls[k] EXCEPT !.after = None]
                     ELSE calls[k]
<1>1. calls' = [k \in Caller \X Token |-> new(k)]
  BY DEF Settle
<1>2. new(<<c, t>>).at = "idle"
  BY DEF NoCall
<1>3. ASSUME NEW k \in Caller \X Token, k # <<c, t>>
      PROVE  new(k).at = calls[k].at /\ new(k).op = calls[k].op /\ new(k).pairs = calls[k].pairs
  <2>1. calls[k] \in Calls
    BY DEF ChainInv, ChainType
  <2>. QED
    BY <1>3, <2>1 DEF Calls
<1> HIDE DEF new
<1>. QED
  BY <1>1, <1>2, <1>3 DEF Called, Active, At

(* A call that is added leaves the others.                                    *)
LEMMA AskFrame ==
  ASSUME ChainInv, NEW c \in Caller, NEW t \in Token, NEW op, Ask(c, t, op)
  PROVE  /\ ~ Active(c, t) /\ Called(c, t)'.at = "waiting" /\ Called(c, t)'.op = op
         /\ \A d \in Caller, u \in Token : <<d, u>> # <<c, t>> => Called(d, u)' = Called(d, u)
<1> USE DEF Ask, Called, Active, At, Waiting, ChainInv, ChainType
<1>1. calls' = [calls EXCEPT ![<<c, t>>] = Waiting(op, tail[t])]
  OBVIOUS
<1>. QED
  BY <1>1

LEMMA RequestFrame ==
  ASSUME ChainInv, NEW c \in Caller, NEW t \in Token, NEW n, Request(c, t, n)
  PROVE  /\ Called(c, t)'.at = "loading" /\ Called(c, t)'.op = Called(c, t).op
         /\ Called(c, t)'.pairs = listing
         /\ \A d \in Caller, u \in Token : <<d, u>> # <<c, t>> => Called(d, u)' = Called(d, u)
<1>1. calls' = [calls EXCEPT ![<<c, t>>] =
         [op |-> calls[<<c, t>>].op, after |-> calls[<<c, t>>].after, at |-> "loading",
          tries |-> n, pairs |-> listing]]
  BY DEF Request
<1>. QED
  BY <1>1 DEF Called, ChainInv, ChainType

\* A scan that is reading waits for one answer.
LEMMA OneRead ==
  ASSUME NEW s \in Scan, Orderly(s), NEW t \in Token, NEW u \in Token, Active(s, t), Active(s, u),
         Called(s, t).op = "get"
  PROVE  t = u
BY DEF Orderly, Ordered

LEMMA TakeEffect ==
  ASSUME ScanInv, NEW s \in Scan, NEW t, NEW listed, TakePairs(s, t, listed)
  PROVE  /\ \A o \in Scan \ {s} : scan'[o] = scan[o]
         /\ scan'[s].read = scan[s].read + 1
         /\ scan'[s].dex = IF scan[s].read = Len(Order) THEN "fresh" ELSE "read"
         /\ scan'[s].started = scan[s].started /\ scan'[s].next = scan[s].next
         /\ scan'[s].at = scan[s].at
<1> DEFINE dex == IF scan[s].read = Len(Order) THEN "fresh" ELSE "read"
           one == [scan EXCEPT ![s].read = @ + 1]
<1>1. scan \in [Scan -> ScanRecord]
  BY DEF ScanInv
<1>2. scan' = [one EXCEPT ![s].dex = dex]
  BY DEF TakePairs
<1> HIDE DEF dex
<1>3. /\ one \in [Scan -> ScanRecord] /\ one[s].read = scan[s].read + 1
      /\ one[s].started = scan[s].started /\ one[s].next = scan[s].next /\ one[s].at = scan[s].at
      /\ \A o \in Scan \ {s} : one[o] = scan[o]
  BY <1>1 DEF ScanRecord
<1> HIDE DEF one
<1>4. /\ \A o \in Scan \ {s} : scan'[o] = scan[o]
      /\ scan'[s].read = scan[s].read + 1 /\ scan'[s].dex = dex
      /\ scan'[s].started = scan[s].started /\ scan'[s].next = scan[s].next
      /\ scan'[s].at = scan[s].at
  BY <1>2, <1>3 DEF ScanRecord
<1>. QED
  BY <1>4 DEF dex

LEMMA ThrowEffect ==
  ASSUME ScanInv, NEW c \in Caller, NEW t \in Token, FeedThrows(c, t)
  PROVE  /\ \A o \in Scan \ {c} : scan'[o] = scan[o]
         /\ c \in Scan => /\ scan'[c].dex = "stale" /\ scan'[c].at = scan[c].at
                          /\ scan'[c].started = scan[c].started
<1>1. CASE c \in Scan
  <2> DEFINE one == [scan EXCEPT ![c].dex = "stale"]
  <2>1. scan' = [one EXCEPT ![c].workers = @ - 1]
    BY <1>1 DEF FeedThrows
  <2>2. /\ one \in [Scan -> ScanRecord] /\ one[c].dex = "stale" /\ one[c].at = scan[c].at
        /\ one[c].started = scan[c].started
        /\ \A o \in Scan \ {c} : one[o] = scan[o]
    BY <1>1 DEF ScanInv, ScanRecord
  <2> HIDE DEF one
  <2>. QED
    BY <1>1, <2>1, <2>2 DEF ScanRecord
<1>2. CASE c \notin Scan
  BY <1>2 DEF FeedThrows
<1>. QED
  BY <1>1, <1>2

(* An Orderly scan whose calls and fields are left alone stays so.            *)
LEMMA OrderlyKept ==
  ASSUME NEW s \in Scan, Orderly(s), SameRun(s), setting' = setting, clock \in Nat, clock' \in Nat,
         scan[s].started \in Nat, clock <= clock', pairs'[s] \subseteq pairs[s],
         \A t \in Token : Active(s, t)' => Active(s, t) /\ Called(s, t)'.op = Called(s, t).op
  PROVE  Orderly(s)'
<1>1. Order' = Order
  BY DEF Order
<1>2. \A t \in Token : Active(s, t)' => Ordered(s, t)'
  BY <1>1 DEF Orderly, Ordered, SameRun
<1>. QED
  BY <1>1, <1>2 DEF Orderly, SameRun

LEMMA OrderlyStep ==
  ASSUME ScanInv, ChainInv, TradeInv, ListInv, [Next]_vars, NEW s \in Scan
  PROVE  Orderly(s)'
<1>0. /\ Orderly(s) /\ Scan \subseteq Caller /\ Scan \cap Reader = {} /\ clock \in Nat
      /\ scan \in [Scan -> ScanRecord] /\ scan[s].started \in Nat
      /\ Order \in Seq(Token) /\ Len(Order) \in Nat
      /\ \A o \in Scan : scan[o].next \in Nat \ {0} /\ scan[o].read \in Nat \ {0}
  BY ScanAssumption, SettingFacts, SMTT(20) DEF ScanInv, ScanRecord, ListInv
<1>1. CASE Aside
  <2>1. clock' \in Nat
    BY ScanStepInv DEF ScanInv
  <2>2. \A t \in Token : Active(s, t)' => Active(s, t) /\ Called(s, t)'.op = Called(s, t).op
    BY <1>1 DEF Aside, Active, At, Called
  <2>. QED
    BY <1>0, <1>1, <2>1, <2>2, OrderlyKept DEF Aside
<1>2. ASSUME NEW p \in Pool, NEW l \in Level, Relist(p, l) PROVE Orderly(s)'
  <2>1. UNCHANGED <<setting, clock, scan, pairs, calls>>
    BY <1>2 DEF Relist, feedVars, engineVars
  <2>. QED
    BY <1>0, <2>1, OrderlyKept DEF SameRun, Active, At, Called
<1>3. ASSUME NEW o \in Scan, Begin(o) PROVE Orderly(s)'
  <2>1. UNCHANGED <<setting, clock, pairs, calls>> /\ \A x \in Scan \ {o} : scan'[x] = scan[x]
    BY <1>3 DEF Begin, feedVars, worldVars
  <2>2. CASE s # o
    BY <1>0, <2>1, <2>2, OrderlyKept DEF SameRun, Active, At, Called
  <2>3. CASE s = o
    <3>1. /\ scan[s].at = "idle" /\ scan'[s].at = "refresh" /\ scan'[s].dex = "refresh"
          /\ scan'[s].started = clock /\ scan'[s].read = 1
      BY <1>0, <1>3, <2>3 DEF Begin
    <3>2. pairs'[s] = {} /\ \A t \in Token : ~ Active(s, t)'
      BY <1>0, <2>1, <3>1 DEF Orderly, Active, At
    <3>. QED
      BY <1>0, <2>1, <3>1, <3>2 DEF Orderly
  <2>. QED
    BY <2>2, <2>3
<1>4. ASSUME NEW c \in Caller, NEW t \in Token, NEW op, Ask(c, t, op), c # s, SameRun(s),
             UNCHANGED <<setting, clock, pairs>>
      PROVE  Orderly(s)'
  <2>1. \A u \in Token : Called(s, u)' = Called(s, u)
    BY <1>0, <1>4, AskFrame
  <2>. QED
    BY <1>0, <1>4, <2>1, OrderlyKept DEF Active, At, Called
<1>5. ASSUME NEW o \in Scan, AskRefresh(o) PROVE Orderly(s)'
  <2> DEFINE t == Order[scan[o].next]
  <2>1. t \in Token /\ o \in Caller /\ Ask(o, t, "refresh")
    BY <1>0, <1>5 DEF AskRefresh
  <2>2. UNCHANGED <<setting, clock, pairs>> /\ scan' = [scan EXCEPT ![o].next = @ + 1]
    BY <1>5 DEF AskRefresh, worldVars
  <2> HIDE DEF t
  <2>3. CASE s # o
    <3>1. SameRun(s)
      BY <2>2, <2>3 DEF SameRun
    <3>. QED
      BY <1>4, <2>1, <2>2, <2>3, <3>1
  <2>4. CASE s = o
    <3>1. /\ scan[s].at # "idle" /\ scan[s].dex # "read" /\ scan[s].next <= Len(Order)
      BY <1>5, <2>4 DEF AskRefresh
    <3>2. scan[s].dex \in {"refresh", "stale"}
      BY <1>0, <3>1 DEF Orderly, ScanRecord
    <3>3. /\ scan'[s].dex = scan[s].dex /\ scan'[s].started = scan[s].started
          /\ scan'[s].at = scan[s].at /\ scan'[s].read = scan[s].read
      BY <1>0, <2>2, <2>4 DEF ScanRecord
    <3>4. ASSUME NEW u \in Token, Active(s, u)' PROVE Called(s, u)'.op = "refresh"
      <4>1. CASE u = t
        BY <2>1, <2>4, <4>1, AskFrame
      <4>2. CASE u # t
        <5>1. Called(s, u)' = Called(s, u)
          BY <2>1, <2>4, <4>2, AskFrame
        <5>2. Active(s, u)
          BY <3>4, <5>1 DEF Active, At, Called
        <5>. QED
          BY <1>0, <3>1, <5>1, <5>2 DEF Orderly, Ordered
      <4>. QED
        BY <4>1, <4>2
    <3>. QED
      BY <1>0, <2>2, <3>1, <3>2, <3>3, <3>4 DEF Orderly, Ordered
  <2>. QED
    BY <2>3, <2>4
<1>6. ASSUME NEW o \in Scan, AskPairs(o) PROVE Orderly(s)'
  <2>1. PICK t \in Token : t = Order[scan[o].read] /\ o \in Caller /\ Ask(o, t, "get")
    BY <1>0, <1>6 DEF AskPairs
  <2>2. UNCHANGED <<setting, clock, pairs, scan>>
    BY <1>6 DEF AskPairs, worldVars, engineVars
  <2>3. CASE s # o
    BY <1>4, <2>1, <2>2, <2>3 DEF SameRun
  <2>4. CASE s = o
    <3>1. scan[s].dex = "read" /\ scan[s].read <= Len(Order) /\ \A u \in Token : ~ Active(s, u)
      BY <1>6, <2>4 DEF AskPairs, InFlight, Active
    <3>2. Order' = Order
      BY <2>2 DEF Order
    <3>3. ASSUME NEW u \in Token, Active(s, u)' PROVE u = t
      <4>1. u # t => Called(s, u)' = Called(s, u)
        BY <2>1, <2>4, AskFrame
      <4>. QED
        BY <3>1, <3>3, <4>1 DEF Active, At, Called
    <3>4. Called(s, t)'.op = "get"
      BY <2>1, <2>4, AskFrame
    <3>5. \A u \in Token : Active(s, u)' => Ordered(s, u)'
      BY <2>1, <2>2, <2>4, <3>1, <3>2, <3>3, <3>4 DEF Ordered
    <3>6. scan[s].at # "idle"
      BY <1>0, <3>1 DEF Orderly
    <3>. QED
      BY <1>0, <2>2, <3>2, <3>5, <3>6 DEF Orderly
  <2>. QED
    BY <2>3, <2>4
<1>7. ASSUME NEW o \in Scan, BeginRead(o) PROVE Orderly(s)'
  <2>1. PICK d \in {"fresh", "read"} : scan' = [scan EXCEPT ![o].dex = d]
    BY <1>7 DEF BeginRead
  <2>2. UNCHANGED <<setting, clock, pairs, calls>>
    BY <1>7 DEF BeginRead, feedVars, worldVars
  <2>3. CASE s # o
    BY <1>0, <2>1, <2>2, <2>3, OrderlyKept DEF SameRun, Active, At, Called
  <2>4. CASE s = o
    <3>1. /\ scan[s].dex = "refresh" /\ scan[s].next > Len(Order) /\ \A u \in Token : ~ Active(s, u)
      BY <1>7, <2>4 DEF BeginRead, InFlight, Active
    <3>2. /\ scan'[s].dex = d /\ scan'[s].started = scan[s].started /\ scan'[s].next = scan[s].next
          /\ scan'[s].at = scan[s].at
      BY <1>0, <2>1, <2>4 DEF ScanRecord
    <3>3. scan[s].at # "idle"
      BY <1>0, <3>1 DEF Orderly
    <3>4. Order' = Order /\ \A u \in Token : ~ Active(s, u)'
      BY <2>2, <3>1 DEF Order, Active, At
    <3>. QED
      BY <1>0, <2>2, <3>1, <3>2, <3>3, <3>4 DEF Orderly
  <2>. QED
    BY <2>3, <2>4
<1>8. ASSUME NEW o \in Scan, FindPairs(o) PROVE Orderly(s)'
  <2>1. UNCHANGED <<setting, clock, calls>> /\ scan' = [scan EXCEPT ![o].at = "gas"]
    BY <1>8 DEF FindPairs, feedVars, worldVars
  <2>2. scan[o].at # "idle" /\ scan[o].dex \in {"fresh", "stale"}
    BY <1>8 DEF FindPairs, Refreshed
  <2>3. SameRun(s)
    BY <1>0, <2>1, <2>2 DEF SameRun, ScanRecord
  <2>4. s # o => pairs'[s] = pairs[s]
    BY <1>8 DEF FindPairs, TradeInv
  <2>5. Order' = Order /\ \A u \in Token : Active(s, u)' = Active(s, u) /\ Called(s, u)' = Called(s, u)
    BY <2>1 DEF Order, Active, At, Called
  <2>. QED
    BY <1>0, <2>1, <2>2, <2>3, <2>4, <2>5 DEF Orderly, Ordered, SameRun
<1>9. ASSUME NEW r \in Reader, NEW t \in Token, Read(r, t) PROVE Orderly(s)'
  <2>1. r \in Caller /\ r # s /\ Ask(r, t, "get") /\ UNCHANGED <<setting, clock, pairs, scan>>
    BY <1>0, <1>9, ScanAssumption, SMTT(20) DEF Read, worldVars, engineVars
  <2>. QED
    BY <1>4, <2>1 DEF SameRun
<1>10. ASSUME NEW c \in Caller, NEW t \in Token, Active(c, t), Settle(c, t),
              NEW listed, Answered(c, t, listed)
       PROVE  Orderly(s)'
  <2>1. UNCHANGED <<setting, clock, pairs>>
    BY <1>10 DEF Answered, worldVars
  <2>2. /\ ~ Active(c, t)'
        /\ \A u \in Token : Active(s, u)' => /\ Active(s, u) /\ <<s, u>> # <<c, t>>
                                             /\ Called(s, u)'.op = Called(s, u).op
    BY <1>0, <1>10, SettleFrame, ZenonT(40) DEF Active, At, Called
  <2>3. CASE SameRun(s)
    BY <1>0, <2>1, <2>2, <2>3, OrderlyKept
  <2>4. CASE ~ SameRun(s)
    <3>1. c \in Scan /\ Called(c, t).op = "get" /\ TakePairs(c, t, listed)
      BY <1>10, <2>4 DEF Answered, SameRun, Called
    <3>2. c = s
      BY <2>4, <3>1, TakeEffect DEF SameRun
    <3>3. scan[s].dex = "read" /\ scan[s].at # "idle"
      BY <1>0, <1>10, <3>1, <3>2 DEF Orderly, Ordered
    <3>4. \A u \in Token : ~ Active(s, u)'
      BY <1>0, <1>10, <2>2, <3>1, <3>2, OneRead
    <3>5. /\ scan'[s].dex \in {"read", "fresh"} /\ scan'[s].started = scan[s].started
          /\ scan'[s].next = scan[s].next /\ scan'[s].at = scan[s].at
      BY <3>1, <3>2, TakeEffect
    <3>6. Order' = Order
      BY <2>1 DEF Order
    <3>. QED
      BY <1>0, <2>1, <3>3, <3>4, <3>5, <3>6 DEF Orderly
  <2>. QED
    BY <2>3, <2>4
<1>11. ASSUME NEW c \in Caller, NEW t \in Token, NEW n, Active(c, t), Request(c, t, n),
              UNCHANGED <<setting, clock, pairs, scan>>
       PROVE  Orderly(s)'
  <2>1. \A u \in Token : Active(s, u)' => Active(s, u) /\ Called(s, u)'.op = Called(s, u).op
    BY <1>0, <1>11, RequestFrame DEF Active, At, Called
  <2>. QED
    BY <1>0, <1>11, <2>1, OrderlyKept DEF SameRun
<1>12. ASSUME NEW c \in Caller, NEW t \in Token, FeedThrows(c, t) PROVE Orderly(s)'
  <2>1. UNCHANGED <<setting, clock, pairs>> /\ Settle(c, t) /\ Active(c, t)
    BY <1>12 DEF FeedThrows, Throw, worldVars, Active
  <2>2. \A u \in Token : Active(s, u)' => /\ Active(s, u) /\ <<s, u>> # <<c, t>>
                                          /\ Called(s, u)'.op = Called(s, u).op
    BY <1>0, <2>1, SettleFrame, ZenonT(40) DEF Active, At, Called
  <2>3. CASE s # c
    BY <1>0, <1>12, <2>1, <2>2, <2>3, ThrowEffect, OrderlyKept DEF SameRun
  <2>4. CASE s = c
    <3>1. scan'[s].dex = "stale" /\ scan'[s].at = scan[s].at /\ scan'[s].started = scan[s].started
      BY <1>12, <2>4, ThrowEffect
    <3>2. scan[s].at # "idle"
      BY <1>0, <2>1, <2>4 DEF Orderly
    <3>3. \A u \in Token : Active(s, u)' => Called(s, u)'.op = "refresh"
      BY <1>0, <2>1, <2>2, <2>4, OneRead DEF Orderly, Ordered
    <3>. QED
      BY <1>0, <2>1, <3>1, <3>2, <3>3 DEF Orderly, Ordered
  <2>. QED
    BY <2>3, <2>4
<1>13. ASSUME NEW c \in Caller, NEW t \in Token, FeedStep(c, t) PROVE Orderly(s)'
  <2>1. CASE FeedHit(c, t)
    BY <1>10, <2>1 DEF FeedHit, Hit, Cached, Turn, Active
  <2>2. CASE FeedLoads(c, t)
    BY <1>11, <2>2 DEF FeedLoads, Load, Turn, Active, worldVars, engineVars
  <2>3. CASE FeedResponds(c, t)
    BY <1>10, <2>3 DEF FeedResponds, Respond, Active
  <2>4. CASE FeedRetries(c, t)
    BY <1>11, <2>4 DEF FeedRetries, Retry, Active, worldVars, engineVars
  <2>. QED
    BY <1>12, <1>13, <2>1, <2>2, <2>3, <2>4 DEF FeedStep
<1>. QED
  BY <1>1, <1>2, <1>3, <1>5, <1>6, <1>7, <1>8, <1>9, <1>13, StepKinds

-----------------------------------------------------------------------------
(* No answer older than the scan.                                             *)

(* A scan stays informed where nothing is listed anew, nothing is asked for,  *)
(* and it has not gone further itself.                                        *)
LEMMA InformedKept ==
  ASSUME NEW s \in Scan, Scan \subseteq Caller, Lists \in [Token -> SUBSET Pool],
         Informed(s), UNCHANGED <<listing, since, cache, dexPairs>>,
         scan'[s].started = scan[s].started,
         \A c \in Caller, t \in Token : At(c, t)' = "loading" =>
           At(c, t) = "loading" /\ Called(c, t)'.pairs = Called(c, t).pairs,
         \A t \in Token : (Asked(s, t)' => Asked(s, t)) /\ (HasRead(s, t)' => HasRead(s, t))
  PROVE  Informed(s)'
<1> SUFFICES ASSUME NEW t \in Token, NEW p \in Lists[t], Steady(s, p)'
             PROVE  /\ At(s, t)' = "loading" => Called(s, t)'.pairs[p] = listing'[p]
                    /\ Asked(s, t)' => Told(t, p)'
                    /\ HasRead(s, t)' /\ listing'[p] > 0 => dexPairs'[p] = listing'[p]
  BY DEF Informed
<1>1. Steady(s, p) /\ p \in Pool
  BY DEF Steady
<1>. QED
  BY <1>1 DEF Informed, Told

(* A token of whose refresh a scan has an answer has no older answer on the   *)
(* way, so neither has a scan what it takes.                                  *)
LEMMA Taken ==
  ASSUME NEW s \in Scan, NEW o \in Scan, NEW t \in Token, NEW listed \in Pairs,
         ScanInv, Lists \in [Token -> SUBSET Pool], listing \in Pairs, dexPairs \in Pairs,
         Informed(s), Orderly(o), Active(o, t), Called(o, t).op = "get", TakePairs(o, t, listed),
         \A p \in Lists[t] : Asked(s, t) /\ Steady(s, p) => listed[p] = listing[p],
         UNCHANGED <<setting, listing, since>>
  PROVE  \A u \in Token : \A p \in Lists[u] :
           Steady(s, p) /\ HasRead(s, u)' /\ listing[p] > 0 => dexPairs'[p] = listing[p]
<1> SUFFICES ASSUME NEW u \in Token, NEW p \in Lists[u], Steady(s, p), HasRead(s, u)', listing[p] > 0
             PROVE  dexPairs'[p] = listing[p]
  OBVIOUS
<1>1. /\ Order' = Order /\ Order \in Seq(Token) /\ Len(Order) \in Nat /\ p \in Pool
      /\ scan[o].read \in Nat \ {0} /\ scan[o].dex = "read" /\ scan[o].read <= Len(Order)
      /\ t = Order[scan[o].read] /\ t \in Targets
  <2>1. scan[o].dex = "read" /\ scan[o].read <= Len(Order) /\ t = Order[scan[o].read]
    BY DEF Orderly, Ordered
  <2>2. scan[o].read \in Nat \ {0} /\ Order \in Seq(Token)
    BY SettingFacts DEF ScanInv, ScanRecord
  <2>3. scan[o].read \in DOMAIN Order
    BY <2>1, <2>2
  <2>. QED
    BY <2>1, <2>2, <2>3 DEF Order, Targets
<1>2. Asked(s, t)
  <2>1. scan'[s].dex \in {"read", "fresh"}
    BY DEF HasRead
  <2>2. scan[s].dex \in {"read", "fresh"}
    BY <1>1, <2>1, TakeEffect
  <2>. QED
    BY <1>1, <2>2 DEF Asked
<1>3. HasRead(s, u) \/ u = t
  <2>1. CASE s # o
    <3>1. scan'[s] = scan[s]
      BY <2>1, TakeEffect
    <3>. QED
      BY <1>1, <3>1 DEF HasRead, Targets
  <2>2. CASE s = o
    <3>1. PICK k \in DOMAIN Order : Order[k] = u /\ (scan'[s].dex = "read" => k < scan'[s].read)
      BY <1>1 DEF HasRead, Targets
    <3>2. k \in 1 .. Len(Order)
      BY <1>1, <3>1
    <3>3. k <= scan[s].read
      BY <1>1, <2>2, <3>1, <3>2, TakeEffect
    <3>4. k = scan[s].read \/ k < scan[s].read
      BY <1>1, <2>2, <3>2, <3>3
    <3>. QED
      BY <1>1, <2>2, <3>1, <3>4 DEF HasRead
  <2>. QED
    BY <2>1, <2>2
<1>4. dexPairs'[p] = IF p \in Lists[t] /\ listed[p] > 0 THEN listed[p] ELSE dexPairs[p]
  BY <1>1 DEF TakePairs
<1>5. CASE p \in Lists[t]
  BY <1>2, <1>4, <1>5
<1>6. CASE p \notin Lists[t]
  BY <1>3, <1>4, <1>6 DEF Informed
<1>. QED
  BY <1>5, <1>6

LEMMA InformedStep ==
  ASSUME ScanInv, ChainInv, DataInv, TradeInv, ListInv, [Next]_vars, NEW s \in Scan
  PROVE  Informed(s)'
<1>0. /\ Informed(s) /\ Orderly(s) /\ Scan \subseteq Caller /\ Scan \cap Reader = {}
      /\ Reader \subseteq Caller /\ Lists \in [Token -> SUBSET Pool] /\ clock \in Nat
      /\ scan \in [Scan -> ScanRecord] /\ scan[s].started \in Nat
      /\ Order \in Seq(Token) /\ Len(Order) \in Nat
      /\ \A o \in Scan : scan[o].next \in Nat \ {0} /\ scan[o].read \in Nat \ {0}
      /\ \A o \in Scan : Orderly(o)
      /\ listing \in Pairs /\ dexPairs \in Pairs
  <2>1. setting \in Settings /\ scan \in [Scan -> ScanRecord] /\ clock \in Nat
    BY DEF ScanInv
  <2>2. Order \in Seq(Token) /\ Len(Order) \in Nat
    BY <2>1, SettingFacts
  <2>3. /\ scan[s].started \in Nat
        /\ \A o \in Scan : scan[o].next \in Nat \ {0} /\ scan[o].read \in Nat \ {0}
    BY <2>1 DEF ScanRecord
  <2>4. listing \in Pairs /\ dexPairs \in Pairs
    BY DEF ChainInv, ChainType, DataInv
  <2>5. Informed(s) /\ \A o \in Scan : Orderly(o)
    BY DEF ListInv
  <2>. QED
    BY ScanAssumption, <2>1, <2>2, <2>3, <2>4, <2>5
<1>1. CASE Aside
  <2>1. Order' = Order /\ SameRun(s) /\ \A c \in Caller, t \in Token : Called(c, t)' = Called(c, t)
    BY <1>1 DEF Aside, Order, Called
  <2>2. ASSUME NEW t \in Token
        PROVE  (Asked(s, t)' => Asked(s, t)) /\ (HasRead(s, t)' => HasRead(s, t))
    <3>1. /\ scan'[s].dex = scan[s].dex /\ scan'[s].next = scan[s].next
          /\ scan'[s].read = scan[s].read
      BY <2>1 DEF SameRun
    <3>2. Active(s, t)' <=> Active(s, t)
      BY <1>0, <2>1 DEF Active, At, Called
    <3>3. Targets' = Targets
      BY <2>1 DEF Targets
    <3>4. Asked(s, t)' => Asked(s, t)
      BY <2>1, <3>1, <3>2, <3>3 DEF Asked
    <3>5. HasRead(s, t)' => HasRead(s, t)
      BY <2>1, <3>1, <3>3 DEF HasRead
    <3>. QED
      BY <3>4, <3>5
  <2>3. UNCHANGED <<listing, since, cache, dexPairs>> /\ scan'[s].started = scan[s].started
    BY <1>1, <2>1 DEF Aside, SameRun
  <2>4. \A c \in Caller, t \in Token : At(c, t)' = "loading" =>
          At(c, t) = "loading" /\ Called(c, t)'.pairs = Called(c, t).pairs
    BY <2>1 DEF At, Called
  <2>. QED
    BY <1>0, <2>2, <2>3, <2>4, InformedKept
<1>2. ASSUME NEW q \in Pool, NEW l \in Level, Relist(q, l) PROVE Informed(s)'
  <2>1. /\ UNCHANGED <<setting, scan, cache, calls, dexPairs>>
        /\ \A p \in Pool \ {q} : listing'[p] = listing[p]
    BY <1>0, <1>2 DEF Relist, feedVars, engineVars, Pairs
  <2>2. \A p \in Pool : Steady(s, p)' => p # q /\ Steady(s, p)
    <3>1. scan[s].started <= clock /\ since' = [since EXCEPT ![q] = clock]
      BY <1>0, <1>2 DEF Relist, Orderly
    <3>. QED
      BY <1>0, <2>1, <3>1 DEF Steady, DataInv
  <2>. QED
    BY <1>0, <2>1, <2>2 DEF Informed, Told, Asked, HasRead, Targets, Order, Active, At, Called
<1>3. ASSUME NEW o \in Scan, Begin(o) PROVE Informed(s)'
  <2>1. /\ UNCHANGED <<setting, listing, since, cache, calls, dexPairs>>
        /\ \A x \in Scan \ {o} : scan'[x] = scan[x]
    BY <1>3 DEF Begin, feedVars, worldVars
  <2>2. CASE s # o
    BY <1>0, <2>1, <2>2, InformedKept DEF Asked, HasRead, Targets, Order, Active, At, Called
  <2>3. CASE s = o
    <3>1. scan'[s].dex = "refresh" /\ scan'[s].next = 1 /\ \A t \in Token : ~ Active(s, t)
      BY <1>0, <1>3, <2>3 DEF Begin, Orderly
    <3>2. \A t \in Token : ~ Asked(s, t)' /\ ~ HasRead(s, t)' /\ At(s, t)' # "loading"
      <4>1. \A i \in DOMAIN Order : ~ i < 1
        BY <1>0
      <4>. QED
        BY <2>1, <3>1, <4>1 DEF Asked, HasRead, Order, Active, At
    <3>. QED
      BY <3>2 DEF Informed
  <2>. QED
    BY <2>2, <2>3
<1>4. ASSUME NEW c \in Caller, NEW t \in Token, NEW op, Ask(c, t, op),
             UNCHANGED <<setting, listing, since, cache, dexPairs>>,
             scan'[s].started = scan[s].started, scan'[s].dex = scan[s].dex,
             scan'[s].read = scan[s].read,
             scan'[s].next = scan[s].next \/ (c = s /\ t = Order[scan[s].next] /\ scan'[s].next = scan[s].next + 1)
      PROVE  Informed(s)'
  <2>1. /\ Called(c, t)'.at = "waiting"
        /\ \A d \in Caller, u \in Token : <<d, u>> # <<c, t>> => Called(d, u)' = Called(d, u)
    BY <1>0, <1>4, AskFrame DEF Called
  <2>2. \A d \in Caller, u \in Token : At(d, u)' = "loading" =>
          At(d, u) = "loading" /\ Called(d, u)'.pairs = Called(d, u).pairs
    BY <2>1 DEF At, Called
  <2>3. Order' = Order /\ Targets' = Targets
    BY <1>4 DEF Order, Targets
  <2>4. ASSUME NEW u \in Token PROVE Asked(s, u)' => Asked(s, u)
    <3>1. CASE <<s, u>> = <<c, t>>
      <4>1. Active(s, u)'
        BY <2>1, <3>1 DEF Active, At, Called
      <4>. QED
        BY <1>4, <2>3, <4>1 DEF Asked
    <3>2. CASE <<s, u>> # <<c, t>>
      <4>1. Active(s, u)' = Active(s, u)
        BY <1>0, <2>1, <3>2 DEF Active, At, Called
      <4>2. ASSUME NEW k \in DOMAIN Order, k < scan'[s].next, Order[k] = u PROVE k < scan[s].next
        <5>1. k \in Nat
          BY <1>0
        <5>. QED
          BY <1>0, <1>4, <3>2, <4>2, <5>1
      <4>. QED
        BY <1>4, <2>3, <4>1, <4>2 DEF Asked
    <3>. QED
      BY <3>1, <3>2
  <2>5. \A u \in Token : HasRead(s, u)' => HasRead(s, u)
    BY <1>4, <2>3 DEF HasRead
  <2>. QED
    BY <1>0, <1>4, <2>2, <2>4, <2>5, InformedKept
<1>5. ASSUME NEW o \in Scan, AskRefresh(o) PROVE Informed(s)'
  <2>1. PICK t \in Token : t = Order[scan[o].next] /\ o \in Caller /\ Ask(o, t, "refresh")
    BY <1>0, <1>5 DEF AskRefresh
  <2>2. /\ UNCHANGED <<setting, listing, since, cache, dexPairs>>
        /\ scan' = [scan EXCEPT ![o].next = @ + 1]
    BY <1>5 DEF AskRefresh, worldVars
  <2>3. /\ scan'[s].started = scan[s].started /\ scan'[s].dex = scan[s].dex
        /\ scan'[s].read = scan[s].read
        /\ scan'[s].next = scan[s].next \/ (o = s /\ scan'[s].next = scan[s].next + 1)
    BY <1>0, <2>2 DEF ScanRecord
  <2>. QED
    BY <1>4, <2>1, <2>2, <2>3
<1>6. ASSUME NEW o \in Scan, AskPairs(o) PROVE Informed(s)'
  <2>1. PICK t \in Token : o \in Caller /\ Ask(o, t, "get")
    BY <1>0, <1>6 DEF AskPairs
  <2>. QED
    BY <1>4, <1>6, <2>1 DEF AskPairs, worldVars, engineVars
<1>7. ASSUME NEW o \in Scan, BeginRead(o) PROVE Informed(s)'
  <2>1. PICK d \in {"fresh", "read"} :
          scan' = [scan EXCEPT ![o].dex = d] /\ (d = "fresh" => Order = <<>>)
    BY <1>7 DEF BeginRead
  <2>2. UNCHANGED <<setting, listing, since, cache, calls, dexPairs>>
    BY <1>7 DEF BeginRead, feedVars, worldVars
  <2>3. Order' = Order /\ Targets' = Targets
    BY <2>2 DEF Order, Targets
  <2>4. CASE s # o
    BY <1>0, <2>1, <2>2, <2>3, <2>4, InformedKept DEF Asked, HasRead, Active, At, Called
  <2>5. CASE s = o
    <3>1. /\ scan[s].dex = "refresh" /\ scan[s].next > Len(Order) /\ \A u \in Token : ~ Active(s, u)
      BY <1>7, <2>5 DEF BeginRead, InFlight, Active
    <3>2. /\ scan'[s].dex = d /\ scan'[s].started = scan[s].started /\ scan'[s].read = scan[s].read
      BY <1>0, <2>1, <2>5 DEF ScanRecord
    <3>3. \A u \in Targets : Asked(s, u)
      BY <1>0, <3>1 DEF Asked, Targets
    <3>4. ASSUME NEW u \in Token PROVE Asked(s, u)' => Asked(s, u)
      BY <2>1, <2>3, <3>2, <3>3 DEF Asked
    <3>5. ASSUME NEW u \in Token, NEW p \in Lists[u], HasRead(s, u)', Steady(s, p), listing[p] > 0
          PROVE  dexPairs[p] = listing[p]
      <4>1. scan[s].read = 1
        BY <1>0, <3>1 DEF Orderly
      <4>2. ~ \E k \in DOMAIN Order : k < 1
        BY <1>0
      <4>3. Order = <<>> => Targets = {}
        BY DEF Targets
      <4>4. ~ HasRead(s, u)'
        BY <2>1, <2>3, <3>2, <4>1, <4>2, <4>3 DEF HasRead
      <4>. QED
        BY <3>5, <4>4
    <3>6. \A c \in Caller, t \in Token : Called(c, t)' = Called(c, t)
      BY <2>2 DEF Called
    <3>. QED
      BY <1>0, <2>2, <3>2, <3>4, <3>5, <3>6 DEF Informed, Told, Steady, At, Called
  <2>. QED
    BY <2>4, <2>5
<1>8. ASSUME NEW o \in Scan, FindPairs(o) PROVE Informed(s)'
  <2>1. UNCHANGED <<setting, listing, since, cache, calls, dexPairs>> /\ scan' = [scan EXCEPT ![o].at = "gas"]
    BY <1>8 DEF FindPairs, feedVars, worldVars
  <2>2. /\ scan'[s].dex = scan[s].dex /\ scan'[s].started = scan[s].started
        /\ scan'[s].read = scan[s].read /\ scan'[s].next = scan[s].next
    BY <1>0, <2>1 DEF ScanRecord
  <2>. QED
    BY <1>0, <2>1, <2>2, InformedKept DEF Asked, HasRead, Targets, Order, Active, At, Called
<1>9. ASSUME NEW r \in Reader, NEW t \in Token, Read(r, t) PROVE Informed(s)'
  BY <1>0, <1>4, <1>9 DEF Read, worldVars, engineVars
<1>10. ASSUME NEW c \in Caller, NEW t \in Token, Active(c, t), Settle(c, t), NEW listed \in Pairs,
              Answered(c, t, listed),
              \A p \in Lists[t] : Asked(s, t) /\ Steady(s, p) => listed[p] = listing[p],
              \A u \in Token \ {t} : cache'[u] = cache[u],
              cache'[t] = cache[t] \/ cache'[t].pairs = listed,
              At(c, t) = "loading" =>
                \A p \in Lists[t] : c = s /\ Steady(s, p) => cache'[t].pairs[p] = listing[p],
              At(c, t) = "loading" \/ Called(c, t).op = "get"
       PROVE  Informed(s)'
  <2>1. UNCHANGED <<setting, listing, since>> /\ Order' = Order /\ Targets' = Targets
    BY <1>10 DEF Answered, worldVars, Order, Targets
  <2>2. /\ ~ Active(c, t)'
        /\ \A d \in Caller, u \in Token : <<d, u>> # <<c, t>> =>
             Called(d, u)'.at = Called(d, u).at /\ Called(d, u)'.pairs = Called(d, u).pairs
    BY <1>10, SettleFrame
  <2>3. \A d \in Caller, u \in Token : At(d, u)' = "loading" =>
          /\ <<d, u>> # <<c, t>> /\ At(d, u) = "loading"
          /\ Called(d, u)'.pairs = Called(d, u).pairs
    BY <2>2 DEF Active, At, Called
  <2>4. scan'[s].started = scan[s].started
    BY <1>0, <1>10, TakeEffect DEF Answered
  <2>5. ASSUME NEW u \in Token, NEW p \in Lists[u], Steady(s, p), HasRead(s, u)', listing[p] > 0
        PROVE  dexPairs'[p] = listing[p]
    <3>1. CASE c \in Scan /\ Called(c, t).op = "get"
      <4>1. TakePairs(c, t, listed)
        BY <1>10, <3>1 DEF Answered, Called
      <4>. QED
        BY <1>0, <1>10, <2>1, <2>5, <3>1, <4>1, Taken
    <3>2. CASE ~ (c \in Scan /\ Called(c, t).op = "get")
      <4>1. UNCHANGED <<dexPairs, scan>>
        BY <1>10, <3>2 DEF Answered, Called
      <4>2. HasRead(s, u)
        BY <2>1, <2>5, <4>1 DEF HasRead
      <4>. QED
        BY <1>0, <2>5, <4>1, <4>2 DEF Informed
    <3>. QED
      BY <3>1, <3>2
  <2>6. ASSUME NEW u \in Token, Asked(s, u)'
        PROVE  Asked(s, u) \/ (u = t /\ c = s /\ At(c, t) = "loading")
    <3>1. CASE scan'[s].dex = "refresh"
      <4>1. scan'[s] = scan[s]
        BY <1>0, <1>10, <3>1, TakeEffect DEF Answered
      <4>2. CASE <<s, u>> = <<c, t>>
        <5>1. scan[s].dex = "refresh" /\ Active(s, u)
          BY <1>10, <3>1, <4>1, <4>2
        <5>2. Called(s, u).op = "refresh"
          BY <1>0, <5>1 DEF Orderly, Ordered
        <5>. QED
          BY <1>10, <4>2, <5>2
      <4>3. CASE <<s, u>> # <<c, t>>
        <5>1. Active(s, u)' = Active(s, u)
          BY <1>0, <2>2, <4>3 DEF Active, At, Called
        <5>. QED
          BY <2>1, <2>6, <4>1, <5>1 DEF Asked
      <4>. QED
        BY <4>2, <4>3
    <3>2. CASE scan'[s].dex # "refresh"
      <4>1. scan'[s].dex \in {"read", "fresh"} /\ u \in Targets
        BY <2>1, <2>6, <3>2 DEF Asked
      <4>2. scan[s].dex \in {"read", "fresh"}
        <5>1. CASE c = s /\ TakePairs(c, t, listed) /\ Called(c, t).op = "get"
          BY <1>0, <1>10, <5>1 DEF Orderly, Ordered
        <5>2. CASE ~ (c = s /\ TakePairs(c, t, listed) /\ Called(c, t).op = "get")
          <6>1. scan'[s] = scan[s]
            BY <1>0, <1>10, <5>2, TakeEffect DEF Answered, Called
          <6>. QED
            BY <4>1, <6>1
        <5>. QED
          BY <5>1, <5>2
      <4>. QED
        BY <4>1, <4>2 DEF Asked
    <3>. QED
      BY <3>1, <3>2
  <2>7. ASSUME NEW u \in Token, NEW p \in Lists[u], Steady(s, p), Asked(s, u)'
        PROVE  Told(u, p)'
    <3>1. CASE Asked(s, u)
      <4>1. Told(u, p)
        BY <1>0, <2>7, <3>1 DEF Informed
      <4>2. u = t => listed[p] = listing[p]
        BY <1>10, <2>7, <3>1
      <4>. QED
        BY <1>10, <2>1, <2>3, <4>1, <4>2 DEF Told
    <3>2. CASE ~ Asked(s, u)
      <4>1. u = t /\ c = s /\ At(c, t) = "loading"
        BY <2>6, <2>7, <3>2
      <4>2. cache'[t].pairs[p] = listing[p]
        BY <1>10, <2>7, <3>2, <4>1
      <4>3. \A d \in Caller : At(d, t) = "loading" => d = c
        BY <4>1 DEF ChainInv, Chained, Active
      <4>4. \A d \in Caller : At(d, t)' # "loading"
        BY <2>3, <4>3
      <4>. QED
        BY <2>1, <4>1, <4>2, <4>4 DEF Told
    <3>. QED
      BY <3>1, <3>2
  <2>8. \A p \in Pool : Steady(s, p)' = Steady(s, p)
    BY <2>1, <2>4 DEF Steady
  <2>9. ASSUME NEW u \in Token, NEW p \in Lists[u], Steady(s, p), At(s, u)' = "loading"
        PROVE  Called(s, u)'.pairs[p] = listing[p]
    BY <1>0, <2>3, <2>9 DEF Informed
  <2>. QED
    BY <1>0, <2>1, <2>5, <2>7, <2>8, <2>9 DEF Informed
<1>11. ASSUME NEW c \in Caller, NEW t \in Token, NEW n, Active(c, t), Request(c, t, n),
              UNCHANGED <<setting, listing, since, scan, dexPairs>>,
              \A u \in Token : cache'[u] = cache[u] \/ cache'[u] = NoEntry
       PROVE  Informed(s)'
  <2>1. /\ Called(c, t)'.pairs = listing /\ Called(c, t)'.at = "loading"
        /\ \A d \in Caller, u \in Token : <<d, u>> # <<c, t>> => Called(d, u)' = Called(d, u)
    BY <1>11, RequestFrame
  <2>2. \A d \in Caller, u \in Token : Active(d, u)' = Active(d, u)
    BY <1>11, <2>1 DEF Active, At, Called
  <2>3. \A u \in Token : Asked(s, u)' = Asked(s, u) /\ HasRead(s, u)' = HasRead(s, u)
    BY <1>0, <1>11, <2>2 DEF Asked, HasRead, Targets, Order
  <2>4. ASSUME NEW u \in Token, NEW p \in Lists[u], Told(u, p) PROVE Told(u, p)'
    BY <1>11, <2>1, <2>4 DEF Told, At, Called, NoEntry
  <2>. QED
    BY <1>0, <1>11, <2>1, <2>3, <2>4 DEF Informed, Steady, At, Called
<1>12. ASSUME NEW c \in Caller, NEW t \in Token, FeedThrows(c, t) PROVE Informed(s)'
  <2>1. /\ UNCHANGED <<setting, listing, since, cache, dexPairs>> /\ Settle(c, t)
    BY <1>12 DEF FeedThrows, Throw, worldVars
  <2>2. \A d \in Caller, u \in Token : <<d, u>> # <<c, t>> =>
             Called(d, u)'.at = Called(d, u).at /\ Called(d, u)'.pairs = Called(d, u).pairs
    BY <2>1, SettleFrame
  <2>3. \A d \in Caller, u \in Token : At(d, u)' = "loading" =>
          /\ At(d, u) = "loading" /\ Called(d, u)'.pairs = Called(d, u).pairs
    BY <2>1, <2>2, SettleFrame DEF Active, At, Called
  <2>4. Order' = Order /\ Targets' = Targets /\ scan'[s].started = scan[s].started
    BY <1>12, <2>1, ThrowEffect DEF Order, Targets
  <2>5. ASSUME NEW u \in Token PROVE (Asked(s, u)' => Asked(s, u)) /\ (HasRead(s, u)' => HasRead(s, u))
    <3>1. CASE s = c
      BY <1>12, <3>1, ThrowEffect DEF Asked, HasRead
    <3>2. CASE s # c
      <4>1. scan'[s] = scan[s] /\ Active(s, u)' = Active(s, u)
        BY <1>0, <1>12, <2>2, <3>2, ThrowEffect DEF Active, At, Called
      <4>. QED
        BY <2>4, <4>1 DEF Asked, HasRead
    <3>. QED
      BY <3>1, <3>2
  <2>. QED
    BY <1>0, <2>1, <2>3, <2>4, <2>5, InformedKept
<1>13. ASSUME NEW c \in Caller, NEW t \in Token, FeedStep(c, t) PROVE Informed(s)'
  <2>0. cache[t].pairs \in Pairs /\ calls[<<c, t>>].pairs \in Pairs
    BY DEF DataInv, Entries, ChainInv, ChainType, Calls
  <2>1. CASE FeedHit(c, t)
    <3>1. /\ Active(c, t) /\ Settle(c, t) /\ cache' = cache /\ Answered(c, t, cache[t].pairs)
          /\ Called(c, t).op = "get" /\ clock < cache[t].expires
      BY <2>1 DEF FeedHit, Hit, Cached, Turn, Active, Called
    <3>2. \A p \in Lists[t] : Asked(s, t) /\ Steady(s, p) => cache[t].pairs[p] = listing[p]
      <4>1. cache[t].expires \in Nat
        BY DEF DataInv, Entries
      <4>. QED
        BY <1>0, <3>1, <4>1 DEF Informed, Told
    <3>3. At(c, t) # "loading"
      BY <2>1 DEF FeedHit, Hit, Cached, Turn
    <3>. QED
      BY <1>10, <2>0, <3>1, <3>2, <3>3
  <2>2. CASE FeedLoads(c, t)
    <3>1. Active(c, t) /\ Request(c, t, 0) /\ cache' = [cache EXCEPT ![t] = NoEntry]
      BY <2>2 DEF FeedLoads, Load, Turn, Active
    <3>2. \A u \in Token : cache'[u] = cache[u] \/ cache'[u] = NoEntry
      BY <3>1 DEF DataInv
    <3>. QED
      BY <1>11, <2>2, <3>1, <3>2 DEF FeedLoads, worldVars, engineVars
  <2>3. CASE FeedResponds(c, t)
    <3> DEFINE listed == calls[<<c, t>>].pairs
    <3>1. /\ At(c, t) = "loading" /\ Active(c, t) /\ Settle(c, t) /\ Answered(c, t, listed)
          /\ cache' = [cache EXCEPT ![t] = [expires |-> clock + Ttl, pairs |-> listed]]
      BY <2>3 DEF FeedResponds, Respond, Active
    <3>2. \A p \in Lists[t] : Asked(s, t) /\ Steady(s, p) => listed[p] = listing[p]
      BY <1>0, <3>1 DEF Informed, Told, Called
    <3>3. \A p \in Lists[t] : c = s /\ Steady(s, p) => listed[p] = listing[p]
      BY <1>0, <3>1 DEF Informed, Called
    <3> HIDE DEF listed
    <3>4. cache'[t].pairs = listed /\ \A u \in Token \ {t} : cache'[u] = cache[u]
      BY <3>1 DEF DataInv
    <3>. QED
      BY <1>10, <2>0, <3>1, <3>2, <3>3, <3>4 DEF listed
  <2>4. CASE FeedRetries(c, t)
    BY <1>11, <2>4 DEF FeedRetries, Retry, Active, worldVars, engineVars
  <2>. QED
    BY <1>12, <1>13, <2>1, <2>2, <2>3, <2>4 DEF FeedStep
<1>. QED
  BY <1>1, <1>2, <1>3, <1>5, <1>6, <1>7, <1>8, <1>9, <1>13, StepKinds

(* FindPairs takes no pool that is listed as dead, for all that is known.     *)
LEMMA BuriedStep ==
  ASSUME ScanInv, ChainInv, DataInv, TradeInv, ListInv, [Next]_vars, NEW s \in Scan
  PROVE  Buried(s)'
<1>0. /\ Informed(s) /\ Orderly(s) /\ Buried(s) /\ clock \in Nat
      /\ Lists \in [Token -> SUBSET Pool] /\ Order \in Seq(Token)
      /\ scan \in [Scan -> ScanRecord] /\ scan[s].started \in Nat
      /\ \A o \in Scan : Orderly(o)
      /\ listing \in Pairs
      /\ \A pair \in pairs[s] : {pair.buy, pair.sell} \subseteq Pool
  <2>1. Informed(s) /\ Orderly(s) /\ Buried(s) /\ \A o \in Scan : Orderly(o)
    BY DEF ListInv
  <2>2. scan \in [Scan -> ScanRecord] /\ scan[s].started \in Nat /\ clock \in Nat
    BY DEF ScanInv, ScanRecord
  <2>3. pairs[s] \subseteq PoolPair
    BY DEF TradeInv
  <2>4. \A pair \in pairs[s] : {pair.buy, pair.sell} \subseteq Pool
    BY <2>3 DEF PoolPair
  <2>5. Order \in Seq(Token)
    BY SettingFacts DEF ScanInv
  <2>6. listing \in Pairs
    BY DEF ChainInv, ChainType
  <2>7. Lists \in [Token -> SUBSET Pool]
    BY ScanAssumption
  <2>. QED
    BY <2>1, <2>2, <2>4, <2>5, <2>6, <2>7
<1>1. ASSUME UNCHANGED <<setting, listing, since>>, scan'[s].dex = scan[s].dex,
             scan'[s].started = scan[s].started, pairs'[s] \subseteq pairs[s]
      PROVE  Buried(s)'
  BY <1>0, <1>1 DEF Buried, Targets, Order, Steady
<1>2. CASE Aside
  BY <1>1, <1>2 DEF Aside, SameRun
<1>3. ASSUME NEW q \in Pool, NEW l \in Level, Relist(q, l) PROVE Buried(s)'
  <2>1. /\ UNCHANGED <<setting, scan, pairs>>
        /\ \A p \in Pool \ {q} : listing'[p] = listing[p]
    BY <1>0, <1>3 DEF Relist, engineVars, Pairs
  <2>2. \A p \in Pool : Steady(s, p)' => p # q /\ Steady(s, p)
    <3>1. scan[s].started <= clock /\ since' = [since EXCEPT ![q] = clock]
      BY <1>0, <1>3 DEF Relist, Orderly
    <3>. QED
      BY <1>0, <2>1, <3>1 DEF Steady, DataInv
  <2>. QED
    BY <1>0, <2>1, <2>2 DEF Buried, Targets, Order
<1>4. ASSUME NEW o \in Scan, Begin(o) PROVE Buried(s)'
  <2>1. CASE s = o
    <3>1. scan'[s].dex = "refresh"
      BY <1>0, <1>4, <2>1 DEF Begin
    <3>. QED
      BY <3>1 DEF Buried
  <2>2. CASE s # o
    BY <1>1, <1>4, <2>2 DEF Begin, worldVars
  <2>. QED
    BY <2>1, <2>2
<1>5. ASSUME NEW o \in Scan, AskRefresh(o) PROVE Buried(s)'
  <2>1. scan' = [scan EXCEPT ![o].next = @ + 1] /\ UNCHANGED <<setting, listing, since, pairs>>
    BY <1>5 DEF AskRefresh, worldVars
  <2>2. scan'[s].dex = scan[s].dex /\ scan'[s].started = scan[s].started
    BY <1>0, <2>1 DEF ScanRecord
  <2>. QED
    BY <1>1, <2>1, <2>2
<1>6. ASSUME pairs'[s] = {} PROVE Buried(s)'
  BY <1>6 DEF Buried
<1>7. ASSUME NEW o \in Scan, BeginRead(o) PROVE Buried(s)'
  <2>1. UNCHANGED <<setting, listing, since, pairs>> /\ \A x \in Scan \ {o} : scan'[x] = scan[x]
    BY <1>7 DEF BeginRead, worldVars
  <2>2. s = o => pairs[s] = {}
    BY <1>0, <1>7 DEF BeginRead, Orderly
  <2>. QED
    BY <1>1, <1>6, <2>1, <2>2
<1>8. ASSUME NEW o \in Scan, FindPairs(o) PROVE Buried(s)'
  <2>1. UNCHANGED <<setting, listing, since>> /\ scan' = [scan EXCEPT ![o].at = "gas"]
    BY <1>8 DEF FindPairs, worldVars
  <2>2. scan'[s].dex = scan[s].dex /\ scan'[s].started = scan[s].started
    BY <1>0, <2>1 DEF ScanRecord
  <2>3. CASE s # o
    BY <1>1, <1>8, <2>1, <2>2, <2>3 DEF FindPairs, TradeInv
  <2>4. CASE s = o
    <3> SUFFICES ASSUME scan[s].dex = "fresh", NEW pair \in CrossVenuePairs,
                        NEW p \in {pair.buy, pair.sell},
                        NEW t \in Targets, p \in Lists[t], Steady(s, p),
                        listing[p] \in 1 .. MinLiquidity - 1
                 PROVE  FALSE
      <4>1. pairs'[s] = CrossVenuePairs
        BY <1>8, <2>4 DEF FindPairs, TradeInv
      <4>. QED
        BY <2>1, <2>2, <4>1 DEF Buried, Targets, Order, Steady
    <3>1. t \in Token
      BY <1>0 DEF Targets
    <3>2. listing[p] > 0 /\ listing[p] < MinLiquidity
      BY DEF MinLiquidity
    <3>3. HasRead(s, t)
      BY DEF HasRead
    <3>4. dexPairs[p] = listing[p]
      BY <1>0, <3>1, <3>2, <3>3 DEF Informed
    <3>5. Alive(p)
      BY DEF CrossVenuePairs, Crosses
    <3>. QED
      BY <3>2, <3>4, <3>5 DEF Alive, EffectiveLiquidity, MinLiquidity
  <2>. QED
    BY <2>3, <2>4
<1>9. ASSUME UNCHANGED <<setting, listing, since, scan, pairs>> PROVE Buried(s)'
  BY <1>1, <1>9
<1>10. ASSUME NEW c \in Caller, NEW t \in Token, Active(c, t), NEW listed, Answered(c, t, listed)
       PROVE  Buried(s)'
  <2>1. UNCHANGED <<setting, listing, since, pairs>>
    BY <1>10 DEF Answered, worldVars
  <2>2. CASE scan'[s] = scan[s]
    BY <1>1, <2>1, <2>2
  <2>3. CASE scan'[s] # scan[s]
    <3>1. c \in Scan /\ Called(c, t).op = "get" /\ TakePairs(c, t, listed)
      BY <1>10, <2>3 DEF Answered, Called
    <3>2. c = s
      BY <2>3, <3>1, TakeEffect
    <3>3. pairs[s] = {}
      BY <1>0, <1>10, <3>1, <3>2 DEF Orderly, Ordered
    <3>. QED
      BY <1>6, <2>1, <3>3
  <2>. QED
    BY <2>2, <2>3
<1>11. ASSUME NEW c \in Caller, NEW t \in Token, FeedStep(c, t) PROVE Buried(s)'
  <2>1. CASE FeedHit(c, t)
    BY <1>10, <2>1 DEF FeedHit, Hit, Cached, Turn, Active
  <2>2. CASE FeedLoads(c, t) \/ FeedRetries(c, t)
    BY <1>9, <2>2 DEF FeedLoads, FeedRetries, worldVars, engineVars
  <2>3. CASE FeedResponds(c, t)
    BY <1>10, <2>3 DEF FeedResponds, Respond, Active
  <2>4. CASE FeedThrows(c, t)
    <3>1. UNCHANGED <<setting, listing, since, pairs>>
      BY <2>4 DEF FeedThrows, worldVars
    <3>2. CASE s = c
      BY <2>4, <3>2, ThrowEffect DEF Buried
    <3>3. CASE s # c
      <4>1. scan'[s] = scan[s]
        BY <2>4, <3>3, ThrowEffect
      <4>. QED
        BY <1>1, <3>1, <4>1
    <3>. QED
      BY <3>2, <3>3
  <2>. QED
    BY <1>11, <2>1, <2>2, <2>3, <2>4 DEF FeedStep
<1>12. ASSUME NEW o \in Scan, AskPairs(o) PROVE Buried(s)'
  BY <1>9, <1>12 DEF AskPairs, worldVars, engineVars
<1>13. ASSUME NEW r \in Reader, NEW t \in Token, Read(r, t) PROVE Buried(s)'
  BY <1>9, <1>13 DEF Read, worldVars, engineVars
<1>. QED
  BY <1>2, <1>3, <1>4, <1>5, <1>7, <1>8, <1>11, <1>12, <1>13, StepKinds

LEMMA ListInit == Init => ListInv
<1> SUFFICES ASSUME Init, NEW s \in Scan PROVE Orderly(s) /\ Informed(s) /\ Buried(s)
  BY DEF ListInv
<1>1. scan[s] = Idle /\ pairs[s] = {} /\ clock = 0 /\ Scan \subseteq Caller
  BY ScanAssumption DEF Init, FeedInit
<1>2. \A t \in Token : calls[<<s, t>>].at = "idle"
  BY <1>1 DEF Init, FeedInit, NoCall
<1>3. Orderly(s)
  BY <1>1, <1>2 DEF Orderly, Idle, Active, At
<1>4. Informed(s)
  BY <1>1, <1>2 DEF Informed, Asked, HasRead, Idle, At
<1>. QED
  BY <1>1, <1>3, <1>4 DEF Buried

(* index.ts:251-288, dexscreener-feed.ts:173-207, for any number of scans     *)
(* beside each other, of readers, tokens and pools, with a refresh that fails *)
(* or is retried anywhere: a scan whose refresh succeeded sees the liquidity  *)
(* that is listed, and pairs no pool that is listed as dead.                  *)
THEOREM SeesWhatIsListed == Spec => []ListedLiquidity
<1> DEFINE Inv == ScanInv /\ ChainInv /\ DataInv /\ TradeInv /\ ListInv
<1>1. Init => Inv
  BY ScanInit, ChainInit, DataInit, TradeInit, ListInit
<1>2. Inv /\ [Next]_vars => Inv'
  <2>1. ScanInv /\ ChainInv /\ DataInv /\ TradeInv /\ ListInv /\ [Next]_vars => ListInv'
    BY OrderlyStep, InformedStep, BuriedStep DEF ListInv
  <2>. QED
    BY <2>1, ScanStepInv, ChainStep, DataStep, TradeStep
<1>3. ScanInv /\ ListInv => ListedLiquidity
  <2> SUFFICES ASSUME ScanInv, ListInv PROVE ListedLiquidity
    OBVIOUS
  <2>1. Targets \subseteq Token
    BY SettingFacts DEF ScanInv, Targets
  <2>2. FreshLiquidity
    <3> SUFFICES ASSUME NEW s \in Scan, scan[s].dex = "fresh", NEW t \in Targets, NEW p \in Lists[t],
                        Steady(s, p), listing[p] > 0
                 PROVE  dexPairs[p] = listing[p]
      BY DEF FreshLiquidity, Targets
    <3>1. Informed(s) /\ HasRead(s, t) /\ t \in Token
      BY <2>1 DEF ListInv, HasRead
    <3>. QED
      BY <3>1 DEF Informed
  <2>3. NoDeadPool
    BY DEF ListInv, Buried, NoDeadPool, Targets
  <2>. QED
    BY <2>2, <2>3 DEF ListedLiquidity
<1>. QED
  BY <1>1, <1>2, <1>3, PTL DEF Spec

=============================================================================
