------------------------------ MODULE MongoClient ----------------------------
(***************************************************************************)
(* What the queries of LPushMongodbClient (core/lpushMongoClient.cpp)      *)
(* return.  A collection is a sequence of documents, a document and the    *)
(* params of a query are functions from field names.  No query reports an  *)
(* error: a list is cleared, a test of existence says no.                  *)
(***************************************************************************)
EXTENDS Integers, Sequences

(* excute(params): every parameter is a field to be equal.  Found[n] are   *)
(* the matching ones of the first n documents.                             *)
Matching(coll, params) ==
    LET Found[n \in 0 .. Len(coll)] ==
            IF n = 0 THEN << >>
            ELSE IF \A f \in DOMAIN params :
                        f \in DOMAIN coll[n] /\ coll[n][f] = params[f]
                 THEN Append(Found[n - 1], coll[n])
                 ELSE Found[n - 1]
    IN  Found[Len(coll)]

SelectOneIsExist(ok, coll, params) == ok /\ Matching(coll, params) # <<>>

SkipParamsIsExistAt(ok, coll, params, skipnum) ==    \* variant: off by one
    ok /\ Len(Matching(coll, params)) >= skipnum

SkipParamsIsExist(ok, coll, params, skipnum) ==
    ok /\ Len(Matching(coll, params)) > skipnum

QueryToListJson(ok, coll, params) == IF ok THEN Matching(coll, params) ELSE <<>>

QueryToListJsonLimit(ok, coll, params, page, pageSize) ==
    LET all  == QueryToListJson(ok, coll, params)
        last == page * pageSize
    IN  SubSeq(all, (page - 1) * pageSize + 1, IF last < Len(all) THEN last ELSE Len(all))

InsertFromCollectionToJson(ok, coll, d) == IF ok THEN Append(coll, d) ELSE coll
=============================================================================
