------------------------------- MODULE MCEditorial -------------------------------
(* An instance of Editorial for TLC: two articles, each with a topic, and  *)
(* what editors may do to them and with a third.                           *)
EXTENDS Editorial

CONSTANTS p1, p2, p3, t1, t2, t3, a, b, c

MCPosts == {p1, p2, p3}
MCTopics == {t1, t2, t3}
MCInitialPosts == [p \in MCPosts |->
    IF p = p1 THEN [slug |-> a, slugEn |-> NoSlug]
    ELSE IF p = p2 THEN [slug |-> b, slugEn |-> NoSlug]
    ELSE NoRow]
MCInitialTopics == [t \in MCTopics |-> IF t = t1 THEN a ELSE IF t = t2 THEN b ELSE NoTopic]
MCInitialLinks == {<<p1, t1>>}

Edit(p, s, ts) == [do |-> "edit", post |-> p, slugs |-> s, topics |-> ts]
Topic(d, t, s) == [do |-> d, topic |-> t, slug |-> s]

MCOrders == {
    Edit(p1, [slug |-> b], {}),
    Edit(p2, [slug |-> a], Keep),
    Edit(p2, [slugEn |-> b], {t1}),
    Edit(p2, <<>>, {t2}),
    [do |-> "create", post |-> p3, slugs |-> [slug |-> c, slugEn |-> b], topics |-> {t1, t3}],
    [do |-> "removePost", post |-> p2],
    Topic("addTopic", t3, c),
    Topic("renameTopic", t1, b), Topic("renameTopic", t2, a),
    [do |-> "removeTopic", topic |-> t1]}
===============================================================================
