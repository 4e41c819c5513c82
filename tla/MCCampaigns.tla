---------------------------- MODULE MCCampaigns ----------------------------
EXTENDS Campaigns, TLC
CONSTANTS a, b, e1, e2, m, f, g

Leaf(n, v) == [name |-> n, amount |-> v, subs |-> << >>]
Item(n, v, subs) == [name |-> n, amount |-> v, subs |-> subs]
Content0 == [events |-> << >>, tv_ads |-> << >>, street_ads |-> << >>,
             exhibitions |-> << >>, social_ads |-> << >>, other_costs |-> << >>]

\* An event with a celebrity, a street ad with a location and a social media ad on
\* one platform; then two events only, the first one's celebrity dearer.  Both
\* sum up to 7, so that few totals are reached.
Street == Item(g, 1, <<Item(f, 1, <<Leaf(m, 1)>>)>>)
Social == Item(g, 0, <<Leaf(f, 2)>>)
MCPayloads ==
    {[about |-> a, types |-> {"events", "street_ads", "social_ads"},
      lines |-> [Content0 EXCEPT !["events"] = <<Item(e1, 1, <<Leaf(m, 1)>>)>>,
                                 !["street_ads"] = <<Street>>,
                                 !["social_ads"] = <<Social>>]],
     [about |-> b, types |-> {"events"},
      lines |-> [Content0 EXCEPT !["events"] = <<Item(e2, 4, << >>),
                                                 Item(e1, 1, <<Leaf(m, 2)>>)>>]]}
MCRejections == {{<<"events", 1, 1>>, <<"social_ads", 1>>, <<"other_costs", 1>>}}
=============================================================================
