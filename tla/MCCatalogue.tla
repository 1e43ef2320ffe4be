------------------------------ MODULE MCCatalogue ------------------------------
EXTENDS Catalogue
CONSTANTS m1, m2, n1
MCFirstConfig == [listed |-> {m1, m2}, default |-> m1, price |-> 1, from |-> 0]
MCConfigs == [listed : {{m1, m2}}, default : {m1}, price : {1, 2}, from : {0, 1}]
    \cup [listed : {{m1, m2}, {m2}}, default : {m2}, price : {1}, from : {0}]
===============================================================================
