\* Words of up to six keys from small alphabets, one alphabet per rule family.
SPECIFICATION Spec
CONSTANT Scenarios <- MCScenarios
INVARIANTS SyllableIsRight KeysStayHome
PROPERTIES DoublePress
