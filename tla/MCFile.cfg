SPECIFICATION Spec
CONSTANT Modes = {"A", "B", "W", "I"}
INVARIANTS TypeOK NoDangling HandleFollows WTransparent
PROPERTIES ModeStable OpenTruthful RefinesFile
